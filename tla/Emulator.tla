------------------------------ MODULE Emulator ------------------------------
(***************************************************************************)
(* The connection threads of the server emulator (replay/v2_server.py):    *)
(* handle_login_conn, which walks the queue of a login port in lockstep    *)
(* with the live game client, and handle_world_conn, whose push thread     *)
(* sends a world port's frames paced against the replayer's progress       *)
(* while its reader drains what the client sends.                          *)
(*                                                                         *)
(* The game client is the environment: it connects, sends any opcode and   *)
(* closes when it likes.  Each member of LoginConns and WorldConns is one  *)
(* connection it may open, PortOf the port it dials; every connection      *)
(* starts at the head of its port's queue.  Pacing only delays a step.     *)
(***************************************************************************)
EXTENDS ControlBus

CONSTANTS
  LoginConns, WorldConns,
  PortOf,
  Lookahead         \* --world-lookahead-seq

ASSUME EmulatorAssumption ==
  /\ LoginConns \cap WorldConns = {}
  /\ PortOf \in [LoginConns \cup WorldConns -> Ports]
  /\ \A c \in LoginConns : PortOf[c] \in LoginPorts
  /\ \A c \in WorldConns : PortOf[c] \in WorldPorts
  /\ Lookahead \in Nat

VARIABLES
  lpc,        \* login thread: idle, flush (_flush_s2c), ack (frame sent, not
              \*   yet broadcast), read (read_frame), closed
  lcur,       \* its cursor
  lsent,      \* history: what it sent or matched
  lfailed,    \* history: a send of it failed
  wpc,        \* push thread: idle, top (of the loop), gate, send, ack,
              \*   announce, done, closed
  wcur,       \* the next frame to push is the first one from here on
  wsent,      \* history of the frames pushed; "sent" counts them
  wstop,      \* the connection's stop event
  expired     \* history: the gate of the frame at hand timed out

loginVars == <<lpc, lcur, lsent, lfailed>>
worldVars == <<wpc, wcur, wsent, wstop, expired>>
emuVars   == <<lpc, lcur, lsent, lfailed, wpc, wcur, wsent, wstop, expired>>

EmuTypeOK ==
  /\ lpc \in [LoginConns -> {"idle", "flush", "ack", "read", "closed"}]
  /\ lcur \in [LoginConns -> 1..(N + 1)]
  /\ lsent \in [LoginConns -> Seq(Seqs)]
  /\ lfailed \in [LoginConns -> BOOLEAN]
  /\ wpc \in [WorldConns -> {"idle", "top", "gate", "send", "ack", "announce",
                             "done", "closed"}]
  /\ wcur \in [WorldConns -> 1..(N + 1)]
  /\ wsent \in [WorldConns -> Seq(Seqs)]
  /\ wstop \in [WorldConns -> BOOLEAN]
  /\ expired \in [WorldConns -> BOOLEAN]

EmuInit ==
  /\ lpc = [c \in LoginConns |-> "idle"]
  /\ lcur = [c \in LoginConns |-> 1]
  /\ lsent = [c \in LoginConns |-> <<>>]
  /\ lfailed = [c \in LoginConns |-> FALSE]
  /\ wpc = [c \in WorldConns |-> "idle"]
  /\ wcur = [c \in WorldConns |-> 1]
  /\ wsent = [c \in WorldConns |-> <<>>]
  /\ wstop = [c \in WorldConns |-> FALSE]
  /\ expired = [c \in WorldConns |-> FALSE]

(* Of the bus, the connection threads change toReplayer (with the history  *)
(* announced) and pendingPorts.                                            *)
busRest == <<link, toBus, doneMsgs, progress, inputDone, stopEvt, drops, sigints>>

-----------------------------------------------------------------------------
(* Login connections. *)

LHead(c) == First(From(Queued[PortOf[c]], lcur[c]))

(* _next_c2s: leftover S2C entries before it are passed over. *)
NextC2S(c) == First(From(C2S[PortOf[c]], lcur[c]))

(* Mutant: no flush after a match. *)
FlushOrReadAtOnce(c, cursor) == "read"

(* _flush_s2c goes on while the entry at the cursor is S2C, then the       *)
(* handler reads the next frame.                                           *)
FlushOrRead(c, cursor) ==
  IF First(From(Queued[PortOf[c]], cursor)) \in S2C[PortOf[c]]
  THEN "flush" ELSE "read"

LoginConnect(c) ==
  /\ lpc[c] = "idle"
  /\ ~stopEvt
  /\ lpc' = [lpc EXCEPT ![c] = FlushOrRead(c, lcur[c])]
  /\ UNCHANGED <<busVars, lcur, lsent, lfailed, worldVars>>

(* sendall of the frame at the cursor ... *)
FlushSend(c) ==
  /\ lpc[c] = "flush"
  /\ Recording[LHead(c)].ok
  /\ lsent' = [lsent EXCEPT ![c] = Append(@, LHead(c))]
  /\ lpc' = [lpc EXCEPT ![c] = "ack"]
  /\ UNCHANGED <<busVars, lcur, lfailed, worldVars>>

(* ... and its broadcast. *)
FlushAck(c) ==
  /\ lpc[c] = "ack"
  /\ BroadcastAck(LHead(c))
  /\ lcur' = [lcur EXCEPT ![c] = LHead(c) + 1]
  /\ lpc' = [lpc EXCEPT ![c] = FlushOrRead(c, LHead(c) + 1)]
  /\ UNCHANGED <<busRest, pendingPorts, lsent, lfailed, worldVars>>

(* A payload that is not hex is skipped without a broadcast. *)
FlushSkip(c) ==
  /\ lpc[c] = "flush"
  /\ ~Recording[LHead(c)].ok
  /\ lcur' = [lcur EXCEPT ![c] = LHead(c) + 1]
  /\ lpc' = [lpc EXCEPT ![c] = FlushOrRead(c, LHead(c) + 1)]
  /\ UNCHANGED <<busVars, lsent, lfailed, worldVars>>

(* sendall fails: the flush gives up with the cursor at the unsent frame   *)
(* and the handler goes on reading what the client had already sent.       *)
FlushFail(c) ==
  /\ lpc[c] = "flush"
  /\ Recording[LHead(c)].ok
  /\ lpc' = [lpc EXCEPT ![c] = "read"]
  /\ lfailed' = [lfailed EXCEPT ![c] = TRUE]
  /\ UNCHANGED <<busVars, lcur, lsent, worldVars>>

(* A frame with the opcode of the next recorded C2S.  (A keepalive on a    *)
(* plaintext port is ignored, which changes nothing.)                      *)
LoginMatch(c, op) ==
  /\ lpc[c] = "read"
  /\ ~(op = KEEPALIVE_OP /\ PortOf[c] \in PlaintextPorts)
  /\ NextC2S(c) \in Seqs
  /\ Recording[NextC2S(c)].op = op
  /\ BroadcastAck(NextC2S(c))
  /\ lsent' = [lsent EXCEPT ![c] = Append(@, NextC2S(c))]
  /\ lcur' = [lcur EXCEPT ![c] = NextC2S(c) + 1]
  /\ lpc' = [lpc EXCEPT ![c] = FlushOrRead(c, NextC2S(c) + 1)]
  /\ UNCHANGED <<busRest, pendingPorts, lfailed, worldVars>>

(* Mutant: a mismatch is broadcast as if it matched. *)
LoginDesyncAcked(c, op) ==
  /\ lpc[c] = "read"
  /\ NextC2S(c) \in Seqs
  /\ Recording[NextC2S(c)].op # op
  /\ BroadcastAck(NextC2S(c))
  /\ lpc' = [lpc EXCEPT ![c] = "closed"]
  /\ UNCHANGED <<busRest, pendingPorts, lcur, lsent, lfailed, worldVars>>

(* A frame with another opcode. *)
LoginDesync(c, op) ==
  /\ lpc[c] = "read"
  /\ ~(op = KEEPALIVE_OP /\ PortOf[c] \in PlaintextPorts)
  /\ NextC2S(c) \in Seqs
  /\ Recording[NextC2S(c)].op # op
  /\ Broadcast(Desync(NextC2S(c)))
  /\ lpc' = [lpc EXCEPT ![c] = "closed"]
  /\ UNCHANGED <<busRest, announced, pendingPorts, lcur, lsent, lfailed,
                 worldVars>>

(* The client closes or sends a malformed frame, or a frame arrives after  *)
(* the last recorded C2S.                                                  *)
LoginClose(c) ==
  /\ lpc[c] = "read"
  /\ lpc' = [lpc EXCEPT ![c] = "closed"]
  /\ UNCHANGED <<busVars, lcur, lsent, lfailed, worldVars>>

-----------------------------------------------------------------------------
(* World connections. *)

WHead(c) == First(From(S2C[PortOf[c]], wcur[c]))

WorldConnect(c) ==
  /\ wpc[c] = "idle"
  /\ ~stopEvt
  /\ wpc' = [wpc EXCEPT ![c] = "top"]
  /\ UNCHANGED <<busVars, loginVars, wcur, wsent, wstop, expired>>

(* The reader sees the client close, or fails to decode a frame. *)
WorldClientCloses(c) ==
  /\ wpc[c] # "idle"
  /\ ~wstop[c]
  /\ wstop' = [wstop EXCEPT ![c] = TRUE]
  /\ UNCHANGED <<busVars, loginVars, wpc, wcur, wsent, expired>>

(* The top of the push loop: the stop event ends the thread, otherwise the *)
(* next frame goes to the gate.                                            *)
PushTop(c) ==
  /\ wpc[c] = "top"
  /\ WHead(c) \in Seqs
  /\ wpc' = [wpc EXCEPT ![c] = IF wstop[c] THEN "closed" ELSE "gate"]
  /\ expired' = [expired EXCEPT ![c] = FALSE]
  /\ UNCHANGED <<busVars, loginVars, wcur, wsent, wstop>>

(* Mutant: one event too far ahead. *)
PushGateOffByOne(c) ==
  /\ wpc[c] = "gate"
  /\ GateOpen(WHead(c) - Lookahead - 1)
  /\ wpc' = [wpc EXCEPT ![c] = "send"]
  /\ UNCHANGED <<busVars, loginVars, wcur, wsent, wstop, expired>>

(* wait_for_input_progress returns True ... *)
PushGate(c) ==
  /\ wpc[c] = "gate"
  /\ GateOpen(WHead(c) - Lookahead)
  /\ wpc' = [wpc EXCEPT ![c] = "send"]
  /\ UNCHANGED <<busVars, loginVars, wcur, wsent, wstop, expired>>

(* Mutant: the gate waits without a timeout. *)
PushGateForever(c) ==
  /\ stopEvt
  /\ wpc[c] = "gate"
  /\ wpc' = [wpc EXCEPT ![c] = "send"]
  /\ UNCHANGED <<busVars, loginVars, wcur, wsent, wstop, expired>>

(* ... or times out, "pushing anyway". *)
PushGateTimeout(c) ==
  /\ wpc[c] = "gate"
  /\ ~GateOpen(WHead(c) - Lookahead)
  /\ wpc' = [wpc EXCEPT ![c] = "send"]
  /\ expired' = [expired EXCEPT ![c] = TRUE]
  /\ UNCHANGED <<busVars, loginVars, wcur, wsent, wstop>>

PushSend(c) ==
  /\ wpc[c] = "send"
  /\ Recording[WHead(c)].ok
  /\ wsent' = [wsent EXCEPT ![c] = Append(@, WHead(c))]
  /\ wpc' = [wpc EXCEPT ![c] = "ack"]
  /\ UNCHANGED <<busVars, loginVars, wcur, wstop, expired>>

PushSkip(c) ==
  /\ wpc[c] = "send"
  /\ ~Recording[WHead(c)].ok
  /\ wcur' = [wcur EXCEPT ![c] = WHead(c) + 1]
  /\ wpc' = [wpc EXCEPT ![c] = "top"]
  /\ UNCHANGED <<busVars, loginVars, wsent, wstop, expired>>

(* sendall fails. *)
PushFail(c) ==
  /\ wpc[c] = "send"
  /\ Recording[WHead(c)].ok
  /\ wpc' = [wpc EXCEPT ![c] = "closed"]
  /\ UNCHANGED <<busVars, loginVars, wcur, wsent, wstop, expired>>

(* Mutant: the cursor stays. *)
PushAckNoAdvance(c) ==
  /\ wpc[c] = "ack"
  /\ BroadcastAck(WHead(c))
  /\ wpc' = [wpc EXCEPT ![c] = "top"]
  /\ UNCHANGED <<busRest, pendingPorts, loginVars, wcur, wsent, wstop, expired>>

(* Mutant: the cursor skips an entry. *)
PushAckTwice(c) ==
  /\ wpc[c] = "ack"
  /\ BroadcastAck(WHead(c))
  /\ wcur' = [wcur EXCEPT ![c] = WHead(c) + 2]
  /\ wpc' = [wpc EXCEPT ![c] = "top"]
  /\ UNCHANGED <<busRest, pendingPorts, loginVars, wsent, wstop, expired>>

PushAck(c) ==
  /\ wpc[c] = "ack"
  /\ BroadcastAck(WHead(c))
  /\ wcur' = [wcur EXCEPT ![c] = WHead(c) + 1]
  /\ wpc' = [wpc EXCEPT ![c] = "top"]
  /\ UNCHANGED <<busRest, pendingPorts, loginVars, wsent, wstop, expired>>

(* Mutant: recording_done without looking at the other ports. *)
PushFinishEager(c) ==
  /\ wpc[c] = "top"
  /\ WHead(c) \notin Seqs
  /\ pendingPorts' = pendingPorts \ {PortOf[c]}
  /\ wpc' = [wpc EXCEPT ![c] = "announce"]
  /\ UNCHANGED <<busRest, toReplayer, announced, loginVars, wcur, wsent, wstop, expired>>

(* After the last frame, if any was sent: mark_s2c_port_done, and          *)
(* recording_done is due when no registered port is left.                  *)
PushFinish(c) ==
  /\ wpc[c] = "top"
  /\ WHead(c) \notin Seqs
  /\ IF wsent[c] = <<>>
     THEN /\ wpc' = [wpc EXCEPT ![c] = "done"]
          /\ UNCHANGED pendingPorts
     ELSE /\ pendingPorts' = pendingPorts \ {PortOf[c]}
          /\ wpc' = [wpc EXCEPT ![c] = IF pendingPorts' = {} THEN "announce"
                                                            ELSE "done"]
  /\ UNCHANGED <<busRest, toReplayer, announced, loginVars, wcur, wsent,
                 wstop, expired>>

PushAnnounce(c) ==
  /\ wpc[c] = "announce"
  /\ Broadcast(RecordingDone)
  /\ wpc' = [wpc EXCEPT ![c] = "done"]
  /\ UNCHANGED <<busRest, announced, pendingPorts, loginVars, wcur, wsent,
                 wstop, expired>>

-----------------------------------------------------------------------------
LoginThread(c) == FlushSend(c) \/ FlushAck(c) \/ FlushSkip(c) \/ FlushFail(c)

PushThread(c) ==
  \/ PushTop(c) \/ PushGate(c) \/ PushGateTimeout(c) \/ PushSend(c)
  \/ PushSkip(c) \/ PushFail(c) \/ PushAck(c) \/ PushFinish(c)
  \/ PushAnnounce(c)

GameClient ==
  \/ \E c \in LoginConns : \/ LoginConnect(c) \/ LoginClose(c)
                           \/ \E op \in Opcodes : LoginMatch(c, op) \/ LoginDesync(c, op)
  \/ \E c \in WorldConns : WorldConnect(c) \/ WorldClientCloses(c)

EmuNext ==
  \/ GameClient
  \/ \E c \in LoginConns : LoginThread(c)
  \/ \E c \in WorldConns : PushThread(c)
=============================================================================
