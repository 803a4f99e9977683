--------------------------- MODULE ReplaySession ---------------------------
(***************************************************************************)
(* A replay session: the emulator with its control bus, the game client in *)
(* front of it, and the runs of the input replayer (the auto-replay goal   *)
(* of replay/Makefile).                                                    *)
(***************************************************************************)
EXTENDS Emulator, InputReplayer, Functions

vars == <<busVars, emuVars, replayerVars>>

TypeOK == BusTypeOK /\ EmuTypeOK /\ ReplayerTypeOK

Init == BusInit /\ EmuInit /\ ReplayerInit

Next ==
  \/ BusNext /\ UNCHANGED <<emuVars, replayerVars>>
  \/ EmuNext /\ UNCHANGED replayerVars
  \/ ReplayerNext /\ UNCHANGED emuVars

Spec == Init /\ [][Next]_vars

(* Every thread of the two programs that can take a step is scheduled in   *)
(* the end, timed waits run out, and what TCP carries arrives while the    *)
(* link holds.  Nothing is assumed of the game client, of the network's    *)
(* breaking links, of the operator, or of when a run is started.           *)
Fairness ==
  /\ \A r \in Replayers :
       /\ WF_vars(ReplayLoop(r) /\ UNCHANGED emuVars)
       /\ WF_vars(Listener(r) /\ UNCHANGED emuVars)
       /\ WF_vars((Accept(r) \/ ReadProgress(r) \/ ReadInputDone(r))
                    /\ UNCHANGED <<emuVars, replayerVars>>)
  /\ \A c \in LoginConns : WF_vars(LoginThread(c) /\ UNCHANGED replayerVars)
  /\ \A c \in WorldConns : WF_vars(PushThread(c) /\ UNCHANGED replayerVars)

FairSpec == Spec /\ Fairness

-----------------------------------------------------------------------------
(* Safety. *)

(* Lockstep: an input is dispatched only after some connection of the      *)
(* emulator has sent or matched every login frame recorded between the     *)
(* start and it, and announced it during this very run.  The chain is:     *)
(* socket, broadcast, link, _on_ack, the replayer's wait.  (A frame sent   *)
(* just before the run began and broadcast after it counts.)               *)

Played == UNION ({Range(lsent[c]) : c \in LoginConns}
                   \cup {Range(wsent[c]) : c \in WorldConns})

InLockstep ==
  CtrlSync => \A r \in Replayers : \A i \in fired[r] : \A s \in Seqs :
                MustAck(s) /\ StartIndex <= s /\ s < i
                  => s \in Played /\ s \in announced[r]

(* No recorded input is skipped or repeated before a later one: what a run *)
(* has dispatched is exactly what lies behind its place in the timeline.   *)
NoInputSkipped ==
  \A r \in Replayers : fired[r] = {i \in InputSeqs : StartIndex <= i /\ i < pos[r]}

(* Once the stop flag is set (desync, recording_done, spawn mismatch or    *)
(* SIGINT, mostly by the listener thread while the loop sleeps) at most    *)
(* one more input reaches the game.                                        *)
AtMostOneLate ==
  \A r \in Replayers : \A i, j \in late[r] : i = j

(* The world pusher is about to send a frame more than Lookahead events    *)
(* ahead of every run only if a run was done, the gate timed out or the    *)
(* emulator is stopping.  The gate looks at progress that travelled over   *)
(* the link; this is about where the runs really are.                      *)
LeadBound ==
  \A c \in WorldConns : wpc[c] = "send" =>
    \/ \E r \in Replayers : rpc[r] # "off" /\ WHead(c) <= pos[r] + Lookahead
    \/ WHead(c) <= Lookahead
    \/ inputDone \/ expired[c] \/ stopEvt

(* A login connection whose sends all succeeded has sent or matched every  *)
(* sendable entry up to its cursor: nothing in its queue was passed over.  *)
NoSilentSkip ==
  \A c \in LoginConns : ~lfailed[c] =>
    \A s \in Before(Queued[PortOf[c]], lcur[c]) :
      s \in Range(lsent[c]) \/ (s \in S2C[PortOf[c]] /\ ~Recording[s].ok)

(* A run that recording_done stopped was stopped after the emulator had,   *)
(* for every world port with frames to push, pushed all of them over one   *)
(* connection.                                                             *)
FullyPushed(p) ==
  \E c \in WorldConns : PortOf[c] = p /\ Sendable(S2C[p]) \subseteq Range(wsent[c])

HandoffAfterPush ==
  \A r \in Replayers : "recording_done" \in stopBy[r] =>
    \A p \in RegisteredPorts : FullyPushed(p)

(* Every connection sends and matches frames in recorded order, none       *)
(* twice, whatever fails on the way.                                       *)
Increasing(seq) == \A j, k \in DOMAIN seq : j < k => seq[j] < seq[k]

SendsInOrder ==
  /\ \A c \in LoginConns : Increasing(lsent[c])
  /\ \A c \in WorldConns : Increasing(wsent[c])

-----------------------------------------------------------------------------
(* Liveness. *)

(* Every run that was started ends: at the end of the timeline, stopped,   *)
(* or with a HALT, whatever the client and the emulator do.                *)
ReplayEnds == \A r \in Replayers : Running(r) ~> (rpc[r] = "ended")

(* Every world connection's push thread ends, even when the replayer dies  *)
(* or never comes: the gate timeout is there to "prevent deadlock".        *)
PushEnds ==
  \A c \in WorldConns : (wpc[c] # "idle") ~> (wpc[c] \in {"done", "closed"})

-----------------------------------------------------------------------------
(* The session implements the abstract lockstep replay. *)

L == INSTANCE Lockstep WITH
       Inputs    <- InputSeqs,
       Required  <- {s \in Seqs : CtrlSync /\ MustAck(s)},
       Begin     <- StartIndex,
       played    <- Played,
       confirmed <- acked

ImplementsLockstep == L!Spec

-----------------------------------------------------------------------------
(* What the code says of itself. *)

(* The help of --world-lookahead-seq: "how many recorded events the world  *)
(* S2C pusher may lead the input replayer by.  S2C with seq=N waits until  *)
(* input_progress reaches N-lookahead": a frame that passes the gate, with *)
(* no timeout and no timeline finished, is not further ahead of the run    *)
(* under way.                                                              *)
LookaheadHolds ==
  [][\A c \in WorldConns : \A r \in Replayers :
       /\ wpc[c] = "gate" /\ wpc'[c] = "send" /\ ~expired'[c]
       /\ ~inputDone /\ ~stopEvt /\ Running(r)
       => WHead(c) <= pos[r] + Lookahead]_vars
=============================================================================
