--------------------------- MODULE WorldKeepAlive ---------------------------
(***************************************************************************)
(* One world connection of the headless emulator (handle_world_conn of     *)
(* headless-replay/server/v2_server.py): a thread pushes the recorded      *)
(* frames while the handler reads the live client's frames and answers a   *)
(* move with an echo, so that the client stays in the world after the      *)
(* recording has run out. Both write to the one socket. The gate before a  *)
(* push and the control bus are in Emulator: either way the frame is sent. *)
(***************************************************************************)
EXTENDS FrameCipher, SessionContent

CONSTANT KeepAlive      \* keep_world_alive
ASSUME KeepAliveAssumption == KeepAlive \in BOOLEAN

VARIABLES
  queues,         \* the emulator's queues, after the swap
  cursor,         \* the pusher's place in the queue of the world port
  ppc,            \* where the push thread is
  rpc,            \* where the handler is
  move,           \* the position an echo is due for
  stop,           \* the connection's stop event
  announced,      \* whether recording_done was broadcast
  in,             \* bytes that have arrived and are not read
  out,            \* bytes handed to the socket
  sent,           \* the plaintext frames handed to the socket, in order
  open            \* whether the client has the connection open

pushVars   == <<cursor, ppc, announced>>
readVars   == <<rpc, move, stop, in>>
socketVars == <<out, sent>>

KeepAliveTypeOK ==
  /\ cursor \in Nat \ {0} /\ announced \in BOOLEAN /\ stop \in BOOLEAN /\ open \in BOOLEAN
  /\ ppc \in {"none", "push", "done", "stopped", "failed"}
  /\ rpc \in {"listen", "read", "echo", "gone"}
  /\ move \in Nat \X Nat
  /\ in \in Seq(Byte) /\ out \in Seq(Byte)

KeepAliveInit ==
  /\ cursor = 1 /\ ppc = "none" /\ announced = FALSE
  /\ rpc = "listen" /\ move = <<0, 0>> /\ stop = FALSE
  /\ in = <<>> /\ out = <<>> /\ sent = <<>> /\ open = TRUE

-----------------------------------------------------------------------------
(* _pack_world_frame *)
Scrambled(e) == LenBytes(LengthEncode(Len16(e), e[3], e[4])) \o SubSeq(e, 3, Len(e))
Pack(p)      == IF Len(p) < 4 THEN p ELSE Scrambled(Encrypt(p))

(* _is_exit_world_frame looks for the sub-opcode at offset 3. *)
IsExit(p) == Len(p) >= 4 /\ <<At(p, 2), At(p, 3)>> \in {<<176, 19>>, <<3, 0>>}

Recorded(i) == queues["18123"][i]
FromServer  == {i \in 1..Len(queues["18123"]) : Recorded(i).dir = "S2C"}

(* s2c_recs, by their places in the queue, and those not yet pushed. *)
Kept == {i \in FromServer : ~(KeepAlive /\ IsExit(Recorded(i).payload))}
Due  == {i \in Kept : i >= cursor}

(* _extract_actor_id_from_spawn: the id is read at offset 9. *)
SpawnFrames == {i \in FromServer : /\ Len(Recorded(i).payload) >= 11
                                   /\ At(Recorded(i).payload, 2) = 177
                                   /\ At(Recorded(i).payload, 8) = 1}
HasActor == SpawnFrames # {}
ActorId  == U16(Recorded(Min(SpawnFrames)).payload, 9)

(* _build_b3_position_echo: no room is left for the checksum. *)
Echo(actor, pos) ==
  <<9, 0, 179, 0, 1>> \o LenBytes(actor) \o LenBytes(pos[1]) \o LenBytes(pos[2])

(* _parse_bc_move: a body of exactly six bytes. *)
IsMove(p)  == Len(p) > 8 /\ At(p, 2) = 188 /\ At(p, 8) = 22

(* Mutant: the echo is due only for a longer body. *)
HasPosLonger(p) == Len(p) = 14

HasPos(p)  == Len(p) = 13
PosOf(p)   == <<U16(p, 9), U16(p, 11)>>

(* _read_world_frame: what a blocked read returns once it has the bytes.   *)
Arrived(n)  == Len(in) >= n

NextLen     == LengthDecode(in)
HasFrame    == Arrived(4) /\ NextLen >= 6 /\ Arrived(NextLen + 2)
FrameRead   == Decrypt(LenBytes(NextLen) \o SubSeq(in, 3, NextLen + 2))
Reads       == IF HasFrame THEN {FrameRead} ELSE {}
BadHead     == Arrived(4) /\ NextLen < 6

-----------------------------------------------------------------------------
(* The push thread. *)

Connect ==
  /\ rpc = "listen"
  /\ rpc' = "read" /\ ppc' = "push"
  /\ UNCHANGED <<queues, cursor, announced, move, stop, in, socketVars, open>>

Push ==
  /\ ppc = "push" /\ ~stop /\ rpc # "gone"
  /\ \E i \in Due :
       /\ \A j \in Due : i <= j
       /\ out' = out \o Pack(Recorded(i).payload)
       /\ sent' = Append(sent, [what |-> "push", plain |-> Recorded(i).payload])
       /\ cursor' = i + 1
  /\ UNCHANGED <<queues, ppc, announced, readVars, open>>

(* The client or the handler has closed the socket. *)
PushFails ==
  /\ ppc = "push" /\ Due # {}
  /\ ~open \/ rpc = "gone"
  /\ ppc' = "failed"
  /\ UNCHANGED <<queues, cursor, announced, readVars, socketVars, open>>

PushStopped ==
  /\ ppc = "push" /\ stop /\ Due # {}
  /\ ppc' = "stopped"
  /\ UNCHANGED <<queues, cursor, announced, readVars, socketVars, open>>

PushDone ==
  /\ ppc = "push" /\ Due = {}
  /\ ppc' = "done"
  /\ announced' = (Kept # {})
  /\ UNCHANGED <<queues, cursor, readVars, socketVars, open>>

-----------------------------------------------------------------------------
(* The handler. *)

Consumed == in' = SubSeq(in, NextLen + 3, Len(in))

(* Mutant: a move is taken for one although it is not decoded. *)
ReadMoveShifted ==
  /\ rpc = "read" /\ KeepAlive
  /\ \E f \in Reads :
       /\ f.ok /\ IsMove(f.plain)
       /\ Consumed
       /\ rpc' = "echo" /\ move' = <<U16(f.plain, 8), U16(f.plain, 10)>>
  /\ UNCHANGED <<queues, pushVars, stop, socketVars, open>>

ReadMove ==
  /\ rpc = "read" /\ KeepAlive
  /\ \E f \in Reads :
       /\ f.ok /\ IsMove(f.plain)
       /\ Consumed
       /\ IF HasPos(f.plain) /\ HasActor
          THEN rpc' = "echo" /\ move' = PosOf(f.plain)
          ELSE UNCHANGED <<rpc, move>>
  /\ UNCHANGED <<queues, pushVars, stop, socketVars, open>>

(* A heartbeat and every other frame. *)
ReadOther ==
  /\ rpc = "read"
  /\ \E f \in Reads : f.ok /\ ~(KeepAlive /\ IsMove(f.plain))
  /\ Consumed
  /\ UNCHANGED <<queues, pushVars, rpc, move, stop, socketVars, open>>

(* End of the stream, a length below six or a wrong checksum. *)
ReadCloses(noMore) ==
  /\ rpc = "read"
  /\ BadHead \/ (\E f \in Reads : ~f.ok) \/ (~HasFrame /\ noMore)
  /\ rpc' = "gone" /\ stop' = TRUE
  /\ UNCHANGED <<queues, pushVars, move, in, socketVars, open>>

SendEcho ==
  /\ rpc = "echo"
  /\ out' = out \o Pack(Echo(ActorId, move))
  /\ sent' = Append(sent, [what |-> "echo", plain |-> Echo(ActorId, move)])
  /\ rpc' = "read"
  /\ UNCHANGED <<queues, pushVars, move, stop, in, open>>

(* The handler returns without setting stop; the pusher meets the closed   *)
(* socket.                                                                 *)
EchoFails ==
  /\ rpc = "echo" /\ ~open
  /\ rpc' = "gone"
  /\ UNCHANGED <<queues, pushVars, move, stop, in, socketVars, open>>
=============================================================================
