----------------------------- MODULE Recording -----------------------------
(***************************************************************************)
(* One recorded session as both replay programs load it: the JSONL file    *)
(* the recorder wrote, in file order.  The recorder's writer numbers the   *)
(* lines under the lock it writes them with, so the position of a line in  *)
(* the sequence is its "seq" (line 0, session_start, belongs to no         *)
(* handler and is left out).                                               *)
(*                                                                         *)
(* The emulator (v2_server.py) splits the net events into one queue per    *)
(* port; the input replayer (input_replayer.py) walks all events from the  *)
(* start index on.  A queue is represented by the set of the seqs in it,   *)
(* and a cursor into it by the seq from which on nothing was consumed.     *)
(***************************************************************************)
EXTENDS Integers, Sequences

CONSTANTS
  Recording,        \* the events, a sequence over Event
  StartFrom,        \* --start-from: "gate_opened" or "first_input"
  LoginPorts,       \* 1818, 1819
  WorldPorts,       \* 18123, 18124
  PlaintextPorts,   \* ports whose frames are recorded with cipher "none"
  SpawnPort,        \* 18123, the only port whose spawn frames are compared
  Opcodes,
  KEEPALIVE_OP

Ports == LoginPorts \cup WorldPorts

(* What the two programs read of an event.  "input" and "button" are the   *)
(* INPUT_KINDS, a button kept apart for the window check before the first  *)
(* click; ok says whether the payload is valid hex; spawn tells how the    *)
(* frame compares with the manifest's recorded_spawn, "none" when it       *)
(* carries no spawn.  port .. spawn mean nothing unless kind is "net".     *)
Event == [kind  : {"net", "gate_opened", "input", "button", "other"},
          port  : Ports,
          dir   : {"C2S", "S2C"},
          op    : Opcodes,
          ok    : BOOLEAN,
          spawn : {"none", "recorded", "other"}]

ASSUME RecordingAssumption ==
  /\ Recording \in Seq(Event)
  /\ StartFrom \in {"gate_opened", "first_input"}
  /\ LoginPorts \cap WorldPorts = {}

N    == Len(Recording)
Seqs == 1..N

(* The smallest seq of S, N + 1 when S is empty: what a scan over the      *)
(* events that looks for a member of S ends with.                          *)
First(S) == IF S = {} THEN N + 1 ELSE CHOOSE s \in S : \A t \in S : s <= t

IsNet(s)   == Recording[s].kind = "net"
IsInput(s) == Recording[s].kind \in {"input", "button"}
InputSeqs  == {s \in Seqs : IsInput(s)}

IsKeepalive(s) ==
  /\ Recording[s].op = KEEPALIVE_OP
  /\ Recording[s].port \in PlaintextPorts

(* load_net_events_by_port: the queue of a port, without the keepalives.   *)
Queued ==
  [p \in Ports |-> {s \in Seqs : IsNet(s) /\ Recording[s].port = p /\ ~IsKeepalive(s)}]
S2C == [p \in Ports |-> {s \in Queued[p] : Recording[s].dir = "S2C"}]
C2S == [p \in Ports |-> {s \in Queued[p] : Recording[s].dir = "C2S"}]

(* The frames of S that can be sent: a payload that is not hex is skipped. *)
Sendable(S) == {s \in S : Recording[s].ok}

From(S, cursor)   == {s \in S : s >= cursor}
Before(S, cursor) == {s \in S : s < cursor}

(* find_start_index *)
StartIndex ==
  LET gates == {s \in Seqs : Recording[s].kind = "gate_opened"}
  IN  IF StartFrom = "gate_opened" /\ gates # {}
      THEN First({s \in InputSeqs : s > First(gates)})
      ELSE First(InputSeqs)

(* The net events at which the replayer's loop blocks until the emulator   *)
(* has confirmed them.                                                     *)
MustAck(s) == IsNet(s) /\ ~IsKeepalive(s) /\ Recording[s].port \notin WorldPorts
=============================================================================
