-------------------------- MODULE MCReplaySession --------------------------
(* Small recordings for TLC. *)
EXTENDS ReplaySession

Net(port, dir, op) ==
  [kind |-> "net", port |-> port, dir |-> dir, op |-> op, ok |-> TRUE, spawn |-> "none"]
Line(kind) ==
  [kind |-> kind, port |-> "1818", dir |-> "C2S", op |-> "list", ok |-> TRUE, spawn |-> "none"]

World(port)        == Net(port, "S2C", "list")
Spawn(port, which) == [World(port) EXCEPT !.spawn = which]
Bad(ev)            == [ev EXCEPT !.ok = FALSE]

(* A login over two ports: a click, credentials with a keepalive after     *)
(* them, an answer, the second port, an input; then an undecodable answer, *)
(* which no run gets past, and a last request.                             *)
LoginRecording ==
  <<Line("gate_opened"), Line("button"), Net("1818", "C2S", "login"),
    Net("1818", "C2S", "keepalive"), Net("1818", "S2C", "list"),
    Net("1819", "C2S", "login"), Line("input"),
    Bad(Net("1819", "S2C", "list")), Net("1818", "C2S", "login")>>

(* One request between two inputs, for successive runs.                    *)
ShortRecording ==
  <<Line("input"), Net("1818", "C2S", "login"), Line("input")>>

(* The world: two ports with frames to push, two spawns, the second frame *)
(* of a port at the very end.                                              *)
WorldRecording ==
  <<Spawn("18123", "recorded"), World("18124"), Line("button"), Line("input"),
    Spawn("18123", "other")>>

(* A login followed by the world, with an undecodable frame. *)
MixedRecording ==
  <<Line("input"), Net("1818", "C2S", "login"), World("18123"),
    Bad(World("18123")), Line("input")>>

(* World frames only, enough to outrun a second run. *)
LeadRecording ==
  <<Line("input"), World("18123"), Line("input"), World("18123"), Line("input")>>

TwoLogins  == [c \in {"a", "b"} |-> IF c = "a" THEN "1818" ELSE "1819"]
SameLogin  == [c \in {"a", "b"} |-> "1818"]
TwoWorlds  == [c \in {"v", "w"} |-> IF c = "v" THEN "18123" ELSE "18124"]
Mixed      == [c \in {"a", "w"} |-> IF c = "a" THEN "1818" ELSE "18123"]
OneWorld   == [c \in {"w"} |-> "18123"]
=============================================================================
