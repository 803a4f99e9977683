---------------------------- MODULE MCWorldLink ----------------------------
(* A small session for TLC. *)
EXTENDS WorldLink

U(n)          == LenBytes(n)
Zeros(n)      == [i \in 1..n |-> 0]
Frame(op, b)  == U(Len(b) + 5) \o <<op>> \o <<0, 0, 0, 0>> \o b
Plain(op, b)  == U(Len(b) + 1) \o <<op>> \o b
(* What the recorder has of a frame of production. *)
AsRecorded(p)   == SnifferDecrypt(Pack(p), Len16(p))
Net(port, dir, cipher, p) ==
  [kind |-> "net", port |-> port, dir |-> dir, op |-> p[3], cipher |-> cipher, payload |-> p]

(* A self-spawn with a name of two letters, and a frame about an actor. *)
SpawnOf(id, name) ==
  Frame(177, <<1, 1, 0>> \o U(id) \o Zeros(20) \o U(200) \o U(100) \o Zeros(20)
              \o U(Len(name)) \o name)
About(id)     == Frame(179, <<2, 1>> \o U(id) \o U(7) \o U(9))

Own    == 300
Other  == 777
Ann    == <<65, 110>>
Bea    == <<66, 101>>

Prod1  == <<10, 2, 3, 4>>
Prod2  == <<20, 2, 3, 4>>
OurIp  == <<192, 168, 1, 7>>

(* A login with a keep-alive, then the world. *)
SmallLines ==
  <<[kind |-> "server_endpoint", ip |-> Prod1],
    Net("1818", "C2S", "none", Plain(1, <<9>>)),
    Net("1818", "S2C", "none", Plain(209, Prod1 \o <<27, 7>> \o Prod2 \o <<27, 7>>)),
    Net("1818", "C2S", "none", Plain(5, <<>>)),
    [kind |-> "server_endpoint", ip |-> Prod1],
    Net("1818", "S2C", "none", Plain(212, Padded(Ann))),
    Net("18123", "S2C", "world", AsRecorded(SpawnOf(Own, Ann))),
    Net("18123", "S2C", "world", AsRecorded(SpawnOf(Other, Bea))),
    Net("18123", "S2C", "world", AsRecorded(About(Own)))>>

Move(x, y)  == Frame(188, <<4, 22>> \o U(x) \o U(y))
Heartbeat   == Frame(5, <<1>>)
SmallScript == <<Move(456, 300), Heartbeat, Move(2, 7)>>

NoSwap    == {<<>>}
SomeSwaps == {<<>>, <<98>>, <<122>>}
NoFault   == [name \in SwapNames |-> 0]
FaultUnswapped == [name \in SwapNames |-> IF name = <<>> THEN 1 ELSE 0]
SmallSegments == [f \in {"login", "s2c", "c2s"} |->
                    CASE f = "login" -> 16 [] f = "s2c" -> 64 [] f = "c2s" -> 26]
ThreeFlows == [f \in {"login", "s2c", "c2s"} |-> IF f = "login" THEN "1818" ELSE "18123"]
FlowDirs   == [f \in {"login", "s2c", "c2s"} |-> IF f = "c2s" THEN "C2S" ELSE "S2C"]
=============================================================================
