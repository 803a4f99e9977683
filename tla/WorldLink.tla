----------------------------- MODULE WorldLink -----------------------------
(***************************************************************************)
(* A session on the wire, byte by byte: the emulator answers the login     *)
(* with rewritten frames, then keeps the world connection of               *)
(* WorldKeepAlive; the game client reads and sends enciphered frames; TCP  *)
(* carries the bytes in segments of any size, and the recorder's sniffer   *)
(* (FlowAssembly) sees each segment as a packet, or misses it, or sees it  *)
(* again. The client, TCP and the capture are external.                    *)
(***************************************************************************)
EXTENDS WorldKeepAlive, FlowAssembly, FiniteSets

CONSTANTS
  Lines,          \* the lines of the recording the emulator reads
  Mine,           \* --rewrite-host
  SwapNames,      \* the values of --swap-with-character
  ClientScript,   \* the plaintext frames the client sends
  SegmentSize,    \* bound: the maximum size of a TCP segment of each flow
  Faulty,         \* bound: the flows the capture may fail on
  MaxFaults       \* bound: packets it misses or sees twice, for each swap

ASSUME LinkAssumption ==
  /\ Flows = {"login", "s2c", "c2s"}
  /\ FlowPort["login"] = "1818" /\ \A f \in Flows \ {"login"} : FlowPort[f] = "18123"
  /\ SegmentSize \in [Flows -> Nat \ {0}]
  /\ Faulty \subseteq Flows /\ MaxFaults \in [SwapNames -> Nat]

(* The client sends whole frames: the game is not in this repository.      *)
ASSUME ScriptAssumption ==
  /\ ClientScript \in Seq(Seq(Byte))
  /\ \A k \in 1..Len(ClientScript) : Framed(ClientScript[k])

(* What the recorder writes of a frame and of a server.                    *)
Address      == [1..4 -> Byte]
NetLine      == [kind : {"net"}, port : STRING, dir : {"C2S", "S2C"}, op : Byte,
                 cipher : {"none", "world"}, payload : Seq(Byte)]
EndpointLine == [kind : {"server_endpoint"}, ip : Address]
ASSUME LinesAssumption == Lines \in Seq(NetLine \cup EndpointLine) /\ Mine \in Address

VARIABLES
  swapTo,         \* the name given with --swap-with-character
  login,          \* the frames the emulator answers the login with
  wire,           \* the bytes of those frames
  cout,           \* bytes the client has sent
  spoken,         \* how many frames of its script the client has sent
  pos,            \* per flow, the bytes transmitted
  clean,          \* per flow, whether the capture was without fault
  faults          \* faults so far

linkVars == <<swapTo, login, wire, cout, spoken, pos, clean, faults>>
worldVars == <<queues, cursor, ppc, announced, rpc, move, stop, in, out, sent, open>>
vars == <<worldVars, flowVars, linkVars>>

-----------------------------------------------------------------------------
PLAINTEXT_PORTS == {"1818", "1819", "18124"}
KEEPALIVE_OP    == 5

(* load_net_events_by_port: the net lines of each port, but for the        *)
(* keep-alives a client sends on its own timer.                            *)
Queues ==
  [p \in {"1818", "1819", "18123", "18124"} |->
     Those(Lines, {i \in 1..Len(Lines) :
       /\ Lines[i].kind = "net" /\ Lines[i].port = p
       /\ ~(/\ Lines[i].cipher = "none" /\ p \in PLAINTEXT_PORTS
            /\ Lines[i].op = KEEPALIVE_OP)})]

Ips == ProdIps(Lines, queues, <<"1818", "1819", "18123", "18124">>, Mine)

(* The login frames as _flush_s2c sends them, and what they are made from. *)
LoginPayloads ==
  LET s2c == FromServerIn(queues["1818"])
  IN  [i \in 1..Len(s2c) |-> s2c[i].payload]
LoginFrames ==
  [i \in 1..Len(LoginPayloads) |-> Rewrite(LoginPayloads[i], Ips, Mine)]

Stream(f) == CASE f = "login" -> wire
               [] f = "s2c"   -> out
               [] f = "c2s"   -> cout

LoggedIn == pos["login"] = Len(wire)

(* A short Ethernet frame is padded to six bytes of payload. *)
Captured(bytes) ==
  [length |-> Len(bytes),
   data   |-> bytes \o [i \in 1..(IF Len(bytes) < 6 THEN 6 - Len(bytes) ELSE 0) |-> 0]]

(* The next segment of a flow: as much as there is and fits. *)
Segment(f)  == SubSeq(Stream(f), pos[f] + 1, Min({pos[f] + SegmentSize[f], Len(Stream(f))}))
Sendable(f) == pos[f] < Len(Stream(f)) /\ (f = "s2c" => open)

Arrives(f) ==
  /\ pos' = [pos EXCEPT ![f] = @ + Len(Segment(f))]
  /\ in' = IF f = "c2s" THEN in \o Segment(f) ELSE in

TcpUnchanged == UNCHANGED <<queues, pushVars, rpc, move, stop, socketVars, open,
                            swapTo, login, wire, cout, spoken>>

Transmit(f) ==
  /\ Sendable(f)
  /\ Arrives(f)
  /\ Observe(f, Captured(Segment(f)))
  /\ UNCHANGED <<clean, faults>>
  /\ TcpUnchanged

(* The capture drops the packet. *)
Missed(f) ==
  /\ faults < MaxFaults[swapTo] /\ f \in Faulty /\ Sendable(f)
  /\ Arrives(f)
  /\ clean' = [clean EXCEPT ![f] = FALSE]
  /\ faults' = faults + 1
  /\ UNCHANGED flowVars
  /\ TcpUnchanged

(* TCP sends a segment again. *)
Retransmit(f) ==
  /\ faults < MaxFaults[swapTo] /\ f \in Faulty /\ pos[f] > 0
  /\ Observe(f, Captured(SubSeq(Stream(f), Max({pos[f] - SegmentSize[f], 0}) + 1, pos[f])))
  /\ clean' = [clean EXCEPT ![f] = FALSE]
  /\ faults' = faults + 1
  /\ UNCHANGED <<pos, in>>
  /\ TcpUnchanged

ClientSends ==
  /\ rpc # "listen" /\ open
  /\ spoken < Len(ClientScript)
  /\ cout' = cout \o Pack(ClientScript[spoken + 1])
  /\ spoken' = spoken + 1
  /\ UNCHANGED <<worldVars, flowVars, swapTo, login, wire, pos, clean, faults>>

ClientCloses ==
  /\ rpc # "listen" /\ open
  /\ open' = FALSE
  /\ UNCHANGED <<queues, pushVars, readVars, socketVars, flowVars, linkVars>>

-----------------------------------------------------------------------------
Init ==
  /\ swapTo \in SwapNames
  /\ queues = SwapSelf(Queues, swapTo)
  /\ login = LoginFrames /\ wire = FlattenSeq(login)
  /\ KeepAliveInit
  /\ FlowInit
  /\ cout = <<>> /\ spoken = 0 /\ faults = 0
  /\ pos = [f \in Flows |-> 0] /\ clean = [f \in Flows |-> TRUE]

Pusher  == Push \/ PushFails \/ PushStopped \/ PushDone
Handler == \/ ReadMove \/ ReadOther \/ SendEcho \/ EchoFails
           \/ ReadCloses(~open /\ pos["c2s"] = Len(cout))

Emulating == /\ \/ LoggedIn /\ Connect
                \/ Pusher
                \/ Handler
             /\ UNCHANGED <<flowVars, linkVars>>

Next ==
  \/ Emulating
  \/ ClientSends
  \/ ClientCloses
  \/ \E f \in Flows :
       \/ Transmit(f)
       \/ Missed(f)
       \/ Retransmit(f)

Spec == Init /\ [][Next]_vars

-----------------------------------------------------------------------------
TypeOK ==
  /\ KeepAliveTypeOK /\ FlowTypeOK
  /\ swapTo \in SwapNames /\ cout \in Seq(Byte)
  /\ spoken \in 0..Len(ClientScript) /\ faults \in 0..MaxFaults[swapTo]
  /\ pos \in [Flows -> Nat] /\ clean \in [Flows -> BOOLEAN]

(* The plaintext frames of a flow, as its sender meant them. *)
Meant(f) == CASE f = "login" -> login
              [] f = "s2c"   -> [i \in 1..Len(sent) |-> sent[i].plain]
              [] f = "c2s"   -> SubSeq(ClientScript, 1, spoken)

(* A frame but for the checksum, which the cipher fills in. *)
SameButChecksum(p, q) ==
  /\ Len(p) = Len(q)
  /\ SubSeq(p, 1, 3) = SubSeq(q, 1, 3)
  /\ SubSeq(p, 8, Len(p)) = SubSeq(q, 8, Len(q))

(* How many of the frames lie whole in the first n bytes. *)
WholeBy(plains, n) ==
  LET from[k \in 0..Len(plains)] ==
        IF k = 0 THEN 0 ELSE from[k - 1] + Len(plains[k])
  IN  Cardinality({k \in 1..Len(plains) : from[k] <= n})

(* However TCP cuts a flow into segments, and whatever is captured of the  *)
(* other flows, the recorder has written the frames that have passed       *)
(* whole, each once, in order and as their sender meant them.              *)
FramesRecorded ==
  \A f \in Flows : clean[f] =>
     /\ Len(net[f]) = WholeBy(Meant(f), pos[f])
     /\ \A i \in 1..Len(net[f]) :
          IF f = "login" THEN net[f][i] = login[i]
                         ELSE SameButChecksum(net[f][i], Meant(f)[i])

(* A frame the emulator puts on the wire is decoded by its reader to what  *)
(* was meant, checksum included, and takes the bytes its length code says. *)
WireDecodes ==
  [][out' # out =>
       LET code == SubSeq(out', Len(out) + 1, Len(out'))
           read == Decrypt(LenBytes(LengthDecode(code)) \o SubSeq(code, 3, Len(code)))
       IN  /\ LengthDecode(code) + 2 = Len(code)
           /\ read.ok /\ SameButChecksum(read.plain, Last(sent').plain)]_vars

(* The emulator leaves the connection only after the client has: no frame  *)
(* of the client is ever taken for the end of the stream.                  *)
StaysInWorld == rpc = "gone" => ~open

(* The moves with a position among the first n frames of the client, and   *)
(* the echoes among the first n frames of the emulator.                    *)
MovesBy(n)  == {k \in 1..n : IsMove(ClientScript[k]) /\ Len(ClientScript[k]) = 13}
EchoesBy(n) == {i \in 1..n : sent[i].what = "echo"}

Answers(i, k) ==
  /\ Cardinality(EchoesBy(i)) = Cardinality(MovesBy(k))
  /\ <<U16(sent[i].plain, 7), U16(sent[i].plain, 9)>> = PosOf(ClientScript[k])

(* Echoes answer the client's moves, one each, in order, with the position *)
(* of the move; nothing else is answered.                                  *)
EchoOfMove ==
  \A i \in EchoesBy(Len(sent)) : \E k \in MovesBy(spoken) : Answers(i, k)

(* When the handler waits and nothing of the client's is on the way, every *)
(* move the client has made is answered, if the recording names an actor.  *)
MovesAnswered ==
  KeepAlive /\ HasActor /\ rpc = "read" /\ pos["c2s"] = Len(cout) /\ Reads = {}
    => Cardinality(EchoesBy(Len(sent))) = Cardinality(MovesBy(spoken))

(* The frames to be pushed are framed, as the recorder wrote them: the     *)
(* swap replaces bytes all over a payload, its header included.            *)
WorldFramed == \A i \in FromServer : Framed(Recorded(i).payload)

(* The frames the recorder can take in: a login frame holds an opcode at   *)
(* least, and no frame of the world fills more than its buffer.            *)
LoginFramed ==
  /\ login \in Seq(Seq(Byte))
  /\ \A k \in 1..Len(login) : Len(login[k]) = Len16(login[k]) + 2 /\ Len(login[k]) >= 3
FramesFit ==
  /\ \A i \in FromServer : Len(Recorded(i).payload) <= MaxCipherBuf + 1
  /\ \A k \in 1..Len(ClientScript) : Len(ClientScript[k]) <= MaxCipherBuf + 1
  /\ 11 <= MaxCipherBuf + 1    \* an echo

(* The rewriting and the swap leave frames of a shape the recorder takes.  *)
Recordable == LoginFramed /\ WorldFramed /\ FramesFit

(* Where a stands in s, and whether no end of a is the beginning of b,     *)
(* whichever of the two comes first: no byte can be part of both.          *)
StandsAt(a, s, k) == k \in Places(s, Len(a)) /\ Slice(s, k - 1, Len(a)) = a
Stands(a, s)      == \E k \in Places(s, Len(a)) : StandsAt(a, s, k)
Apart(a, b) ==
  \A n \in 1..4 : /\ SubSeq(a, 5 - n, 4) # SubSeq(b, 1, n)
                  /\ SubSeq(b, 5 - n, 4) # SubSeq(a, 1, n)

(* After a login the client knows no address of the recorded servers that  *)
(* is apart from its own: no replacement has made one either, with the     *)
(* bytes around it or over an earlier one. Frames keep their size, and     *)
(* bytes change only where an address stood in the recording.              *)
NoProdAddress ==
  LoggedIn /\ rpc = "listen" =>
    LET known == ToSet(Ips)
    IN  \A i \in 1..Len(login) :
          LET was == LoginPayloads[i]
          IN  /\ Len(login[i]) = Len(was)
              /\ \A ip \in known : Apart(Mine, ip) => ~Stands(ip, login[i])
              /\ (\A ip \in known : Apart(Mine, ip)) =>
                   \A k \in 1..Len(was) : login[i][k] # was[k] =>
                     \E ip \in known : \E j \in (k - 3)..k : StandsAt(ip, was, j)

(* The places of either id in s, and whether no low byte of the two ids is *)
(* a high byte, so that no two of these places have a byte in common.      *)
IdPlaces(s, ids)  == {k \in Places(s, 2) : SubSeq(s, k, k + 1) \in ids}
Unmistakable(ids) == \A a, b \in ids : a[1] # b[2]

(* One frame of the world under the swap of two ids: it keeps its size,    *)
(* bytes change only where an id stands, and each id stands where the      *)
(* other one stood.                                                        *)
SwappedFrame(was, now, ids) ==
  /\ Len(now) = Len(was)
  /\ \A k \in 1..Len(was) : now[k] # was[k] => {k - 1, k} \cap IdPlaces(was, ids) # {}
  /\ Unmistakable(ids) =>
       /\ IdPlaces(now, ids) = IdPlaces(was, ids)
       /\ \A k \in IdPlaces(was, ids) :
            {SubSeq(was, k, k + 1), SubSeq(now, k, k + 1)} = ids

(* After a swap the client is shown one character with the id, name and    *)
(* slot of the other: each id stands where the other one stood, a frame    *)
(* keeps its size and the bytes where no id stands, and so its framing     *)
(* unless an id stands in its head. (me, she and ids are bound to the one  *)
(* value they have, so that TLC computes it once.)                         *)
SwapConsistent ==
  LoggedIn /\ rpc = "listen" /\ CanSwap(Queues["18123"], swapTo) =>
    \A old \in {Queues["18123"]}, new \in {queues["18123"]},
       slots \in {FromServerIn(Queues["1818"])} :
    \A own \in {Min(Spawns(old))}, at \in {Min(Targets(old, swapTo))} :
    \A me \in {ParseSpawn(old[own].payload)}, she \in {ParseSpawn(old[at].payload)} :
    \A ids \in {{IdBytes(me.actor), IdBytes(she.actor)}} :
      /\ ParseSpawn(new[own].payload) = she
      /\ IdPlaces(old[at].payload, ids) = {11} =>
           ParseSpawn(new[at].payload) = [she EXCEPT !.actor = me.actor]
      /\ \A i \in FromServer \ {own} : SwappedFrame(old[i].payload, new[i].payload, ids)
      /\ (\A i \in FromServer :
            /\ Framed(old[i].payload)
            /\ IdPlaces(old[i].payload, ids) \cap 1..2 = {}) => WorldFramed
      /\ \A i \in 1..Len(slots) :
           At(slots[i].payload, 2) = 212 /\ Stands(Padded(me.name), slots[i].payload) =>
             \/ Stands(Padded(she.name), login[i])
             \/ \E ip \in ToSet(Ips) : Stands(ip, LoginPayloads[i])

(* Every echo, as the client decodes it, names the actor of the spawn      *)
(* frame the client was shown.                                             *)
EchoNamesActor ==
  \A i \in EchoesBy(Len(sent)) :
    U16(Decrypt(Encrypt(sent[i].plain)).plain, 5)
      = ParseSpawn(Recorded(Min(SpawnFrames)).payload).actor
=============================================================================
