---------------------------- MODULE FlowAssembly ----------------------------
(***************************************************************************)
(* The sniffer of the recorder (host_recording_stream_v2.py, NetSniffer):  *)
(* it takes captured packets in the order of the capture, joins the        *)
(* payloads of each flow, cuts the frames out of what it has joined (the   *)
(* world port is enciphered, the others are not) and writes a line each.   *)
(* A flow is one direction of one connection. The writer and the gate's    *)
(* effect on the listeners are in Recorder.                                *)
(***************************************************************************)
EXTENDS FrameCipher, SessionContent

CONSTANTS
  Flows,          \* the flows the packets belong to
  FlowPort,       \* the game port of each flow
  FlowDir,        \* "C2S" or "S2C"
  MaxCipherBuf    \* MAX_CIPHER_BUF, scaled to the frames of the instance

ASSUME FlowAssumption ==
  /\ FlowPort \in [Flows -> {"1818", "1819", "18123", "18124"}]
  /\ FlowDir \in [Flows -> {"C2S", "S2C"}]
  /\ MaxCipherBuf \in Nat

VARIABLES
  seg,            \* per flow, the bytes joined and not yet consumed
  warned,         \* per flow, whether an overflow was reported
  net,            \* per flow, the payloads of the net lines written
  lost,           \* per flow, the overflow lines written
  endpoints,      \* the server ports a server_endpoint line was written for
  gateOpen,       \* gate_evt
  spawn           \* last_map_load and last_self_spawn

flowVars == <<seg, warned, net, lost, endpoints, gateOpen, spawn>>

LineTypes == [Flows -> Seq(Seq(Byte))]

FlowTypeOK ==
  /\ seg \in [Flows -> Seq(Byte)] /\ net \in LineTypes
  /\ warned \in [Flows -> BOOLEAN] /\ lost \in [Flows -> Nat]
  /\ endpoints \subseteq {"1818", "1819", "18123", "18124"}
  /\ gateOpen \in BOOLEAN
  /\ DOMAIN spawn = {"map_load", "self_spawn"}

FlowInit ==
  /\ seg = [f \in Flows |-> <<>>] /\ net = [f \in Flows |-> <<>>]
  /\ warned = [f \in Flows |-> FALSE] /\ lost = [f \in Flows |-> 0]
  /\ endpoints = {} /\ gateOpen = FALSE
  /\ spawn = [k \in {"map_load", "self_spawn"} |-> NoSpawn]

-----------------------------------------------------------------------------
(* The frames that lie whole at the front of s. Size gives the bytes a     *)
(* frame takes, or 0 when the head says nothing usable; Plain the payload  *)
(* of its line. The loop stops at the first frame that is not there yet.   *)
Cut(s, headLen, Size(_), Plain(_)) ==
  LET size(i) == IF Len(s) - i < headLen THEN 0
                 ELSE Size(SubSeq(s, i + 1, i + headLen))
      from[i \in 0..Len(s)] ==
        LET n    == size(i)
            rest == from[i + n]
        IN  IF n = 0 \/ i + n > Len(s) THEN [at |-> i, plain |-> <<>>]
            ELSE [at |-> rest.at,
                  plain |-> <<Plain(SubSeq(s, i + 1, i + n))>> \o rest.plain]
  IN  from[0]

CipherSize(head) ==
  LET n == ExtractLength(head) IN IF n < 6 THEN 0 ELSE n + 2
PlainSize(head) ==
  IF Len16(head) < 1 THEN 0 ELSE Len16(head) + 2

CutCipher(s) == Cut(s, 4, CipherSize, LAMBDA f : SnifferDecrypt(f, Len(f) - 2))
CutPlain(s)  == Cut(s, 3, PlainSize, LAMBDA f : f)

(* Mutant: the padding is taken for payload. *)
TcpPayloadPadded(pkt) == pkt.data

(* parse_eth_ip_tcp: a captured packet is its IP payload and the padding   *)
(* of a short Ethernet frame; the total length of the IP header cuts it.   *)
TcpPayload(pkt) == SubSeq(pkt.data, 1, Min({pkt.length, Len(pkt.data)}))

(* _maybe_open_gate: the server list on the first login port. *)
OpensGate(f, plains) ==
  /\ FlowDir[f] = "S2C" /\ FlowPort[f] = "1818"
  /\ \E i \in 1..Len(plains) : At(plains[i], 2) = 209

(* The most recent spawn frame of each kind, for the manifest. *)
Remembered(plains) ==
  FoldLeft(LAMBDA acc, p : LET s == ParseSpawn(p)
                           IN  IF s.kind = "none" THEN acc ELSE [acc EXCEPT ![s.kind] = s],
           spawn, plains)

(* One packet of flow f. A backlog beyond MAX_CIPHER_BUF is reported and   *)
(* dropped the first time; later ones are kept and not reported.           *)
Observe(f, pkt) ==
  LET world == FlowPort[f] = "18123"
      all   == seg[f] \o TcpPayload(pkt)
      cut   == IF world THEN CutCipher(all) ELSE CutPlain(all)
      over  == world /\ Len(all) - cut.at > MaxCipherBuf /\ ~warned[f]
  IN  /\ seg' = [seg EXCEPT ![f] = IF over THEN <<>> ELSE SubSeq(all, cut.at + 1, Len(all))]
      /\ warned' = [warned EXCEPT ![f] = @ \/ over]
      /\ lost' = [lost EXCEPT ![f] = IF over THEN @ + 1 ELSE @]
      /\ net' = [net EXCEPT ![f] = @ \o cut.plain]
      /\ endpoints' = IF FlowDir[f] = "C2S" THEN endpoints \cup {FlowPort[f]} ELSE endpoints
      /\ gateOpen' = (gateOpen \/ OpensGate(f, cut.plain))
      /\ spawn' = IF world /\ FlowDir[f] = "S2C" THEN Remembered(cut.plain) ELSE spawn
=============================================================================
