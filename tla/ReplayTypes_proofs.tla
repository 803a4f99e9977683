------------------------- MODULE ReplayTypes_proofs -------------------------
(***************************************************************************)
(* Type correctness of the replay session, for every recording, every set  *)
(* of runs and connections and every bound, and the facts about scans over *)
(* the recording and about sequences that the other proofs use.            *)
(*                                                                         *)
(* TypeOK is not inductive as it stands: the flush and push threads append *)
(* the head of their queue to what they sent, so that there is one must be *)
(* part of the invariant (HeadOK), as must be that the replayer, once past *)
(* the head of its loop, is at an event (PlaceOK).                         *)
(***************************************************************************)
EXTENDS ReplaySession, TLAPS, SequenceTheorems, WellFoundedInduction

-----------------------------------------------------------------------------
(* Scans over the recording. *)

LEMMA LengthIsNat == N \in Nat
BY RecordingAssumption DEF N

(* Every non-empty set of seqs has a smallest one, so First finds it.      *)
LEMMA FirstIsMinimum ==
  ASSUME NEW S, S \subseteq Seqs
  PROVE  /\ First(S) \in 1..(N + 1)
         /\ First(S) \in Seqs <=> S # {}
         /\ S # {} => First(S) \in S /\ \A t \in S : First(S) <= t
<1> USE LengthIsNat
<1>1. CASE S = {}
  BY <1>1 DEF First, Seqs
<1>2. CASE S # {}
  <2>1. S \subseteq Nat
    BY DEF Seqs
  <2>2. PICK x \in S : \A y \in S : ~ (<<y, x>> \in OpToRel(<, Nat))
    BY <1>2, <2>1, WFMin, NatLessThanWellFounded, Zenon
  <2>3. \A y \in S : x <= y
    <3> SUFFICES ASSUME NEW y \in S, y < x  PROVE FALSE
      BY <2>1
    <3>1. x \in Nat /\ y \in Nat
      BY <2>1
    <3>2. <<y, x>> \in OpToRel(<, Nat)
      BY <3>1 DEF OpToRel
    <3> QED
      BY <2>2, <3>2
  <2>4. First(S) = CHOOSE s \in S : \A t \in S : s <= t
    BY <1>2 DEF First
  <2>5. First(S) \in S /\ \A t \in S : First(S) <= t
    BY <2>3, <2>4
  <2>6. First(S) \in Seqs
    BY <2>5
  <2>7. First(S) \in 1..(N + 1)
    BY <2>6 DEF Seqs
  <2> QED
    BY <1>2, <2>5, <2>6, <2>7
<1> QED
  BY <1>1, <1>2

(* The entry at a cursor, and the next C2S. *)
LEMMA HeadFacts ==
  ASSUME NEW S \in SUBSET Seqs, NEW k \in 1..(N + 1)
  PROVE  /\ From(S, k) \subseteq Seqs
         /\ First(From(S, k)) \in 1..(N + 1)
         /\ First(From(S, k)) \in Seqs =>
              /\ First(From(S, k)) \in S
              /\ k <= First(From(S, k))
              /\ First(From(S, k)) + 1 \in 1..(N + 1)
              /\ \A t \in S : t < First(From(S, k)) => t < k
         /\ First(From(S, k)) \notin Seqs => \A t \in S : t < k
<1> USE LengthIsNat
<1>1. From(S, k) \subseteq Seqs
  BY DEF From
<1>2. First(From(S, k)) \in Seqs => First(From(S, k)) \in From(S, k)
  BY <1>1, FirstIsMinimum
<1>3. First(From(S, k)) \in Seqs => \A t \in From(S, k) : First(From(S, k)) <= t
  BY <1>1, FirstIsMinimum
<1>4. First(From(S, k)) \notin Seqs => From(S, k) = {}
  BY <1>1, FirstIsMinimum
<1>5. First(From(S, k)) \in 1..(N + 1)
  BY <1>1, FirstIsMinimum
<1>6. First(From(S, k)) \in Seqs =>
        /\ First(From(S, k)) \in S
        /\ k <= First(From(S, k))
        /\ First(From(S, k)) + 1 \in 1..(N + 1)
  BY <1>2 DEF From, Seqs
<1>7. First(From(S, k)) \in Seqs => \A t \in S : t < First(From(S, k)) => t < k
  BY <1>3, <1>5 DEF From, Seqs
<1>8. First(From(S, k)) \notin Seqs => \A t \in S : t < k
  BY <1>4 DEF From, Seqs
<1> QED
  BY <1>1, <1>5, <1>6, <1>7, <1>8

LEMMA QueueFacts ==
  ASSUME NEW p \in Ports
  PROVE  /\ Queued[p] \subseteq Seqs
         /\ S2C[p] \subseteq Queued[p] /\ C2S[p] \subseteq Queued[p]
         /\ S2C[p] \in SUBSET Seqs /\ C2S[p] \in SUBSET Seqs
         /\ Queued[p] \in SUBSET Seqs
BY DEF Queued, S2C, C2S

LEMMA ConnPorts ==
  /\ \A c \in LoginConns : PortOf[c] \in Ports
  /\ \A c \in WorldConns : PortOf[c] \in Ports
BY EmulatorAssumption

LEMMA StartInRange == StartIndex \in 1..(N + 1)
<1>1. InputSeqs \subseteq Seqs
  BY DEF InputSeqs
<1> DEFINE gates == {s \in Seqs : Recording[s].kind = "gate_opened"}
<1>2. {s \in InputSeqs : s > First(gates)} \subseteq Seqs
  BY <1>1
<1> QED
  BY <1>1, <1>2, FirstIsMinimum DEF StartIndex

-----------------------------------------------------------------------------
(* The inductive invariant. *)

HeadOK ==
  /\ \A c \in LoginConns :
       lpc[c] \in {"flush", "ack"} => LHead(c) \in S2C[PortOf[c]]
  /\ \A c \in WorldConns :
       wpc[c] \in {"gate", "send", "ack"} => WHead(c) \in S2C[PortOf[c]]

PlaceOK == \A r \in Replayers : rpc[r] \in {"paced", "wait"} => pos[r] \in Seqs

ITypeOK == TypeOK /\ HeadOK /\ PlaceOK

LEMMA BroadcastType ==
  ASSUME toReplayer \in [Replayers -> Seq(Msg)], NEW msg \in Msg, Broadcast(msg)
  PROVE  toReplayer' \in [Replayers -> Seq(Msg)]
<1> SUFFICES ASSUME NEW r \in Replayers
             PROVE  (IF link[r] = "up" THEN Append(toReplayer[r], msg)
                                       ELSE toReplayer[r]) \in Seq(Msg)
  BY DEF Broadcast
<1>1. toReplayer[r] \in Seq(Msg)
  OBVIOUS
<1> QED
  BY <1>1, AppendProperties

LEMMA BroadcastAckType ==
  ASSUME BusTypeOK, NEW s \in Seqs, BroadcastAck(s)
  PROVE  /\ toReplayer' \in [Replayers -> Seq(Msg)]
         /\ announced' \in [Replayers -> SUBSET Seqs]
<1>1. Ack(s) \in Msg
  BY DEF Ack, Msg
<1>2. Broadcast(Ack(s))
  BY DEF BroadcastAck
<1>3. toReplayer \in [Replayers -> Seq(Msg)]
  BY DEF BusTypeOK
<1>4. toReplayer' \in [Replayers -> Seq(Msg)]
  BY <1>1, <1>2, <1>3, BroadcastType
<1> QED
  BY <1>4 DEF BroadcastAck, BusTypeOK

LEMMA InitType == Init => ITypeOK
<1> SUFFICES ASSUME Init PROVE ITypeOK
  OBVIOUS
<1>a. \A S : <<>> \in Seq(S)
  BY EmptySeq
<1>1. RegisteredPorts \subseteq WorldPorts
  BY DEF RegisteredPorts
<1>2. BusTypeOK
  <2>1. BusInit
    BY DEF Init
  <2>2. 0 \in 0..N
    BY LengthIsNat
  <2>3. toReplayer \in [Replayers -> Seq(Msg)] /\ toBus \in [Replayers -> Seq(Seqs)]
    BY <1>a, <2>1 DEF BusInit
  <2> QED
    BY <1>1, <2>1, <2>2, <2>3 DEF BusInit, BusTypeOK
<1>3. EmuTypeOK
  BY <1>a, LengthIsNat DEF Init, EmuInit, EmuTypeOK
<1>4. ReplayerTypeOK
  BY StartInRange DEF Init, ReplayerInit, ReplayerTypeOK, Reasons
<1>5. HeadOK /\ PlaceOK
  BY DEF Init, EmuInit, ReplayerInit, HeadOK, PlaceOK
<1> QED
  BY <1>2, <1>3, <1>4, <1>5 DEF ITypeOK, TypeOK

(* A step that leaves the connections or the runs alone keeps what the     *)
(* invariant says of them.                                                 *)
LEMMA EmuUnchanged ==
  ASSUME EmuTypeOK, HeadOK, UNCHANGED emuVars
  PROVE  EmuTypeOK' /\ HeadOK'
BY DEF EmuTypeOK, HeadOK, emuVars, LHead, WHead

LEMMA ReplayerUnchanged ==
  ASSUME ReplayerTypeOK, PlaceOK, UNCHANGED replayerVars
  PROVE  ReplayerTypeOK' /\ PlaceOK'
BY DEF ReplayerTypeOK, PlaceOK, replayerVars

LEMMA BusStepType ==
  ASSUME BusTypeOK, BusNext
  PROVE  BusTypeOK'
<1> USE DEF BusTypeOK, serverVars, boundVars
<1>1. ASSUME NEW r \in Replayers, Accept(r) PROVE BusTypeOK'
  BY <1>1 DEF Accept
<1>2. ASSUME NEW r \in Replayers, ReadProgress(r) PROVE BusTypeOK'
  <2>1. toBus[r] \in Seq(Seqs) /\ toBus[r] # <<>>
    BY <1>2 DEF ReadProgress
  <2>2. Head(toBus[r]) \in Seqs /\ Tail(toBus[r]) \in Seq(Seqs)
    BY <2>1, HeadTailProperties
  <2>3. progress' \in 0..N
    BY <1>2, <2>2, LengthIsNat DEF ReadProgress, Seqs
  <2>4. toBus' \in [Replayers -> Seq(Seqs)]
    BY <1>2, <2>2 DEF ReadProgress
  <2> QED
    BY <1>2, <2>3, <2>4 DEF ReadProgress
<1>3. ASSUME NEW r \in Replayers, ReadInputDone(r) PROVE BusTypeOK'
  BY <1>3 DEF ReadInputDone
<1>4. ASSUME NEW r \in Replayers, Drop(r) PROVE BusTypeOK'
  BY <1>4, EmptySeq DEF Drop
<1>5. ASSUME Sigint PROVE BusTypeOK'
  BY <1>5 DEF Sigint
<1> QED
  BY <1>1, <1>2, <1>3, <1>4, <1>5 DEF BusNext

-----------------------------------------------------------------------------
(* The heads of the queues. *)

LEMMA LoginHead ==
  ASSUME EmuTypeOK, HeadOK, NEW c \in LoginConns, lpc[c] \in {"flush", "ack"}
  PROVE  /\ LHead(c) \in S2C[PortOf[c]]
         /\ LHead(c) \in Seqs
         /\ lcur[c] <= LHead(c)
         /\ LHead(c) + 1 \in 1..(N + 1)
         /\ \A t \in Queued[PortOf[c]] : t < LHead(c) => t < lcur[c]
<1>1. lcur[c] \in 1..(N + 1)
  BY DEF EmuTypeOK
<1>2. LHead(c) \in S2C[PortOf[c]]
  BY DEF HeadOK
<1>3. LHead(c) \in Seqs
  BY <1>2, ConnPorts, QueueFacts
<1> QED
  BY <1>1, <1>2, <1>3, ConnPorts, QueueFacts, HeadFacts DEF LHead

LEMMA NextC2SHead ==
  ASSUME EmuTypeOK, NEW c \in LoginConns, NextC2S(c) \in Seqs
  PROVE  /\ NextC2S(c) \in C2S[PortOf[c]]
         /\ lcur[c] <= NextC2S(c)
         /\ NextC2S(c) + 1 \in 1..(N + 1)
         /\ \A t \in C2S[PortOf[c]] : t < NextC2S(c) => t < lcur[c]
<1>1. lcur[c] \in 1..(N + 1)
  BY DEF EmuTypeOK
<1> QED
  BY <1>1, ConnPorts, QueueFacts, HeadFacts DEF NextC2S

LEMMA WorldHead ==
  ASSUME EmuTypeOK, NEW c \in WorldConns, WHead(c) \in Seqs
  PROVE  /\ WHead(c) \in S2C[PortOf[c]]
         /\ wcur[c] <= WHead(c)
         /\ WHead(c) + 1 \in 1..(N + 1)
         /\ \A t \in S2C[PortOf[c]] : t < WHead(c) => t < wcur[c]
<1>1. wcur[c] \in 1..(N + 1)
  BY DEF EmuTypeOK
<1> QED
  BY <1>1, ConnPorts, QueueFacts, HeadFacts DEF WHead

LEMMA WorldHeadSeq ==
  ASSUME HeadOK, NEW c \in WorldConns, wpc[c] \in {"gate", "send", "ack"}
  PROVE  WHead(c) \in Seqs
BY ConnPorts, QueueFacts DEF HeadOK

(* A login thread that moves its cursor and goes where _flush_s2c sends it *)
(* has a head when it flushes.                                             *)
LEMMA LoginAdvances ==
  ASSUME EmuTypeOK, HeadOK, NEW c \in LoginConns, NEW k \in 1..(N + 1),
         lcur' = [lcur EXCEPT ![c] = k],
         lpc' = [lpc EXCEPT ![c] = FlushOrRead(c, k)],
         UNCHANGED <<wpc, wcur>>
  PROVE  /\ HeadOK'
         /\ lcur' \in [LoginConns -> 1..(N + 1)]
         /\ lpc' \in [LoginConns -> {"idle", "flush", "ack", "read", "closed"}]
<1>1. FlushOrRead(c, k) \in {"flush", "read"}
  BY DEF FlushOrRead
<1>2. lpc \in [LoginConns -> {"idle", "flush", "ack", "read", "closed"}]
       /\ lcur \in [LoginConns -> 1..(N + 1)]
  BY DEF EmuTypeOK
<1>3. ASSUME NEW d \in LoginConns, lpc'[d] \in {"flush", "ack"}
      PROVE  LHead(d)' \in S2C[PortOf[d]]
  <2>1. CASE d = c
    <3>1. lpc'[c] = FlushOrRead(c, k) /\ lcur'[c] = k
      BY <1>2
    <3>2. First(From(Queued[PortOf[c]], k)) \in S2C[PortOf[c]]
      BY <1>3, <2>1, <3>1 DEF FlushOrRead
    <3> QED
      BY <2>1, <3>1, <3>2 DEF LHead
  <2>2. CASE d # c
    BY <1>2, <1>3, <2>2 DEF HeadOK, LHead
  <2> QED
    BY <2>1, <2>2
<1>4. \A d \in WorldConns :
        wpc'[d] \in {"gate", "send", "ack"} => WHead(d)' \in S2C[PortOf[d]]
  BY DEF HeadOK, WHead
<1> QED
  BY <1>1, <1>2, <1>3, <1>4 DEF HeadOK

LEMMA LoginStays ==
  ASSUME EmuTypeOK, HeadOK, NEW c \in LoginConns, NEW v \in {"ack", "read", "closed"},
         lcur' = lcur, lpc' = [lpc EXCEPT ![c] = v],
         v = "ack" => lpc[c] = "flush",
         UNCHANGED <<wpc, wcur>>
  PROVE  HeadOK'
BY DEF HeadOK, LHead, WHead, EmuTypeOK

LEMMA WorldStays ==
  ASSUME EmuTypeOK, HeadOK, NEW c \in WorldConns, NEW v,
         wcur' = wcur, wpc' = [wpc EXCEPT ![c] = v],
         v \in {"gate", "send", "ack"} => WHead(c) \in S2C[PortOf[c]],
         UNCHANGED <<lpc, lcur>>
  PROVE  HeadOK'
BY DEF HeadOK, LHead, WHead, EmuTypeOK

LEMMA WorldAdvances ==
  ASSUME EmuTypeOK, HeadOK, NEW c \in WorldConns, NEW k,
         wcur' = [wcur EXCEPT ![c] = k], wpc' = [wpc EXCEPT ![c] = "top"],
         UNCHANGED <<lpc, lcur>>
  PROVE  HeadOK'
BY DEF HeadOK, LHead, WHead, EmuTypeOK

(* What a thread sends is appended to its history. *)
LEMMA SentType ==
  ASSUME NEW Conns, NEW sent \in [Conns -> Seq(Seqs)], NEW c \in Conns, NEW s \in Seqs
  PROVE  [sent EXCEPT ![c] = Append(@, s)] \in [Conns -> Seq(Seqs)]
<1>1. Append(sent[c], s) \in Seq(Seqs)
  BY AppendProperties
<1> QED
  BY <1>1

LEMMA LoginStepType ==
  ASSUME BusTypeOK, EmuTypeOK, HeadOK, NEW c \in LoginConns,
         LoginConnect(c) \/ LoginClose(c) \/ LoginThread(c)
           \/ \E op \in Opcodes : LoginMatch(c, op) \/ LoginDesync(c, op)
  PROVE  BusTypeOK' /\ EmuTypeOK' /\ HeadOK'
<1>1. CASE LoginConnect(c)
  <2>1. lcur[c] \in 1..(N + 1) /\ lcur' = [lcur EXCEPT ![c] = lcur[c]]
    BY <1>1 DEF LoginConnect, EmuTypeOK
  <2>2. HeadOK' /\ lpc' \in [LoginConns -> {"idle", "flush", "ack", "read", "closed"}]
    BY <1>1, <2>1, LoginAdvances DEF LoginConnect, worldVars
  <2> QED
    BY <1>1, <2>2 DEF LoginConnect, EmuTypeOK, BusTypeOK, busVars, worldVars
<1>2. CASE FlushSend(c)
  <2>1. LHead(c) \in Seqs
    BY <1>2, LoginHead DEF FlushSend
  <2>2. lsent' \in [LoginConns -> Seq(Seqs)]
    BY <1>2, <2>1, SentType DEF FlushSend, EmuTypeOK
  <2>3. HeadOK'
    BY <1>2, LoginStays DEF FlushSend, worldVars
  <2> QED
    BY <1>2, <2>2, <2>3 DEF FlushSend, EmuTypeOK, BusTypeOK, busVars, worldVars
<1>3. CASE FlushAck(c)
  <2>1. LHead(c) \in Seqs /\ LHead(c) + 1 \in 1..(N + 1)
    BY <1>3, LoginHead DEF FlushAck
  <2>2. /\ HeadOK'
        /\ lcur' \in [LoginConns -> 1..(N + 1)]
        /\ lpc' \in [LoginConns -> {"idle", "flush", "ack", "read", "closed"}]
    BY <1>3, <2>1, LoginAdvances DEF FlushAck, worldVars
  <2>3. BusTypeOK'
    BY <1>3, <2>1, BroadcastAckType DEF FlushAck, BusTypeOK, busRest
  <2> QED
    BY <1>3, <2>2, <2>3 DEF FlushAck, EmuTypeOK, worldVars
<1>4. CASE FlushSkip(c)
  <2>1. LHead(c) + 1 \in 1..(N + 1)
    BY <1>4, LoginHead DEF FlushSkip
  <2>2. /\ HeadOK'
        /\ lcur' \in [LoginConns -> 1..(N + 1)]
        /\ lpc' \in [LoginConns -> {"idle", "flush", "ack", "read", "closed"}]
    BY <1>4, <2>1, LoginAdvances DEF FlushSkip, worldVars
  <2> QED
    BY <1>4, <2>2 DEF FlushSkip, EmuTypeOK, BusTypeOK, busVars, worldVars
<1>5. CASE FlushFail(c)
  <2>1. HeadOK'
    BY <1>5, LoginStays DEF FlushFail, worldVars
  <2> QED
    BY <1>5, <2>1 DEF FlushFail, EmuTypeOK, BusTypeOK, busVars, worldVars
<1>6. ASSUME NEW op \in Opcodes, LoginMatch(c, op) PROVE BusTypeOK' /\ EmuTypeOK' /\ HeadOK'
  <2>1. NextC2S(c) \in Seqs /\ NextC2S(c) + 1 \in 1..(N + 1)
    BY <1>6, NextC2SHead DEF LoginMatch
  <2>2. lsent' \in [LoginConns -> Seq(Seqs)]
    BY <1>6, <2>1, SentType DEF LoginMatch, EmuTypeOK
  <2>3. /\ HeadOK'
        /\ lcur' \in [LoginConns -> 1..(N + 1)]
        /\ lpc' \in [LoginConns -> {"idle", "flush", "ack", "read", "closed"}]
    BY <1>6, <2>1, LoginAdvances DEF LoginMatch, worldVars
  <2>4. BusTypeOK'
    BY <1>6, <2>1, BroadcastAckType DEF LoginMatch, BusTypeOK, busRest
  <2> QED
    BY <1>6, <2>2, <2>3, <2>4 DEF LoginMatch, EmuTypeOK, worldVars
<1>7. ASSUME NEW op \in Opcodes, LoginDesync(c, op) PROVE BusTypeOK' /\ EmuTypeOK' /\ HeadOK'
  <2>1. Desync(NextC2S(c)) \in Msg
    BY <1>7 DEF LoginDesync, Desync, Msg
  <2>2. toReplayer' \in [Replayers -> Seq(Msg)]
    BY <1>7, <2>1, BroadcastType DEF LoginDesync, BusTypeOK
  <2>3. HeadOK'
    BY <1>7, LoginStays DEF LoginDesync, worldVars
  <2> QED
    BY <1>7, <2>2, <2>3 DEF LoginDesync, EmuTypeOK, BusTypeOK, busRest, worldVars
<1>8. CASE LoginClose(c)
  <2>1. HeadOK'
    BY <1>8, LoginStays DEF LoginClose, worldVars
  <2> QED
    BY <1>8, <2>1 DEF LoginClose, EmuTypeOK, BusTypeOK, busVars, worldVars
<1> QED
  BY <1>1, <1>2, <1>3, <1>4, <1>5, <1>6, <1>7, <1>8 DEF LoginThread

LEMMA WorldStepType ==
  ASSUME BusTypeOK, EmuTypeOK, HeadOK, NEW c \in WorldConns,
         WorldConnect(c) \/ WorldClientCloses(c) \/ PushThread(c)
  PROVE  BusTypeOK' /\ EmuTypeOK' /\ HeadOK'
<1>1. CASE WorldConnect(c)
  <2>1. HeadOK'
    BY <1>1, WorldStays DEF WorldConnect, loginVars
  <2> QED
    BY <1>1, <2>1 DEF WorldConnect, EmuTypeOK, BusTypeOK, busVars, loginVars
<1>2. CASE WorldClientCloses(c)
  BY <1>2 DEF WorldClientCloses, EmuTypeOK, BusTypeOK, HeadOK, LHead, WHead,
              busVars, loginVars
<1>3. CASE PushTop(c)
  <2>1. HeadOK'
    BY <1>3, WorldHead, WorldStays DEF PushTop, loginVars
  <2> QED
    BY <1>3, <2>1 DEF PushTop, EmuTypeOK, BusTypeOK, busVars, loginVars
<1>4. CASE PushGate(c) \/ PushGateTimeout(c)
  <2>1. WHead(c) \in S2C[PortOf[c]]
    BY <1>4 DEF PushGate, PushGateTimeout, HeadOK
  <2>2. HeadOK'
    BY <1>4, <2>1, WorldStays DEF PushGate, PushGateTimeout, loginVars
  <2> QED
    BY <1>4, <2>2 DEF PushGate, PushGateTimeout, EmuTypeOK, BusTypeOK, busVars, loginVars
<1>5. CASE PushSend(c)
  <2>1. WHead(c) \in S2C[PortOf[c]] /\ WHead(c) \in Seqs
    BY <1>5, WorldHeadSeq DEF PushSend, HeadOK
  <2>2. wsent' \in [WorldConns -> Seq(Seqs)]
    BY <1>5, <2>1, SentType DEF PushSend, EmuTypeOK
  <2>3. HeadOK'
    BY <1>5, <2>1, WorldStays DEF PushSend, loginVars
  <2> QED
    BY <1>5, <2>2, <2>3 DEF PushSend, EmuTypeOK, BusTypeOK, busVars, loginVars
<1>6. CASE PushSkip(c)
  <2>1. WHead(c) + 1 \in 1..(N + 1)
    BY <1>6, WorldHeadSeq, WorldHead DEF PushSkip
  <2>2. HeadOK'
    BY <1>6, WorldAdvances DEF PushSkip, loginVars
  <2> QED
    BY <1>6, <2>1, <2>2 DEF PushSkip, EmuTypeOK, BusTypeOK, busVars, loginVars
<1>7. CASE PushFail(c)
  <2>1. HeadOK'
    BY <1>7, WorldStays DEF PushFail, loginVars
  <2> QED
    BY <1>7, <2>1 DEF PushFail, EmuTypeOK, BusTypeOK, busVars, loginVars
<1>8. CASE PushAck(c)
  <2>1. WHead(c) \in Seqs /\ WHead(c) + 1 \in 1..(N + 1)
    BY <1>8, WorldHeadSeq, WorldHead DEF PushAck
  <2>2. HeadOK'
    BY <1>8, WorldAdvances DEF PushAck, loginVars
  <2>3. BusTypeOK'
    BY <1>8, <2>1, BroadcastAckType DEF PushAck, BusTypeOK, busRest
  <2> QED
    BY <1>8, <2>1, <2>2, <2>3 DEF PushAck, EmuTypeOK, loginVars
<1>9. CASE PushFinish(c)
  <2>1. PICK v \in {"done", "announce"} : wpc' = [wpc EXCEPT ![c] = v]
    BY <1>9 DEF PushFinish
  <2>2. HeadOK'
    BY <1>9, <2>1, WorldStays DEF PushFinish, loginVars
  <2>3. pendingPorts' \subseteq WorldPorts
    BY <1>9 DEF PushFinish, BusTypeOK
  <2> QED
    BY <1>9, <2>1, <2>2, <2>3 DEF PushFinish, EmuTypeOK, BusTypeOK, busRest, loginVars
<1>10. CASE PushAnnounce(c)
  <2>1. RecordingDone \in Msg
    BY DEF Msg
  <2>2. toReplayer' \in [Replayers -> Seq(Msg)]
    BY <1>10, <2>1, BroadcastType DEF PushAnnounce, BusTypeOK
  <2>3. HeadOK'
    BY <1>10, WorldStays DEF PushAnnounce, loginVars
  <2> QED
    BY <1>10, <2>2, <2>3 DEF PushAnnounce, EmuTypeOK, BusTypeOK, busRest, loginVars
<1> QED
  BY <1>1, <1>2, <1>3, <1>4, <1>5, <1>6, <1>7, <1>8, <1>9, <1>10 DEF PushThread

LEMMA EmuStepType ==
  ASSUME BusTypeOK, EmuTypeOK, HeadOK, EmuNext
  PROVE  BusTypeOK' /\ EmuTypeOK' /\ HeadOK'
BY LoginStepType, WorldStepType DEF EmuNext, GameClient

(* A step of a run leaves the server's part of the bus alone. *)
LEMMA ReplayerStepType ==
  ASSUME BusTypeOK, ReplayerTypeOK, PlaceOK, NEW r \in Replayers,
         Start(r) \/ ReplayLoop(r) \/ Interrupt(r) \/ Listener(r)
  PROVE  BusTypeOK' /\ ReplayerTypeOK' /\ PlaceOK'
<1>1. CASE Start(r)
  BY <1>1 DEF Start, BusTypeOK, ReplayerTypeOK, PlaceOK, serverVars, boundVars
<1>2. CASE LeaveStopped(r) \/ AwaitAck(r) \/ Halt(r) \/ HaltWindow(r)
  BY <1>2 DEF LeaveStopped, AwaitAck, Halt, HaltWindow, BusTypeOK, ReplayerTypeOK,
              PlaceOK, busVars
<1>3. CASE Advance(r)
  <2>1. toBus' \in [Replayers -> Seq(Seqs)]
    <3>1. toBus[r] \in Seq(Seqs) /\ pos[r] \in Seqs
      BY <1>3 DEF Advance, BusTypeOK
    <3>2. Append(toBus[r], pos[r]) \in Seq(Seqs)
      BY <3>1, AppendProperties
    <3> QED
      BY <1>3, <3>2 DEF Advance, SendProgress, BusTypeOK
  <2> QED
    BY <1>3, <2>1 DEF Advance, BusTypeOK, ReplayerTypeOK, PlaceOK, serverVars, boundVars
<1>4. CASE PassOver(r) \/ Confirmed(r) \/ Fire(r)
  <2>1. pos[r] \in Seqs /\ NextEvent(r)
    BY <1>4 DEF PassOver, Confirmed, Fire, PlaceOK
  <2>2. pos[r] + 1 \in 1..(N + 1)
    BY <2>1, LengthIsNat DEF Seqs
  <2>3. /\ pos' \in [Replayers -> 1..(N + 1)]
        /\ rpc' \in [Replayers -> {"off", "top", "paced", "wait", "ended"}]
        /\ PlaceOK'
    BY <2>1, <2>2 DEF NextEvent, ReplayerTypeOK, PlaceOK
  <2>4. /\ fired' \in [Replayers -> SUBSET Seqs]
        /\ late' \in [Replayers -> SUBSET Seqs]
    BY <1>4, <2>1 DEF PassOver, Confirmed, Fire, ReplayerTypeOK
  <2> QED
    BY <1>4, <2>3, <2>4 DEF PassOver, Confirmed, Fire, BusTypeOK, ReplayerTypeOK, busVars
<1>5. CASE Finish(r)
  <2>1. doneMsgs' \subseteq Replayers
    BY <1>5 DEF Finish, BusTypeOK
  <2> QED
    BY <1>5, <2>1 DEF Finish, BusTypeOK, ReplayerTypeOK, PlaceOK, serverVars, boundVars
<1>6. CASE Interrupt(r)
  BY <1>6 DEF Interrupt, BusTypeOK, ReplayerTypeOK, PlaceOK, Reasons, serverVars
<1>7. CASE Connect(r)
  BY <1>7 DEF Connect, BusTypeOK, ReplayerTypeOK, PlaceOK, serverVars, boundVars,
              replayerVars
<1>8. CASE Deliver(r)
  <2> DEFINE msg == Head(toReplayer[r])
  <2>1. toReplayer[r] \in Seq(Msg) /\ toReplayer[r] # <<>>
    BY <1>8 DEF Deliver, BusTypeOK
  <2>2. msg \in Msg /\ Tail(toReplayer[r]) \in Seq(Msg)
    BY <2>1, HeadTailProperties
  <2>3. toReplayer' \in [Replayers -> Seq(Msg)]
    BY <1>8, <2>2 DEF Deliver, BusTypeOK
  <2>4. OnAck(r, msg)
    BY <1>8 DEF Deliver
  <2>5. /\ stopBy' \in [Replayers -> SUBSET Reasons]
        /\ acked' \in [Replayers -> SUBSET Seqs]
        /\ asserted' \in [Replayers -> BOOLEAN]
    <3>1. CASE msg.event # "ack"
      <4>1. msg.event \in Reasons
        BY <2>2, <3>1 DEF Msg, RecordingDone, Reasons
      <4> QED
        BY <2>4, <3>1, <4>1 DEF OnAck, ReplayerTypeOK
    <3>2. CASE msg.event = "ack"
      <4>1. msg.seq \in Seqs
        BY <2>2, <3>2 DEF Msg, RecordingDone
      <4> HIDE DEF msg
      <4> DEFINE spawn == IF Recording[msg.seq].port = SpawnPort /\ ~asserted[r]
                          THEN Recording[msg.seq].spawn ELSE "none"
      <4>2. /\ acked' = [acked EXCEPT ![r] = @ \cup {msg.seq}]
            /\ asserted' = [asserted EXCEPT ![r] = @ \/ spawn # "none"]
            /\ stopBy' = [stopBy EXCEPT ![r] = IF spawn = "other" THEN @ \cup {"spawn"}
                                                                  ELSE @]
        BY <2>4, <3>2 DEF OnAck
      <4> HIDE DEF spawn
      <4>3. acked' \in [Replayers -> SUBSET Seqs]
        BY <4>1, <4>2 DEF ReplayerTypeOK
      <4>4. asserted' \in [Replayers -> BOOLEAN]
        BY <4>2, Zenon DEF ReplayerTypeOK
      <4>5. stopBy' \in [Replayers -> SUBSET Reasons]
        BY <4>2 DEF ReplayerTypeOK, Reasons
      <4> QED
        BY <4>3, <4>4, <4>5
    <3> QED
      BY <3>1, <3>2
  <2> QED
    BY <1>8, <2>3, <2>5 DEF Deliver, BusTypeOK, ReplayerTypeOK, PlaceOK, serverVars,
                            boundVars
<1>9. CASE Disconnect(r)
  <2>1. \A S : <<>> \in Seq(S)
    BY EmptySeq
  <2> QED
    BY <1>9, <2>1 DEF Disconnect, BusTypeOK, ReplayerTypeOK, PlaceOK, serverVars,
                      boundVars, replayerVars
<1> QED
  BY <1>1, <1>2, <1>3, <1>4, <1>5, <1>6, <1>7, <1>8, <1>9 DEF ReplayLoop, Listener

-----------------------------------------------------------------------------
LEMMA StepType == ITypeOK /\ [Next]_vars => ITypeOK'
<1> SUFFICES ASSUME ITypeOK, [Next]_vars PROVE ITypeOK'
  OBVIOUS
<1>1. CASE BusNext /\ UNCHANGED <<emuVars, replayerVars>>
  BY <1>1, BusStepType, EmuUnchanged, ReplayerUnchanged DEF ITypeOK, TypeOK
<1>2. CASE EmuNext /\ UNCHANGED replayerVars
  BY <1>2, EmuStepType, ReplayerUnchanged DEF ITypeOK, TypeOK
<1>3. CASE ReplayerNext /\ UNCHANGED emuVars
  BY <1>3, ReplayerStepType, EmuUnchanged DEF ITypeOK, TypeOK, ReplayerNext
<1>4. CASE UNCHANGED vars
  <2>1. UNCHANGED busVars /\ UNCHANGED emuVars /\ UNCHANGED replayerVars
    BY <1>4 DEF vars
  <2>2. BusTypeOK'
    BY <2>1 DEF ITypeOK, TypeOK, BusTypeOK, busVars
  <2> QED
    BY <2>1, <2>2, EmuUnchanged, ReplayerUnchanged DEF ITypeOK, TypeOK
<1> QED
  BY <1>1, <1>2, <1>3, <1>4 DEF Next

(* The inductive invariant holds. *)
THEOREM HeadsInRange == Spec => []ITypeOK
<1>1. Init => ITypeOK
  BY InitType
<1>2. ITypeOK /\ [Next]_vars => ITypeOK'
  BY StepType
<1> QED
  BY <1>1, <1>2, PTL DEF Spec

(* Every variable of the emulator, the bus and the runs keeps its type, in *)
(* particular no cursor of a connection thread and no place of a run ever  *)
(* leaves the recording, and what is on the links is a well-formed message.*)
THEOREM TypeCorrect == Spec => []TypeOK
<1>1. ITypeOK => TypeOK
  BY DEF ITypeOK
<1> QED
  BY <1>1, HeadsInRange, PTL
=============================================================================
