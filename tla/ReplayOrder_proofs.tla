------------------------- MODULE ReplayOrder_proofs -------------------------
(***************************************************************************)
(* The connection threads lose no frame and keep the recorded order, for   *)
(* every recording and any number of connections (SendsInOrder,            *)
(* NoSilentSkip), and what pusher and runs tell each other is true         *)
(* (LeadBound, HandoffAfterPush).                                          *)
(*                                                                         *)
(* Neither is inductive.  That what a thread sent is increasing needs that *)
(* all of it lies before the cursor, or, between the send and the          *)
(* broadcast, up to the head (LoginOrder, WorldOrder).  That a match       *)
(* passes nothing over needs that a thread which reads has flushed: no S2C *)
(* entry is at its cursor unless a send failed (LoginComplete).  That the  *)
(* pusher leaves out no frame it can send (WorldComplete) is what the      *)
(* announcement of recording_done rests on.                                *)
(***************************************************************************)
EXTENDS ReplayLockstep_proofs

LoginOrder(c) ==
  /\ Increasing(lsent[c])
  /\ \A s \in Range(lsent[c]) : IF lpc[c] = "ack" THEN s <= LHead(c) ELSE s < lcur[c]

WorldOrder(c) ==
  /\ Increasing(wsent[c])
  /\ \A s \in Range(wsent[c]) : IF wpc[c] = "ack" THEN s <= WHead(c) ELSE s < wcur[c]

WorldComplete(c) ==
  \A s \in Sendable(S2C[PortOf[c]]) : s < wcur[c] => s \in Range(wsent[c])

LoginComplete(c) ==
  ~lfailed[c] =>
    /\ \A s \in Queued[PortOf[c]] : s < lcur[c] =>
         s \in Range(lsent[c]) \/ (s \in S2C[PortOf[c]] /\ ~Recording[s].ok)
    /\ lpc[c] = "read" => LHead(c) \notin S2C[PortOf[c]]

OrderInv ==
  /\ \A c \in LoginConns : LoginOrder(c) /\ LoginComplete(c)
  /\ \A c \in WorldConns : WorldOrder(c) /\ WorldComplete(c)

-----------------------------------------------------------------------------
LEMMA AppendIncreasing ==
  ASSUME NEW seq \in Seq(Seqs), NEW s \in Seqs, Increasing(seq),
         \A t \in Range(seq) : t < s
  PROVE  Increasing(Append(seq, s))
<1>1. /\ Append(seq, s) \in Seq(Seqs)
      /\ Len(Append(seq, s)) = Len(seq) + 1
      /\ \A i \in 1..Len(seq) : Append(seq, s)[i] = seq[i]
      /\ Append(seq, s)[Len(seq) + 1] = s
  BY AppendProperties
<1>2. DOMAIN seq = 1..Len(seq) /\ Len(seq) \in Nat
  BY LenProperties
<1>3. DOMAIN Append(seq, s) = 1..(Len(seq) + 1)
  BY <1>1, LenProperties
<1>4. ASSUME NEW j \in 1..(Len(seq) + 1), NEW k \in 1..(Len(seq) + 1), j < k
      PROVE  Append(seq, s)[j] < Append(seq, s)[k]
  <2>1. j \in 1..Len(seq)
    BY <1>2, <1>4
  <2>2. CASE k \in 1..Len(seq)
    BY <1>1, <1>2, <1>4, <2>1, <2>2 DEF Increasing
  <2>3. CASE k = Len(seq) + 1
    <3>1. seq[j] \in Range(seq)
      BY <1>2, <2>1 DEF Range
    <3> QED
      BY <1>1, <2>1, <2>3, <3>1
  <2> QED
    BY <1>2, <2>2, <2>3
<1> QED
  BY <1>3, <1>4 DEF Increasing

LEMMA EmptyIncreasing == Increasing(<<>>)
BY DEF Increasing

(* An entry of a queue goes one of two ways. *)
LEMMA QueueSplits ==
  ASSUME NEW p \in Ports, NEW s \in Queued[p]
  PROVE  s \in S2C[p] \/ s \in C2S[p]
<1>1. s \in Seqs
  BY QueueFacts
<1>2. Recording[s] \in Event
  BY <1>1, RecordingAssumption DEF Seqs, N
<1>3. Recording[s].dir \in {"C2S", "S2C"}
  BY <1>2 DEF Event
<1> QED
  BY <1>3 DEF S2C, C2S

-----------------------------------------------------------------------------
LEMMA InitOrder == Init => OrderInv
<1> SUFFICES ASSUME Init PROVE OrderInv
  OBVIOUS
<1>1. ASSUME NEW c \in LoginConns PROVE LoginOrder(c) /\ LoginComplete(c)
  <2>1. lsent[c] = <<>> /\ lcur[c] = 1 /\ lpc[c] = "idle"
    BY DEF Init, EmuInit
  <2>2. \A s \in Queued[PortOf[c]] : ~(s < 1)
    BY ConnPorts, QueueFacts DEF Seqs
  <2> QED
    BY <2>1, <2>2, EmptyIncreasing, EmptyRange DEF LoginOrder, LoginComplete
<1>2. ASSUME NEW c \in WorldConns PROVE WorldOrder(c) /\ WorldComplete(c)
  <2>1. wsent[c] = <<>> /\ wcur[c] = 1
    BY DEF Init, EmuInit
  <2>2. \A s \in S2C[PortOf[c]] : ~(s < 1)
    BY ConnPorts, QueueFacts DEF Seqs
  <2> QED
    BY <2>1, <2>2, EmptyIncreasing, EmptyRange DEF WorldOrder, WorldComplete, Sendable
<1> QED
  BY <1>1, <1>2 DEF OrderInv

(* What a connection does is no concern of the others. *)
LEMMA OtherLogins ==
  ASSUME NEW d \in LoginConns, LoginOrder(d), LoginComplete(d),
         lpc'[d] = lpc[d], lcur'[d] = lcur[d], lsent'[d] = lsent[d],
         lfailed'[d] = lfailed[d]
  PROVE  LoginOrder(d)' /\ LoginComplete(d)'
BY DEF LoginOrder, LoginComplete, LHead

LEMMA OtherWorlds ==
  ASSUME NEW d \in WorldConns, WorldOrder(d), WorldComplete(d),
         wpc'[d] = wpc[d], wcur'[d] = wcur[d], wsent'[d] = wsent[d]
  PROVE  WorldOrder(d)' /\ WorldComplete(d)'
BY DEF WorldOrder, WorldComplete, WHead

LEMMA LoginStepOrder ==
  ASSUME ITypeOK, SentBeforeAck, OrderInv, NEW c \in LoginConns,
         LoginConnect(c) \/ LoginClose(c) \/ LoginThread(c)
           \/ \E op \in Opcodes : LoginMatch(c, op) \/ LoginDesync(c, op)
  PROVE  OrderInv'
<1>1. /\ lpc \in [LoginConns -> {"idle", "flush", "ack", "read", "closed"}]
      /\ lcur \in [LoginConns -> 1..(N + 1)]
      /\ lsent \in [LoginConns -> Seq(Seqs)]
      /\ lfailed \in [LoginConns -> BOOLEAN]
      /\ EmuTypeOK /\ HeadOK
  BY DEF ITypeOK, TypeOK, EmuTypeOK
<1>2. LoginOrder(c) /\ LoginComplete(c) /\ PortOf[c] \in Ports
  BY ConnPorts DEF OrderInv
<1>3. /\ \A s \in Range(lsent[c]) : s \in Seqs
      /\ \A s \in Seqs : s \in Int
      /\ \A s \in Queued[PortOf[c]] : s \in Seqs
      /\ lcur[c] \in Int
  <2>1. Range(lsent[c]) \subseteq Seqs
    BY <1>1, RangeOfSeq
  <2>2. Queued[PortOf[c]] \subseteq Seqs
    BY <1>2, QueueFacts
  <2> QED
    BY <1>1, <2>1, <2>2 DEF Seqs
<1>4. /\ \A d \in LoginConns : d # c =>
           lpc'[d] = lpc[d] /\ lcur'[d] = lcur[d] /\ lsent'[d] = lsent[d]
             /\ lfailed'[d] = lfailed[d]
      /\ wpc' = wpc /\ wcur' = wcur /\ wsent' = wsent
  BY <1>1 DEF LoginConnect, LoginClose, LoginThread, FlushSend, FlushAck, FlushSkip,
              FlushFail, LoginMatch, LoginDesync, worldVars
<1>5. SUFFICES LoginOrder(c)' /\ LoginComplete(c)'
  <2>1. ASSUME NEW d \in LoginConns, d # c PROVE LoginOrder(d)' /\ LoginComplete(d)'
    BY <1>4, <2>1, OtherLogins DEF OrderInv
  <2>2. ASSUME NEW d \in WorldConns PROVE WorldOrder(d)' /\ WorldComplete(d)'
    BY <1>4, OtherWorlds DEF OrderInv
  <2> QED
    BY <2>1, <2>2 DEF OrderInv
<1>6. \A k \in 1..(N + 1) :
        /\ FlushOrRead(c, k) # "ack"
        /\ FlushOrRead(c, k) = "read" => First(From(Queued[PortOf[c]], k)) \notin S2C[PortOf[c]]
  BY DEF FlushOrRead
<1>7. CASE LoginConnect(c)
  <2>1. lpc[c] # "ack" /\ lpc'[c] = FlushOrRead(c, lcur[c])
    BY <1>1, <1>7 DEF LoginConnect
  <2>2. lcur' = lcur /\ lsent' = lsent /\ lfailed' = lfailed
    BY <1>7 DEF LoginConnect
  <2>3. lpc'[c] # "ack" /\ (lpc'[c] = "read" => LHead(c)' \notin S2C[PortOf[c]])
    BY <1>1, <1>6, <2>1, <2>2 DEF LHead
  <2> QED
    BY <1>2, <2>1, <2>2, <2>3 DEF LoginOrder, LoginComplete
<1>8. CASE FlushSend(c)
  <2>1. /\ LHead(c) \in Seqs /\ lcur[c] <= LHead(c)
        /\ lpc[c] = "flush" /\ lpc'[c] = "ack"
        /\ lcur' = lcur /\ lfailed' = lfailed
        /\ lsent'[c] = Append(lsent[c], LHead(c))
    BY <1>1, <1>8, LoginHead DEF FlushSend
  <2>2. LHead(c)' = LHead(c)
    BY <2>1 DEF LHead
  <2>3. \A s \in Range(lsent[c]) : s < LHead(c)
    BY <1>2, <1>3, <2>1 DEF LoginOrder
  <2>4. Increasing(lsent'[c])
    BY <1>1, <1>2, <2>1, <2>3, AppendIncreasing DEF LoginOrder
  <2>5. Range(lsent'[c]) = Range(lsent[c]) \cup {LHead(c)}
    BY <1>1, <2>1, AppendRange
  <2>6. \A s \in Range(lsent'[c]) : s <= LHead(c)
    BY <1>3, <2>1, <2>3, <2>5
  <2>7. LoginOrder(c)'
    BY <2>1, <2>2, <2>4, <2>6 DEF LoginOrder
  <2>8. LoginComplete(c)'
    BY <1>2, <2>1, <2>5 DEF LoginComplete
  <2> QED
    BY <2>7, <2>8
<1>9. CASE FlushAck(c)
  <2>1. /\ LHead(c) \in Seqs /\ LHead(c) \in Range(lsent[c])
        /\ \A t \in Queued[PortOf[c]] : t < LHead(c) => t < lcur[c]
        /\ lpc[c] = "ack" /\ lpc'[c] = FlushOrRead(c, LHead(c) + 1)
        /\ LHead(c) + 1 \in 1..(N + 1)
        /\ lcur'[c] = LHead(c) + 1 /\ lsent' = lsent /\ lfailed' = lfailed
    BY <1>1, <1>9, LoginHead DEF FlushAck, SentBeforeAck
  <2>2. LoginOrder(c)'
    BY <1>2, <1>3, <1>6, <2>1 DEF LoginOrder
  <2>3. \A s \in Queued[PortOf[c]] : s < LHead(c) + 1 => s < lcur[c] \/ s = LHead(c)
    BY <1>3, <2>1
  <2>4. lpc'[c] = "read" => LHead(c)' \notin S2C[PortOf[c]]
    BY <1>6, <2>1 DEF LHead
  <2>5. LoginComplete(c)'
    BY <1>2, <2>1, <2>3, <2>4 DEF LoginComplete
  <2> QED
    BY <2>2, <2>5
<1>10. CASE FlushSkip(c)
  <2>1. /\ LHead(c) \in Seqs /\ LHead(c) \in S2C[PortOf[c]] /\ lcur[c] <= LHead(c)
        /\ ~Recording[LHead(c)].ok
        /\ \A t \in Queued[PortOf[c]] : t < LHead(c) => t < lcur[c]
        /\ lpc[c] = "flush" /\ lpc'[c] = FlushOrRead(c, LHead(c) + 1)
        /\ LHead(c) + 1 \in 1..(N + 1)
        /\ lcur'[c] = LHead(c) + 1 /\ lsent' = lsent /\ lfailed' = lfailed
    BY <1>1, <1>10, LoginHead DEF FlushSkip
  <2>2. LoginOrder(c)'
    <3>1. \A s \in Range(lsent[c]) : s < LHead(c) + 1
      BY <1>2, <1>3, <2>1 DEF LoginOrder
    <3> QED
      BY <1>2, <1>6, <2>1, <3>1 DEF LoginOrder
  <2>3. \A s \in Queued[PortOf[c]] : s < LHead(c) + 1 => s < lcur[c] \/ s = LHead(c)
    BY <1>3, <2>1
  <2>4. lpc'[c] = "read" => LHead(c)' \notin S2C[PortOf[c]]
    BY <1>6, <2>1 DEF LHead
  <2>5. LoginComplete(c)'
    BY <1>2, <2>1, <2>3, <2>4 DEF LoginComplete
  <2> QED
    BY <2>2, <2>5
<1>11. CASE FlushFail(c)
  <2>1. lpc[c] = "flush" /\ lpc'[c] = "read" /\ lcur' = lcur /\ lsent' = lsent
    BY <1>1, <1>11 DEF FlushFail
  <2>2. lfailed'[c]
    BY <1>1, <1>11, Zenon DEF FlushFail
  <2> QED
    BY <1>2, <2>1, <2>2 DEF LoginOrder, LoginComplete
<1>12. ASSUME NEW op \in Opcodes, LoginMatch(c, op)
       PROVE  LoginOrder(c)' /\ LoginComplete(c)'
  <2> DEFINE n == NextC2S(c)
  <2>1. /\ n \in Seqs /\ n \in C2S[PortOf[c]] /\ lcur[c] <= n
        /\ \A t \in C2S[PortOf[c]] : t < n => t < lcur[c]
        /\ lpc[c] = "read" /\ lpc'[c] = FlushOrRead(c, n + 1)
        /\ n + 1 \in 1..(N + 1)
        /\ lcur'[c] = n + 1 /\ lfailed' = lfailed
        /\ lsent'[c] = Append(lsent[c], n)
    BY <1>1, <1>12, NextC2SHead DEF LoginMatch
  <2> HIDE DEF n
  <2>2. \A s \in Range(lsent[c]) : s < n
    BY <1>2, <1>3, <2>1 DEF LoginOrder
  <2>3. Increasing(lsent'[c])
    BY <1>1, <1>2, <2>1, <2>2, AppendIncreasing DEF LoginOrder
  <2>4. Range(lsent'[c]) = Range(lsent[c]) \cup {n}
    BY <1>1, <2>1, AppendRange
  <2>5. \A s \in Range(lsent'[c]) : s < n + 1
    BY <1>3, <2>1, <2>2, <2>4
  <2>6. LoginOrder(c)'
    BY <1>6, <2>1, <2>3, <2>5 DEF LoginOrder
  <2>7. ASSUME ~lfailed[c], NEW s \in Queued[PortOf[c]], s < n + 1
        PROVE  s < lcur[c] \/ s = n
    <3>1. CASE s \in C2S[PortOf[c]]
      BY <1>3, <2>1, <2>7, <3>1
    <3>2. CASE s \in S2C[PortOf[c]] /\ ~(s < lcur[c])
      <4>1. LHead(c) \notin S2C[PortOf[c]]
        BY <1>2, <2>1, <2>7 DEF LoginComplete
      <4>2. lcur[c] \in 1..(N + 1) /\ Queued[PortOf[c]] \in SUBSET Seqs
        BY <1>1, <1>2, QueueFacts
      <4>3. /\ LHead(c) \in 1..(N + 1)
            /\ LHead(c) \in Seqs => LHead(c) \in Queued[PortOf[c]] /\ lcur[c] <= LHead(c)
            /\ LHead(c) \in Seqs =>
                 \A t \in Queued[PortOf[c]] : t < LHead(c) => t < lcur[c]
            /\ LHead(c) \notin Seqs => \A t \in Queued[PortOf[c]] : t < lcur[c]
        BY <4>2, HeadFacts DEF LHead
      <4>4. LHead(c) \in Seqs /\ LHead(c) \in Queued[PortOf[c]]
        BY <3>2, <4>3
      <4>5. LHead(c) \in C2S[PortOf[c]]
        BY <1>2, <4>1, <4>4, QueueSplits
      <4>6. n <= LHead(c)
        BY <1>3, <2>1, <4>3, <4>4, <4>5
      <4>7. ~(s < LHead(c))
        BY <3>2, <4>3, <4>4
      <4> QED
        BY <1>3, <2>1, <2>7, <4>4, <4>6, <4>7
    <3> QED
      BY <1>2, <3>1, <3>2, QueueSplits
  <2>8. lpc'[c] = "read" => LHead(c)' \notin S2C[PortOf[c]]
    BY <1>6, <2>1 DEF LHead
  <2>9. LoginComplete(c)'
    BY <1>2, <2>1, <2>4, <2>7, <2>8 DEF LoginComplete
  <2> QED
    BY <2>6, <2>9
<1>13. CASE LoginClose(c) \/ \E op \in Opcodes : LoginDesync(c, op)
  <2>1. /\ lpc[c] = "read" /\ lpc'[c] = "closed"
        /\ lcur' = lcur /\ lsent' = lsent /\ lfailed' = lfailed
    BY <1>1, <1>13 DEF LoginClose, LoginDesync
  <2> QED
    BY <1>2, <2>1 DEF LoginOrder, LoginComplete
<1> QED
  BY <1>7, <1>8, <1>9, <1>10, <1>11, <1>12, <1>13 DEF LoginThread

LEMMA WorldStepOrder ==
  ASSUME ITypeOK, SentBeforeAck, OrderInv, NEW c \in WorldConns,
         WorldConnect(c) \/ WorldClientCloses(c) \/ PushThread(c)
  PROVE  OrderInv'
<1>1. /\ wpc \in [WorldConns -> {"idle", "top", "gate", "send", "ack", "announce",
                                "done", "closed"}]
      /\ wcur \in [WorldConns -> 1..(N + 1)]
      /\ wsent \in [WorldConns -> Seq(Seqs)]
      /\ EmuTypeOK /\ HeadOK
  BY DEF ITypeOK, TypeOK, EmuTypeOK
<1>2. WorldOrder(c) /\ WorldComplete(c) /\ PortOf[c] \in Ports
  BY ConnPorts DEF OrderInv
<1>3. /\ \A s \in Range(wsent[c]) : s \in Seqs
      /\ \A s \in Seqs : s \in Int
      /\ \A s \in S2C[PortOf[c]] : s \in Seqs
      /\ wcur[c] \in Int
  <2>1. Range(wsent[c]) \subseteq Seqs
    BY <1>1, RangeOfSeq
  <2>2. S2C[PortOf[c]] \subseteq Seqs
    BY <1>2, QueueFacts
  <2> QED
    BY <1>1, <2>1, <2>2 DEF Seqs
<1>4. /\ \A d \in WorldConns : d # c =>
           wpc'[d] = wpc[d] /\ wcur'[d] = wcur[d] /\ wsent'[d] = wsent[d]
      /\ lpc' = lpc /\ lcur' = lcur /\ lsent' = lsent /\ lfailed' = lfailed
  <2>1. CASE PushFinish(c)
    <3>1. PICK v \in {"done", "announce"} : wpc' = [wpc EXCEPT ![c] = v]
      BY <2>1 DEF PushFinish
    <3> QED
      BY <1>1, <2>1, <3>1 DEF PushFinish, loginVars
  <2>2. CASE ~PushFinish(c)
    BY <1>1, <2>2 DEF WorldConnect, WorldClientCloses, PushThread, PushTop, PushGate,
                PushGateTimeout, PushSend, PushSkip, PushFail, PushAck, PushAnnounce,
                loginVars
  <2> QED
    BY <2>1, <2>2
<1>5. SUFFICES WorldOrder(c)' /\ WorldComplete(c)'
  <2>1. ASSUME NEW d \in WorldConns, d # c PROVE WorldOrder(d)' /\ WorldComplete(d)'
    BY <1>4, <2>1, OtherWorlds DEF OrderInv
  <2>2. ASSUME NEW d \in LoginConns PROVE LoginOrder(d)' /\ LoginComplete(d)'
    BY <1>4, OtherLogins DEF OrderInv
  <2> QED
    BY <2>1, <2>2 DEF OrderInv
<1>6. CASE PushSend(c)
  <2>1. /\ WHead(c) \in Seqs /\ wcur[c] <= WHead(c)
        /\ wpc[c] = "send" /\ wpc'[c] = "ack" /\ wcur' = wcur
        /\ wsent'[c] = Append(wsent[c], WHead(c))
    BY <1>1, <1>6, WorldHead, WorldHeadSeq DEF PushSend
  <2>2. WHead(c)' = WHead(c)
    BY <2>1 DEF WHead
  <2>3. \A s \in Range(wsent[c]) : s < WHead(c)
    BY <1>2, <1>3, <2>1 DEF WorldOrder
  <2>4. Increasing(wsent'[c])
    BY <1>1, <1>2, <2>1, <2>3, AppendIncreasing DEF WorldOrder
  <2>5. Range(wsent'[c]) = Range(wsent[c]) \cup {WHead(c)}
    BY <1>1, <2>1, AppendRange
  <2>6. \A s \in Range(wsent'[c]) : s <= WHead(c)
    BY <1>3, <2>1, <2>3, <2>5
  <2>7. WorldOrder(c)'
    BY <2>1, <2>2, <2>4, <2>6 DEF WorldOrder
  <2>8. WorldComplete(c)'
    BY <1>2, <2>1, <2>5 DEF WorldComplete
  <2> QED
    BY <2>7, <2>8
<1>7. CASE PushAck(c)
  <2>1. /\ WHead(c) \in Seqs /\ WHead(c) \in Range(wsent[c])
        /\ \A t \in S2C[PortOf[c]] : t < WHead(c) => t < wcur[c]
        /\ wpc[c] = "ack" /\ wpc'[c] = "top"
        /\ wcur'[c] = WHead(c) + 1 /\ wsent' = wsent
    BY <1>1, <1>7, WorldHead, WorldHeadSeq DEF PushAck, SentBeforeAck
  <2>2. WorldOrder(c)'
    BY <1>2, <1>3, <2>1 DEF WorldOrder
  <2>3. \A s \in S2C[PortOf[c]] : s < WHead(c) + 1 => s < wcur[c] \/ s = WHead(c)
    BY <1>3, <2>1
  <2>4. WorldComplete(c)'
    BY <1>2, <2>1, <2>3 DEF WorldComplete, Sendable
  <2> QED
    BY <2>2, <2>4
<1>8. CASE PushSkip(c)
  <2>1. /\ WHead(c) \in Seqs /\ wcur[c] <= WHead(c)
        /\ ~Recording[WHead(c)].ok
        /\ \A t \in S2C[PortOf[c]] : t < WHead(c) => t < wcur[c]
        /\ wpc[c] = "send" /\ wpc'[c] = "top"
        /\ wcur'[c] = WHead(c) + 1 /\ wsent' = wsent
    BY <1>1, <1>8, WorldHead, WorldHeadSeq DEF PushSkip
  <2>2. \A s \in Range(wsent[c]) : s < WHead(c) + 1
    BY <1>2, <1>3, <2>1 DEF WorldOrder
  <2>3. WorldOrder(c)'
    BY <1>2, <2>1, <2>2 DEF WorldOrder
  <2>4. \A s \in S2C[PortOf[c]] : s < WHead(c) + 1 => s < wcur[c] \/ s = WHead(c)
    BY <1>3, <2>1
  <2>5. WorldComplete(c)'
    BY <1>2, <2>1, <2>4 DEF WorldComplete, Sendable
  <2> QED
    BY <2>3, <2>5
<1>9. CASE \/ WorldConnect(c) \/ WorldClientCloses(c) \/ PushTop(c) \/ PushGate(c)
           \/ PushGateTimeout(c) \/ PushFail(c) \/ PushFinish(c) \/ PushAnnounce(c)
  <2>1. wcur' = wcur /\ wsent' = wsent
    BY <1>9 DEF WorldConnect, WorldClientCloses, PushTop, PushGate, PushGateTimeout,
                PushFail, PushFinish, PushAnnounce
  <2>2. wpc'[c] = wpc[c] \/ (wpc[c] # "ack" /\ wpc'[c] # "ack")
    BY <1>1, <1>9 DEF WorldConnect, WorldClientCloses, PushTop, PushGate, PushGateTimeout,
                      PushFail, PushFinish, PushAnnounce
  <2> QED
    BY <1>2, <2>1, <2>2 DEF WorldOrder, WorldComplete, WHead
<1> QED
  BY <1>6, <1>7, <1>8, <1>9 DEF PushThread

LEMMA OrderUnchanged ==
  ASSUME OrderInv, UNCHANGED emuVars
  PROVE  OrderInv'
<1>1. ASSUME NEW d \in LoginConns PROVE LoginOrder(d)' /\ LoginComplete(d)'
  BY OtherLogins DEF OrderInv, emuVars
<1>2. ASSUME NEW d \in WorldConns PROVE WorldOrder(d)' /\ WorldComplete(d)'
  BY OtherWorlds DEF OrderInv, emuVars
<1> QED
  BY <1>1, <1>2 DEF OrderInv

LEMMA StepOrder == IInv /\ OrderInv /\ [Next]_vars => OrderInv'
<1> SUFFICES ASSUME IInv, OrderInv, [Next]_vars PROVE OrderInv'
  OBVIOUS
<1>1. ITypeOK /\ SentBeforeAck
  BY DEF IInv, ChainInv
<1>2. CASE EmuNext
  BY <1>1, <1>2, LoginStepOrder, WorldStepOrder DEF EmuNext, GameClient
<1>3. CASE UNCHANGED emuVars
  BY <1>3, OrderUnchanged
<1> QED
  BY <1>2, <1>3 DEF Next, vars

-----------------------------------------------------------------------------
(* The inductive invariants of the lockstep and of the order together.     *)
THEOREM OrderInvariance == Spec => [](IInv /\ OrderInv)
<1>1. Init => OrderInv
  BY InitOrder
<1>2. IInv /\ OrderInv /\ [Next]_vars => OrderInv'
  BY StepOrder
<1> QED
  BY <1>1, <1>2, Invariance, PTL DEF Spec

(* Every connection of handle_login_conn and handle_world_conn sends and   *)
(* matches frames in the recorded order, none of them twice, whatever the  *)
(* client sends, wherever a send fails and whenever it closes.             *)
THEOREM OrderKept == Spec => []SendsInOrder
<1>1. OrderInv => SendsInOrder
  BY DEF OrderInv, LoginOrder, WorldOrder, SendsInOrder
<1> QED
  BY <1>1, OrderInvariance, PTL

(* As long as no send of a login connection failed, _next_c2s passes over  *)
(* no entry: all of the queue up to the cursor was sent or matched, except *)
(* payloads that are not hex.                                              *)
THEOREM NothingSkipped == Spec => []NoSilentSkip
<1>1. OrderInv => NoSilentSkip
  BY DEF OrderInv, LoginComplete, NoSilentSkip, Before
<1> QED
  BY <1>1, OrderInvariance, PTL

-----------------------------------------------------------------------------
(* What the world pusher and the runs of the input replayer tell each      *)
(* other: LeadBound and HandoffAfterPush.                                  *)
(*                                                                         *)
(* LeadBound speaks of where the runs are, the gate of what they reported. *)
(* The two are related by what is on the way: no input_progress line in    *)
(* flight, and no value the bus keeps, is ahead of the run that sent it    *)
(* (Reports, ProgressReal).                                                *)
(*                                                                         *)
(* HandoffAfterPush follows recording_done back: a run was stopped by it,  *)
(* it was in flight, a thread was about to announce it, each of which      *)
(* means that no port was pending (DoneMeansEmpty); and a port ceased to   *)
(* be pending only when a connection had pushed all of it (NotPending).    *)

Reports ==
  \A r \in Replayers : \A s \in Range(toBus[r]) : rpc[r] # "off" /\ s <= pos[r]

ProgressReal ==
  progress = 0 \/ \E r \in Replayers : rpc[r] # "off" /\ progress <= pos[r]

LeadInv == Reports /\ ProgressReal /\ LeadBound

NotPending == \A p \in RegisteredPorts \ pendingPorts : FullyPushed(p)

DoneMeansEmpty ==
  /\ \A c \in WorldConns : wpc[c] = "announce" => pendingPorts = {}
  /\ \A r \in Replayers : \A m \in Range(toReplayer[r]) :
       m.event = "recording_done" => pendingPorts = {}
  /\ \A r \in Replayers : "recording_done" \in stopBy[r] => pendingPorts = {}

HandoffInv == NotPending /\ DoneMeansEmpty

-----------------------------------------------------------------------------
(* The runs only move forward. *)

Forward ==
  \A r \in Replayers : /\ rpc[r] # "off" => rpc'[r] # "off"
                       /\ pos[r] <= pos'[r]

LEMMA RunsMoveForward ==
  ASSUME ITypeOK, [Next]_vars
  PROVE  Forward
<1>1. /\ rpc \in [Replayers -> {"off", "top", "paced", "wait", "ended"}]
      /\ pos \in [Replayers -> 1..(N + 1)]
      /\ \A r \in Replayers : pos[r] \in Int
  BY DEF ITypeOK, TypeOK, ReplayerTypeOK
<1>2. CASE UNCHANGED replayerVars
  BY <1>1, <1>2 DEF Forward, replayerVars
<1>3. ASSUME NEW r \in Replayers, Start(r) PROVE Forward
  <2>1. PICK v \in {"top", "ended"} : rpc' = [rpc EXCEPT ![r] = v]
    BY <1>3 DEF Start
  <2> QED
    BY <1>1, <1>3, <2>1 DEF Start, Forward
<1>4. ASSUME NEW r \in Replayers, PassOver(r) \/ Confirmed(r) \/ Fire(r) PROVE Forward
  BY <1>1, <1>4 DEF PassOver, Confirmed, Fire, NextEvent, Forward
<1>5. ASSUME NEW r \in Replayers,
             \/ LeaveStopped(r) \/ Advance(r) \/ AwaitAck(r) \/ Halt(r)
             \/ HaltWindow(r) \/ Finish(r)
      PROVE  Forward
  <2>1. pos' = pos
    BY <1>5 DEF LeaveStopped, Advance, AwaitAck, Halt, HaltWindow, Finish
  <2>2. PICK v \in {"paced", "wait", "ended"} : rpc' = [rpc EXCEPT ![r] = v]
    BY <1>5 DEF LeaveStopped, Advance, AwaitAck, Halt, HaltWindow, Finish
  <2> QED
    BY <1>1, <2>1, <2>2 DEF Forward
<1>6. ASSUME NEW r \in Replayers, Interrupt(r) \/ Listener(r) PROVE Forward
  <2>1. pos' = pos /\ rpc' = rpc
    BY <1>6 DEF Interrupt, Listener, Connect, Deliver, Disconnect, replayerVars
  <2> QED
    BY <1>1, <2>1 DEF Forward
<1> QED
  BY <1>2, <1>3, <1>4, <1>5, <1>6 DEF Next, vars, ReplayerNext, ReplayLoop

-----------------------------------------------------------------------------
(* Progress. *)

LEMMA InitLead == Init => LeadInv
<1> SUFFICES ASSUME Init PROVE LeadInv
  OBVIOUS
<1>1. Reports
  BY EmptyRange DEF Init, BusInit, Reports
<1>2. ProgressReal
  BY DEF Init, BusInit, ProgressReal
<1>3. LeadBound
  BY DEF Init, EmuInit, LeadBound
<1> QED
  BY <1>1, <1>2, <1>3 DEF LeadInv

(* Only Advance puts something on the way to the bus.                      *)
LEMMA ReportsStep ==
  ASSUME ITypeOK, Reports, [Next]_vars
  PROVE  Reports'
<1>1. /\ toBus \in [Replayers -> Seq(Seqs)]
      /\ rpc \in [Replayers -> {"off", "top", "paced", "wait", "ended"}]
      /\ pos \in [Replayers -> 1..(N + 1)]
      /\ \A r \in Replayers : pos[r] \in Int /\ pos'[r] \in Int
      /\ \A r \in Replayers : \A s \in Range(toBus[r]) : s \in Int
  <2>1. TypeOK /\ TypeOK'
    BY StepType DEF ITypeOK
  <2>2. \A r \in Replayers : Range(toBus[r]) \subseteq Seqs
    BY <2>1, RangeOfSeq DEF TypeOK, BusTypeOK
  <2> QED
    BY <2>1, <2>2 DEF TypeOK, BusTypeOK, ReplayerTypeOK, Seqs
<1>2. Forward
  BY RunsMoveForward
<1>3. ASSUME NEW r \in Replayers, Range(toBus'[r]) \subseteq Range(toBus[r]),
             NEW s \in Range(toBus'[r])
      PROVE  rpc'[r] # "off" /\ s <= pos'[r]
  BY <1>1, <1>2, <1>3 DEF Reports, Forward
<1>4. CASE \A r \in Replayers : Range(toBus'[r]) \subseteq Range(toBus[r])
  BY <1>3, <1>4 DEF Reports
<1>5. ASSUME NEW r \in Replayers, ReadProgress(r)
      PROVE  \A q \in Replayers : Range(toBus'[q]) \subseteq Range(toBus[q])
  <2>1. Range(Tail(toBus[r])) \subseteq Range(toBus[r])
    BY <1>1, <1>5, TailRange DEF ReadProgress
  <2> QED
    BY <1>1, <1>5, <2>1 DEF ReadProgress
<1>6. ASSUME NEW r \in Replayers, Drop(r)
      PROVE  \A q \in Replayers : Range(toBus'[q]) \subseteq Range(toBus[q])
  BY <1>1, <1>6, EmptyRange DEF Drop
<1>7. ASSUME NEW r \in Replayers, Advance(r) PROVE Reports'
  <2>1. pos[r] \in Seqs /\ rpc[r] # "off"
    BY <1>7 DEF Advance
  <2>2. Range(toBus'[r]) \subseteq Range(toBus[r]) \cup {pos[r]}
    <3>1. CASE link[r] = "down"
      BY <1>7, <3>1 DEF Advance, SendProgress
    <3>2. CASE link[r] # "down"
      BY <1>1, <1>7, <2>1, <3>2, AppendRange DEF Advance, SendProgress
    <3> QED
      BY <3>1, <3>2
  <2>3. \A q \in Replayers : q # r => toBus'[q] = toBus[q]
    BY <1>1, <1>7 DEF Advance, SendProgress
  <2>4. \A s \in Range(toBus'[r]) : rpc'[r] # "off" /\ s <= pos'[r]
    BY <1>1, <1>2, <2>1, <2>2 DEF Forward, Reports
  <2>5. \A q \in Replayers : q # r =>
          \A s \in Range(toBus'[q]) : rpc'[q] # "off" /\ s <= pos'[q]
    BY <1>3, <2>3
  <2> QED
    BY <2>4, <2>5 DEF Reports
<1>8. CASE toBus' = toBus
  BY <1>4, <1>8
<1>9. BusNext => \/ toBus' = toBus
                 \/ \E r \in Replayers : ReadProgress(r) \/ Drop(r)
  BY DEF BusNext, Accept, ReadInputDone, Sigint
<1>10. EmuNext => toBus' = toBus
  BY DEF EmuNext, GameClient, LoginConnect, LoginClose, LoginMatch, LoginDesync,
         LoginThread, FlushSend, FlushAck, FlushSkip, FlushFail, WorldConnect,
         WorldClientCloses, PushThread, PushTop, PushGate, PushGateTimeout, PushSend,
         PushSkip, PushFail, PushAck, PushFinish, PushAnnounce, busVars, busRest
<1>11. ReplayerNext => toBus' = toBus \/ \E r \in Replayers : Advance(r)
  BY DEF ReplayerNext, Start, ReplayLoop, LeaveStopped, AwaitAck, PassOver, Confirmed,
         Halt, Fire, HaltWindow, Finish, Interrupt, Listener, Connect, Deliver,
         Disconnect, busVars
<1> QED
  BY <1>4, <1>5, <1>6, <1>7, <1>8, <1>9, <1>10, <1>11 DEF Next, vars, busVars

LEMMA ProgressStep ==
  ASSUME ITypeOK, Reports, ProgressReal, [Next]_vars
  PROVE  ProgressReal'
<1>1. /\ toBus \in [Replayers -> Seq(Seqs)]
      /\ progress \in Int /\ progress' \in Int
      /\ \A r \in Replayers : pos[r] \in Int /\ pos'[r] \in Int
  <2>1. TypeOK /\ TypeOK'
    BY StepType DEF ITypeOK
  <2> QED
    BY <2>1 DEF TypeOK, BusTypeOK, ReplayerTypeOK
<1>2. Forward
  BY RunsMoveForward
<1>3. CASE progress' = progress
  BY <1>1, <1>2, <1>3 DEF ProgressReal, Forward
<1>4. ASSUME NEW r \in Replayers, ReadProgress(r) PROVE ProgressReal'
  <2>1. Head(toBus[r]) \in Range(toBus[r])
    BY <1>1, <1>4, TailRange DEF ReadProgress
  <2>2. rpc[r] # "off" /\ Head(toBus[r]) <= pos[r]
    BY <2>1 DEF Reports
  <2>3. Head(toBus[r]) \in Seqs
    BY <1>1, <2>1, RangeOfSeq
  <2>4. progress' = progress \/ progress' = Head(toBus[r])
    BY <1>4 DEF ReadProgress
  <2>5. rpc'[r] # "off" /\ Head(toBus[r]) <= pos'[r]
    BY <1>1, <1>2, <2>2, <2>3 DEF Forward, Seqs
  <2> QED
    BY <1>3, <2>4, <2>5 DEF ProgressReal
<1>5. BusNext => progress' = progress \/ \E r \in Replayers : ReadProgress(r)
  BY DEF BusNext, Accept, ReadInputDone, Drop, Sigint, serverVars
<1>6. EmuNext => progress' = progress
  BY DEF EmuNext, GameClient, LoginConnect, LoginClose, LoginMatch, LoginDesync,
         LoginThread, FlushSend, FlushAck, FlushSkip, FlushFail, WorldConnect,
         WorldClientCloses, PushThread, PushTop, PushGate, PushGateTimeout, PushSend,
         PushSkip, PushFail, PushAck, PushFinish, PushAnnounce, busVars, busRest
<1>7. ReplayerNext => progress' = progress
  BY DEF ReplayerNext, Start, ReplayLoop, LeaveStopped, Advance, AwaitAck, PassOver,
         Confirmed, Halt, Fire, HaltWindow, Finish, Interrupt, Listener, Connect,
         Deliver, Disconnect, busVars, serverVars
<1> QED
  BY <1>3, <1>4, <1>5, <1>6, <1>7 DEF Next, vars, busVars

(* A pusher is about to send because it just passed the gate, or it was    *)
(* and nothing of its place changed.                                       *)
LEMMA BeforeSend ==
  ASSUME ITypeOK, [Next]_vars, NEW c \in WorldConns, wpc'[c] = "send"
  PROVE  \/ PushGate(c) /\ UNCHANGED replayerVars
         \/ PushGateTimeout(c)
         \/ wpc[c] = "send" /\ wcur'[c] = wcur[c] /\ expired'[c] = expired[c]
<1>1. /\ wpc \in [WorldConns -> {"idle", "top", "gate", "send", "ack", "announce",
                                "done", "closed"}]
      /\ wcur \in [WorldConns -> 1..(N + 1)]
      /\ expired \in [WorldConns -> BOOLEAN]
  BY DEF ITypeOK, TypeOK, EmuTypeOK
<1> DEFINE Steady == wpc[c] = "send" /\ wcur'[c] = wcur[c] /\ expired'[c] = expired[c]
<1>2. CASE UNCHANGED <<wpc, wcur, expired>>
  BY <1>2
<1>3. ASSUME NEW d \in LoginConns,
             LoginConnect(d) \/ LoginClose(d) \/ LoginThread(d)
               \/ \E op \in Opcodes : LoginMatch(d, op) \/ LoginDesync(d, op)
      PROVE  Steady
  BY <1>2, <1>3 DEF LoginConnect, LoginClose, LoginThread, FlushSend, FlushAck, FlushSkip,
                    FlushFail, LoginMatch, LoginDesync, worldVars
<1>4. ASSUME NEW d \in WorldConns, PushTop(d) PROVE Steady
  <2>1. wpc'[d] # "send"
    BY <1>1, <1>4 DEF PushTop
  <2>2. d # c
    BY <2>1
  <2>3. wpc[c] = "send" /\ wcur'[c] = wcur[c]
    BY <1>1, <1>4, <2>2 DEF PushTop
  <2>4. expired'[c] = expired[c]
    BY <1>1, <1>4, <2>2, Zenon DEF PushTop
  <2> QED
    BY <2>3, <2>4
<1>5. ASSUME NEW d \in WorldConns, PushGate(d) \/ PushGateTimeout(d), d # c PROVE Steady
  <2>1. wpc[c] = "send" /\ wcur'[c] = wcur[c]
    BY <1>1, <1>5 DEF PushGate, PushGateTimeout
  <2>2. expired'[c] = expired[c]
    BY <1>1, <1>5, Zenon DEF PushGate, PushGateTimeout
  <2> QED
    BY <2>1, <2>2
<1>6. ASSUME NEW d \in WorldConns,
             \/ WorldConnect(d) \/ WorldClientCloses(d) \/ PushSend(d) \/ PushSkip(d)
             \/ PushFail(d) \/ PushAck(d) \/ PushAnnounce(d)
      PROVE  Steady
  BY <1>1, <1>6 DEF WorldConnect, WorldClientCloses, PushSend, PushSkip, PushFail, PushAck,
                    PushAnnounce
<1>7. ASSUME NEW d \in WorldConns, PushFinish(d) PROVE Steady
  <2>1. PICK v \in {"done", "announce"} : wpc' = [wpc EXCEPT ![d] = v]
    BY <1>7 DEF PushFinish
  <2> QED
    BY <1>1, <1>7, <2>1 DEF PushFinish
<1> QED
  BY <1>2, <1>3, <1>4, <1>5, <1>6, <1>7
     DEF Next, vars, emuVars, EmuNext, GameClient, PushThread

(* Neither of the two is ever taken back.                                  *)
LEMMA NeverTakenBack ==
  ASSUME [Next]_vars
  PROVE  (inputDone => inputDone') /\ (stopEvt => stopEvt')
<1>1. BusNext => (inputDone => inputDone') /\ (stopEvt => stopEvt')
  BY DEF BusNext, Accept, ReadProgress, ReadInputDone, Drop, Sigint, serverVars
<1>2. EmuNext => inputDone' = inputDone /\ stopEvt' = stopEvt
  BY DEF EmuNext, GameClient, LoginConnect, LoginClose, LoginMatch, LoginDesync,
         LoginThread, FlushSend, FlushAck, FlushSkip, FlushFail, WorldConnect,
         WorldClientCloses, PushThread, PushTop, PushGate, PushGateTimeout, PushSend,
         PushSkip, PushFail, PushAck, PushFinish, PushAnnounce, busVars, busRest
<1>3. ReplayerNext => inputDone' = inputDone /\ stopEvt' = stopEvt
  BY DEF ReplayerNext, Start, ReplayLoop, LeaveStopped, Advance, AwaitAck, PassOver,
         Confirmed, Halt, Fire, HaltWindow, Finish, Interrupt, Listener, Connect,
         Deliver, Disconnect, busVars, serverVars
<1> QED
  BY <1>1, <1>2, <1>3 DEF Next, vars, busVars

LEMMA LeadStep ==
  ASSUME ITypeOK, LeadInv, [Next]_vars
  PROVE  LeadInv'
<1>1. Reports' /\ ProgressReal'
  BY ReportsStep, ProgressStep DEF LeadInv
<1>2. SUFFICES ASSUME NEW c \in WorldConns, wpc'[c] = "send"
               PROVE  \/ \E r \in Replayers : rpc'[r] # "off" /\ WHead(c)' <= pos'[r] + Lookahead
                      \/ WHead(c)' <= Lookahead
                      \/ inputDone' \/ expired'[c] \/ stopEvt'
  BY <1>1 DEF LeadInv, LeadBound
<1>3. /\ wcur[c] \in 1..(N + 1)
      /\ WHead(c) \in Int
      /\ Lookahead \in Int
      /\ progress \in Int
      /\ \A r \in Replayers : pos[r] \in Int /\ pos'[r] \in Int
      /\ expired \in [WorldConns -> BOOLEAN]
  <2>1. TypeOK /\ TypeOK'
    BY StepType DEF ITypeOK
  <2>2. wcur[c] \in 1..(N + 1)
    BY <2>1 DEF TypeOK, EmuTypeOK
  <2>3. WHead(c) \in 1..(N + 1)
    BY <2>2, ConnPorts, QueueFacts, HeadFacts DEF WHead
  <2> QED
    BY <2>1, <2>2, <2>3, LengthIsNat, EmulatorAssumption
       DEF TypeOK, BusTypeOK, ReplayerTypeOK, EmuTypeOK
<1>4. CASE PushGate(c) /\ UNCHANGED replayerVars
  <2>1. WHead(c)' = WHead(c) /\ inputDone' = inputDone /\ stopEvt' = stopEvt
    BY <1>4 DEF PushGate, WHead, busVars
  <2>2. rpc' = rpc /\ pos' = pos
    BY <1>4 DEF replayerVars
  <2>3. inputDone \/ progress >= WHead(c) - Lookahead \/ stopEvt
    BY <1>4 DEF PushGate, GateOpen
  <2> QED
    BY <1>3, <2>1, <2>2, <2>3 DEF LeadInv, ProgressReal
<1>5. CASE PushGateTimeout(c)
  BY <1>3, <1>5, Zenon DEF PushGateTimeout
<1>6. CASE wpc[c] = "send" /\ wcur'[c] = wcur[c] /\ expired'[c] = expired[c]
  <2>1. WHead(c)' = WHead(c)
    BY <1>6 DEF WHead
  <2>2. \A r \in Replayers : rpc[r] # "off" /\ WHead(c) <= pos[r] + Lookahead
                              => rpc'[r] # "off" /\ WHead(c)' <= pos'[r] + Lookahead
    BY <1>3, <2>1, RunsMoveForward DEF Forward
  <2>3. \/ \E r \in Replayers : rpc[r] # "off" /\ WHead(c) <= pos[r] + Lookahead
        \/ WHead(c) <= Lookahead
        \/ inputDone \/ expired[c] \/ stopEvt
    BY <1>6 DEF LeadInv, LeadBound
  <2> QED
    BY <1>6, <2>1, <2>2, <2>3, NeverTakenBack
<1> QED
  BY <1>2, <1>4, <1>5, <1>6, BeforeSend

-----------------------------------------------------------------------------
(* The end of the recording. *)

LEMMA InitHandoff == Init => HandoffInv
<1> SUFFICES ASSUME Init PROVE HandoffInv
  OBVIOUS
<1>1. NotPending
  BY DEF Init, BusInit, NotPending
<1>2. DoneMeansEmpty
  BY EmptyRange DEF Init, BusInit, EmuInit, ReplayerInit, DoneMeansEmpty
<1> QED
  BY <1>1, <1>2 DEF HandoffInv

(* What was pushed stays pushed. *)
LEMMA PushedStays ==
  ASSUME ITypeOK, [Next]_vars
  PROVE  \A c \in WorldConns : Range(wsent[c]) \subseteq Range(wsent'[c])
<1>1. wsent \in [WorldConns -> Seq(Seqs)] /\ HeadOK
  BY DEF ITypeOK, TypeOK, EmuTypeOK
<1>2. ASSUME NEW d \in WorldConns, PushSend(d)
      PROVE  \A c \in WorldConns : Range(wsent[c]) \subseteq Range(wsent'[c])
  <2>1. WHead(d) \in Seqs
    BY <1>1, <1>2, WorldHeadSeq DEF PushSend
  <2>2. Range(wsent'[d]) = Range(wsent[d]) \cup {WHead(d)}
    BY <1>1, <1>2, <2>1, AppendRange DEF PushSend
  <2>3. \A c \in WorldConns : c # d => wsent'[c] = wsent[c]
    BY <1>1, <1>2 DEF PushSend
  <2> QED
    BY <2>2, <2>3
<1>3. EmuNext => wsent' = wsent \/ \E d \in WorldConns : PushSend(d)
  BY DEF EmuNext, GameClient, LoginConnect, LoginClose, LoginMatch, LoginDesync,
         LoginThread, FlushSend, FlushAck, FlushSkip, FlushFail, WorldConnect,
         WorldClientCloses, PushThread, PushTop, PushGate, PushGateTimeout,
         PushSkip, PushFail, PushAck, PushFinish, PushAnnounce, worldVars
<1> QED
  BY <1>2, <1>3 DEF Next, vars, emuVars

(* A port leaves the pending ones when a connection of it is through with  *)
(* its queue.                                                              *)
LEMMA PortsStep ==
  ASSUME ITypeOK, OrderInv, [Next]_vars
  PROVE  /\ pendingPorts' \subseteq pendingPorts
         /\ \A p \in pendingPorts \ pendingPorts' : FullyPushed(p)
<1>1. ASSUME NEW c \in WorldConns, PushFinish(c)
      PROVE  /\ pendingPorts' \subseteq pendingPorts
             /\ \A p \in pendingPorts \ pendingPorts' : FullyPushed(p)
  <2>1. WHead(c) \notin Seqs
    BY <1>1 DEF PushFinish
  <2>2. wcur[c] \in 1..(N + 1)
    BY DEF ITypeOK, TypeOK, EmuTypeOK
  <2>3. \A s \in S2C[PortOf[c]] : s < wcur[c]
    BY <2>1, <2>2, ConnPorts, QueueFacts, HeadFacts DEF WHead
  <2>4. FullyPushed(PortOf[c])
    BY <2>3 DEF OrderInv, WorldComplete, FullyPushed, Sendable
  <2>5. pendingPorts \ {PortOf[c]} \subseteq pendingPorts' /\ pendingPorts' \subseteq pendingPorts
    BY <1>1 DEF PushFinish
  <2> QED
    BY <2>4, <2>5
<1>2. CASE pendingPorts' = pendingPorts
  BY <1>2
<1>3. BusNext => pendingPorts' = pendingPorts
  BY DEF BusNext, Accept, ReadProgress, ReadInputDone, Drop, Sigint, serverVars
<1>4. EmuNext => pendingPorts' = pendingPorts \/ \E c \in WorldConns : PushFinish(c)
  BY DEF EmuNext, GameClient, LoginConnect, LoginClose, LoginMatch, LoginDesync,
         LoginThread, FlushSend, FlushAck, FlushSkip, FlushFail, WorldConnect,
         WorldClientCloses, PushThread, PushTop, PushGate, PushGateTimeout, PushSend,
         PushSkip, PushFail, PushAck, PushAnnounce, busVars
<1>5. ReplayerNext => pendingPorts' = pendingPorts
  BY DEF ReplayerNext, Start, ReplayLoop, LeaveStopped, Advance, AwaitAck, PassOver,
         Confirmed, Halt, Fire, HaltWindow, Finish, Interrupt, Listener, Connect,
         Deliver, Disconnect, busVars, serverVars
<1> QED
  BY <1>1, <1>2, <1>3, <1>4, <1>5 DEF Next, vars, busVars

(* Only the last port to finish leads to an announcement ... *)
LEMMA AnnouncerStep ==
  ASSUME ITypeOK, [Next]_vars, NEW c \in WorldConns, wpc'[c] = "announce"
  PROVE  wpc[c] = "announce" \/ pendingPorts' = {}
<1>1. wpc \in [WorldConns -> {"idle", "top", "gate", "send", "ack", "announce",
                            "done", "closed"}]
  BY DEF ITypeOK, TypeOK, EmuTypeOK
<1>2. ASSUME NEW d \in WorldConns, PushFinish(d)
      PROVE  wpc[c] = "announce" \/ pendingPorts' = {}
  BY <1>1, <1>2 DEF PushFinish
<1>3. EmuNext /\ ~(\E d \in WorldConns : PushFinish(d)) => wpc[c] = "announce"
  BY <1>1 DEF EmuNext, GameClient, LoginConnect, LoginClose, LoginMatch, LoginDesync,
         LoginThread, FlushSend, FlushAck, FlushSkip, FlushFail, WorldConnect,
         WorldClientCloses, PushThread, PushTop, PushGate, PushGateTimeout, PushSend,
         PushSkip, PushFail, PushAck, PushAnnounce, worldVars
<1> QED
  BY <1>2, <1>3 DEF Next, vars, emuVars

(* ... only the announcement puts recording_done on the links ... *)
LEMMA MessagesStep ==
  ASSUME ITypeOK, [Next]_vars, NEW r \in Replayers, NEW m \in Range(toReplayer'[r]),
         m.event = "recording_done"
  PROVE  m \in Range(toReplayer[r]) \/ \E c \in WorldConns : wpc[c] = "announce"
<1>1. /\ BusTypeOK /\ EmuTypeOK /\ HeadOK
      /\ toReplayer \in [Replayers -> Seq(Msg)]
  BY DEF ITypeOK, TypeOK, BusTypeOK
<1>2. CASE toReplayer' = toReplayer
  BY <1>2
<1>3. ASSUME NEW k \in Msg, k.event # "recording_done", Broadcast(k)
      PROVE  m \in Range(toReplayer[r])
  BY <1>1, <1>3, BroadcastEffect
<1>4. ASSUME NEW s \in Seqs
      PROVE  /\ Ack(s) \in Msg /\ Ack(s).event = "ack"
             /\ Desync(s) \in Msg /\ Desync(s).event = "desync"
  BY DEF Ack, Desync, Msg
<1>5. CASE BusNext
  <2>1. toReplayer'[r] = toReplayer[r] \/ toReplayer'[r] = <<>>
    BY <1>1, <1>5 DEF BusNext, Accept, ReadProgress, ReadInputDone, Drop, Sigint
  <2> QED
    BY <2>1, EmptyRange
<1>6. ASSUME NEW c \in LoginConns, FlushAck(c) PROVE m \in Range(toReplayer[r])
  BY <1>1, <1>3, <1>4, <1>6, LoginHead DEF FlushAck, BroadcastAck
<1>7. ASSUME NEW c \in LoginConns, NEW op \in Opcodes, LoginMatch(c, op) \/ LoginDesync(c, op)
      PROVE  m \in Range(toReplayer[r])
  BY <1>3, <1>4, <1>7 DEF LoginMatch, LoginDesync, BroadcastAck
<1>8. ASSUME NEW c \in WorldConns, PushAck(c) PROVE m \in Range(toReplayer[r])
  BY <1>1, <1>3, <1>4, <1>8, WorldHeadSeq DEF PushAck, BroadcastAck
<1>9. ASSUME NEW c \in WorldConns, PushAnnounce(c) PROVE wpc[c] = "announce"
  BY <1>9 DEF PushAnnounce
<1>10. CASE EmuNext
  <2>1. \/ toReplayer' = toReplayer
        \/ \E c \in LoginConns :
             FlushAck(c) \/ \E op \in Opcodes : LoginMatch(c, op) \/ LoginDesync(c, op)
        \/ \E c \in WorldConns : PushAck(c) \/ PushAnnounce(c)
    BY <1>10 DEF EmuNext, GameClient, LoginConnect, LoginClose, LoginThread, FlushSend,
                 FlushSkip, FlushFail, WorldConnect, WorldClientCloses, PushThread,
                 PushTop, PushGate, PushGateTimeout, PushSend, PushSkip, PushFail,
                 PushFinish, busVars
  <2> QED
    BY <1>2, <1>6, <1>7, <1>8, <1>9, <2>1
<1>11. ASSUME NEW q \in Replayers, Deliver(q) PROVE m \in Range(toReplayer[r])
  <2>1. toReplayer[q] # <<>>
    BY <1>11 DEF Deliver
  <2>2. Range(Tail(toReplayer[q])) \subseteq Range(toReplayer[q])
    BY <1>1, <2>1, TailRange
  <2>3. toReplayer'[r] = IF r = q THEN Tail(toReplayer[q]) ELSE toReplayer[r]
    BY <1>1, <1>11 DEF Deliver
  <2> QED
    BY <2>2, <2>3
<1>12. ASSUME NEW q \in Replayers, Disconnect(q) PROVE m \in Range(toReplayer[r])
  <2>1. toReplayer'[r] = toReplayer[r] \/ toReplayer'[r] = <<>>
    BY <1>1, <1>12 DEF Disconnect
  <2> QED
    BY <2>1, EmptyRange
<1>13. ReplayerNext => toReplayer' = toReplayer \/ \E q \in Replayers : Deliver(q) \/ Disconnect(q)
  BY DEF ReplayerNext, Start, ReplayLoop, LeaveStopped, Advance, AwaitAck, PassOver,
         Confirmed, Halt, Fire, HaltWindow, Finish, Interrupt, Listener, Connect, busVars
<1> QED
  BY <1>2, <1>5, <1>10, <1>11, <1>12, <1>13 DEF Next, vars, busVars

(* ... and only its arrival stops a run for that reason.                   *)
LEMMA StopStep ==
  ASSUME ITypeOK, [Next]_vars, NEW r \in Replayers, "recording_done" \in stopBy'[r]
  PROVE  \/ "recording_done" \in stopBy[r]
         \/ \E m \in Range(toReplayer[r]) : m.event = "recording_done"
<1>1. /\ stopBy \in [Replayers -> SUBSET Reasons]
      /\ toReplayer \in [Replayers -> Seq(Msg)]
  BY DEF ITypeOK, TypeOK, BusTypeOK, ReplayerTypeOK
<1>2. CASE stopBy' = stopBy
  BY <1>2
<1>3. ASSUME NEW q \in Replayers, Interrupt(q) PROVE "recording_done" \in stopBy[r]
  BY <1>1, <1>3 DEF Interrupt
<1>4. ASSUME NEW q \in Replayers, Deliver(q)
      PROVE  \/ "recording_done" \in stopBy[r]
             \/ \E m \in Range(toReplayer[r]) : m.event = "recording_done"
  <2> DEFINE k == Head(toReplayer[q])
  <2>1. k \in Range(toReplayer[q])
    BY <1>1, <1>4, TailRange DEF Deliver
  <2>2. OnAck(q, k)
    BY <1>4 DEF Deliver
  <2> HIDE DEF k
  <2>3. \/ "recording_done" \in stopBy[r]
        \/ r = q /\ k.event = "recording_done"
    <3>1. CASE k.event # "ack"
      BY <1>1, <2>2, <3>1 DEF OnAck
    <3>2. CASE k.event = "ack"
      <4>1. PICK T \in {{}, {"spawn"}} : stopBy' = [stopBy EXCEPT ![q] = @ \cup T]
        BY <1>1, <2>2, <3>2 DEF OnAck
      <4> QED
        BY <1>1, <4>1
    <3> QED
      BY <3>1, <3>2
  <2> QED
    BY <2>1, <2>3
<1>5. ReplayerNext => stopBy' = stopBy \/ \E q \in Replayers : Interrupt(q) \/ Deliver(q)
  BY DEF ReplayerNext, Start, ReplayLoop, LeaveStopped, Advance, AwaitAck, PassOver,
         Confirmed, Halt, Fire, HaltWindow, Finish, Listener, Connect, Disconnect,
         replayerVars
<1> QED
  BY <1>2, <1>3, <1>4, <1>5 DEF Next, vars, replayerVars

LEMMA HandoffStep ==
  ASSUME ITypeOK, OrderInv, HandoffInv, [Next]_vars
  PROVE  HandoffInv'
<1>1. /\ pendingPorts' \subseteq pendingPorts
      /\ \A p \in pendingPorts \ pendingPorts' : FullyPushed(p)
  BY PortsStep
<1>2. \A p \in WorldPorts : FullyPushed(p) => FullyPushed(p)'
  BY PushedStays DEF FullyPushed
<1>3. NotPending'
  BY <1>1, <1>2 DEF HandoffInv, NotPending, RegisteredPorts
<1>4. DoneMeansEmpty'
  <2>1. ASSUME NEW c \in WorldConns, wpc'[c] = "announce" PROVE pendingPorts' = {}
    BY <1>1, <2>1, AnnouncerStep DEF HandoffInv, DoneMeansEmpty
  <2>2. ASSUME NEW r \in Replayers, NEW m \in Range(toReplayer'[r]),
               m.event = "recording_done"
        PROVE  pendingPorts' = {}
    BY <1>1, <2>2, MessagesStep DEF HandoffInv, DoneMeansEmpty
  <2>3. ASSUME NEW r \in Replayers, "recording_done" \in stopBy'[r]
        PROVE  pendingPorts' = {}
    BY <1>1, <2>3, StopStep DEF HandoffInv, DoneMeansEmpty
  <2> QED
    BY <2>1, <2>2, <2>3 DEF DoneMeansEmpty
<1> QED
  BY <1>3, <1>4 DEF HandoffInv

-----------------------------------------------------------------------------
(* The world pusher is about to send a frame more than --world-lookahead-  *)
(* seq events ahead of every run only if wait_for_input_progress timed     *)
(* out, a run finished its timeline, or the emulator is stopping: nothing  *)
(* the bus believes of a run's progress is ahead of the run.               *)
THEOREM LeadIsBounded == Spec => []LeadBound
<1>1. Init => LeadInv
  BY InitLead
<1>2. IInv /\ LeadInv /\ [Next]_vars => LeadInv'
  BY LeadStep DEF IInv
<1>3. LeadInv => LeadBound
  BY DEF LeadInv
<1> QED
  BY <1>1, <1>2, <1>3, Invariance, PTL DEF Spec

(* A run of replay() that recording_done stopped was stopped after the     *)
(* emulator had pushed, for every world port it registered, every frame of *)
(* its queue over one connection.                                          *)
THEOREM HandoffAfterLastPush == Spec => []HandoffAfterPush
<1>1. Init => HandoffInv
  BY InitHandoff
<1>2. (IInv /\ OrderInv) /\ HandoffInv /\ [Next]_vars => HandoffInv'
  BY HandoffStep DEF IInv
<1>3. HandoffInv => HandoffAfterPush
  BY DEF HandoffInv, NotPending, DoneMeansEmpty, HandoffAfterPush
<1> QED
  BY <1>1, <1>2, <1>3, OrderInvariance, PTL DEF Spec
=============================================================================
