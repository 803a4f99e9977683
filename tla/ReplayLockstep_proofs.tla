----------------------- MODULE ReplayLockstep_proofs -----------------------
(***************************************************************************)
(* Why an input is never dispatched early: the inductive invariant behind  *)
(* InLockstep, NoInputSkipped and AtMostOneLate, and the refinement of     *)
(* Lockstep by the session.                                                *)
(*                                                                         *)
(* The chain from the socket to the dispatched input is followed link by   *)
(* link: a thread that is about to broadcast has sent the frame            *)
(* (SentBeforeAck); what was announced was played (AnnouncedPlayed); the   *)
(* acks on a link were announced since its run began, because a run that   *)
(* has not begun has no link (Offline, InFlightAnnounced); what a run took *)
(* for confirmed was announced to it (AckedAnnounced); it has passed no    *)
(* login frame without that (Waited).                                      *)
(***************************************************************************)
EXTENDS ReplayTypes_proofs

SentBeforeAck ==
  /\ \A c \in LoginConns : lpc[c] = "ack" => LHead(c) \in Range(lsent[c])
  /\ \A c \in WorldConns : wpc[c] = "ack" => WHead(c) \in Range(wsent[c])

AnnouncedPlayed == \A r \in Replayers : announced[r] \subseteq Played

Offline ==
  \A r \in Replayers :
    /\ rpc[r] = "off" => link[r] = "down" /\ acked[r] = {} /\ fired[r] = {}
    /\ link[r] = "down" => toReplayer[r] = <<>>

InFlightAnnounced ==
  \A r \in Replayers : \A m \in Range(toReplayer[r]) :
    m.event = "ack" => m.seq \in announced[r]

AckedAnnounced == \A r \in Replayers : acked[r] \subseteq announced[r]

Waited ==
  \A r \in Replayers :
    /\ CtrlSync => \A s \in Seqs :
         MustAck(s) /\ StartIndex <= s /\ s < pos[r] => s \in acked[r]
    /\ rpc[r] = "wait" => MustAck(pos[r])

PastStart == \A r \in Replayers : StartIndex <= pos[r]

LateEnds ==
  \A r \in Replayers : late[r] # {} => Stopped(r) /\ rpc[r] \notin {"paced", "wait"}

ChainInv == SentBeforeAck /\ AnnouncedPlayed /\ Offline /\ InFlightAnnounced /\ AckedAnnounced

LoopInv == Waited /\ PastStart /\ NoInputSkipped /\ LateEnds /\ AtMostOneLate

IInv == ITypeOK /\ ChainInv /\ LoopInv

-----------------------------------------------------------------------------
(* What occurs in a sequence. *)

LEMMA AppendRange ==
  ASSUME NEW T, NEW seq \in Seq(T), NEW e \in T
  PROVE  Range(Append(seq, e)) = Range(seq) \cup {e}
<1>1. /\ Append(seq, e) \in Seq(T)
      /\ Len(Append(seq, e)) = Len(seq) + 1
      /\ \A i \in 1..Len(seq) : Append(seq, e)[i] = seq[i]
      /\ Append(seq, e)[Len(seq) + 1] = e
  BY AppendProperties
<1>2. DOMAIN seq = 1..Len(seq) /\ Len(seq) \in Nat
  BY LenProperties
<1>3. DOMAIN Append(seq, e) = 1..(Len(seq) + 1)
  BY <1>1, LenProperties
<1> QED
  BY <1>1, <1>2, <1>3 DEF Range

LEMMA TailRange ==
  ASSUME NEW T, NEW seq \in Seq(T), seq # <<>>
  PROVE  Range(Tail(seq)) \subseteq Range(seq) /\ Head(seq) \in Range(seq)
<1>1. /\ Head(seq) = seq[1]
      /\ Tail(seq) \in Seq(T)
      /\ Len(Tail(seq)) = Len(seq) - 1
      /\ \A i \in 1..Len(Tail(seq)) : Tail(seq)[i] = seq[i + 1]
  BY HeadTailProperties
<1>2. DOMAIN seq = 1..Len(seq) /\ Len(seq) \in Nat /\ Len(seq) # 0
  BY LenProperties, EmptySeq
<1>3. DOMAIN Tail(seq) = 1..(Len(seq) - 1)
  BY <1>1, LenProperties
<1> QED
  BY <1>1, <1>2, <1>3 DEF Range

LEMMA EmptyRange == Range(<<>>) = {}
BY DEF Range

LEMMA LoginPlayed ==
  ASSUME EmuTypeOK, NEW c \in LoginConns, NEW s \in Seqs,
         lsent' = [lsent EXCEPT ![c] = Append(@, s)], wsent' = wsent
  PROVE  /\ Played' = Played \cup {s}
         /\ Range(lsent'[c]) = Range(lsent[c]) \cup {s}
         /\ \A d \in LoginConns : d # c => lsent'[d] = lsent[d]
<1>1. lsent \in [LoginConns -> Seq(Seqs)]
  BY DEF EmuTypeOK
<1>2. Range(lsent'[c]) = Range(lsent[c]) \cup {s}
  BY <1>1, AppendRange
<1>3. \A d \in LoginConns : d # c => lsent'[d] = lsent[d]
  BY <1>1
<1>4. Played' = Played \cup {s}
  BY <1>2, <1>3 DEF Played
<1> QED
  BY <1>2, <1>3, <1>4

LEMMA WorldPlayed ==
  ASSUME EmuTypeOK, NEW c \in WorldConns, NEW s \in Seqs,
         wsent' = [wsent EXCEPT ![c] = Append(@, s)], lsent' = lsent
  PROVE  /\ Played' = Played \cup {s}
         /\ Range(wsent'[c]) = Range(wsent[c]) \cup {s}
         /\ \A d \in WorldConns : d # c => wsent'[d] = wsent[d]
<1>1. wsent \in [WorldConns -> Seq(Seqs)]
  BY DEF EmuTypeOK
<1>2. Range(wsent'[c]) = Range(wsent[c]) \cup {s}
  BY <1>1, AppendRange
<1>3. \A d \in WorldConns : d # c => wsent'[d] = wsent[d]
  BY <1>1
<1>4. Played' = Played \cup {s}
  BY <1>2, <1>3 DEF Played
<1> QED
  BY <1>2, <1>3, <1>4

LEMMA NothingPlayed ==
  ASSUME lsent' = lsent, wsent' = wsent
  PROVE  Played' = Played
BY DEF Played

-----------------------------------------------------------------------------
(* What a step of the emulator does, as the replay sees it. *)

Plays(s) == Played' = Played \cup {s} /\ UNCHANGED <<toReplayer, announced>>

Announces(s) == s \in Played /\ Played' = Played /\ BroadcastAck(s)

Matches(s) == Played' = Played \cup {s} /\ BroadcastAck(s)

Silent ==
  /\ Played' = Played
  /\ announced' = announced
  /\ \/ toReplayer' = toReplayer
     \/ \E m \in Msg : m.event # "ack" /\ Broadcast(m)

EmuEffect ==
  /\ link' = link
  /\ Silent \/ \E s \in Seqs : Plays(s) \/ Announces(s) \/ Matches(s)

LEMMA LoginEffect ==
  ASSUME BusTypeOK, EmuTypeOK, HeadOK, SentBeforeAck, NEW c \in LoginConns,
         LoginConnect(c) \/ LoginClose(c) \/ LoginThread(c)
           \/ \E op \in Opcodes : LoginMatch(c, op) \/ LoginDesync(c, op)
  PROVE  EmuEffect /\ SentBeforeAck'
<1>a. \A d \in LoginConns, k \in 1..(N + 1) : FlushOrRead(d, k) # "ack"
  BY DEF FlushOrRead
<1>b. lpc \in [LoginConns -> {"idle", "flush", "ack", "read", "closed"}]
      /\ lcur \in [LoginConns -> 1..(N + 1)]
  BY DEF EmuTypeOK
<1>1. CASE LoginConnect(c) \/ FlushSkip(c) \/ FlushFail(c) \/ LoginClose(c)
  <2>1. lsent' = lsent /\ wsent' = wsent /\ UNCHANGED busVars
    BY <1>1 DEF LoginConnect, FlushSkip, FlushFail, LoginClose, worldVars
  <2>2. EmuEffect
    BY <2>1, NothingPlayed DEF EmuEffect, Silent, busVars
  <2>3. /\ lpc'[c] # "ack"
        /\ \A d \in LoginConns : d # c => lpc'[d] = lpc[d] /\ lcur'[d] = lcur[d]
        /\ UNCHANGED <<wpc, wcur>>
    BY <1>1, <1>b DEF LoginConnect, FlushSkip, FlushFail, LoginClose, worldVars, FlushOrRead
  <2> QED
    BY <2>1, <2>2, <2>3 DEF SentBeforeAck, LHead, WHead
<1>2. CASE FlushSend(c)
  <2>1. LHead(c) \in Seqs
    BY <1>2, LoginHead DEF FlushSend
  <2>2. /\ Played' = Played \cup {LHead(c)}
        /\ Range(lsent'[c]) = Range(lsent[c]) \cup {LHead(c)}
        /\ \A d \in LoginConns : d # c => lsent'[d] = lsent[d]
    BY <1>2, <2>1, LoginPlayed DEF FlushSend, worldVars
  <2>3. EmuEffect
    BY <1>2, <2>1, <2>2 DEF FlushSend, EmuEffect, Plays, busVars
  <2>4. lcur' = lcur /\ \A d \in LoginConns : d # c => lpc'[d] = lpc[d]
    BY <1>2, <1>b DEF FlushSend
  <2>5. wpc' = wpc /\ wcur' = wcur /\ wsent' = wsent
    BY <1>2 DEF FlushSend, worldVars
  <2> QED
    BY <2>2, <2>3, <2>4, <2>5 DEF SentBeforeAck, LHead, WHead
<1>3. CASE FlushAck(c)
  <2>1. LHead(c) \in Seqs /\ LHead(c) \in Range(lsent[c])
    BY <1>3, LoginHead DEF FlushAck, SentBeforeAck
  <2>2. LHead(c) \in Played
    BY <2>1 DEF Played
  <2>3. lsent' = lsent /\ wsent' = wsent /\ link' = link /\ wpc' = wpc /\ wcur' = wcur
    BY <1>3 DEF FlushAck, busRest, worldVars
  <2>4. EmuEffect
    BY <1>3, <2>1, <2>2, <2>3, NothingPlayed DEF FlushAck, EmuEffect, Announces
  <2>5. /\ lpc'[c] # "ack"
        /\ \A d \in LoginConns : d # c => lpc'[d] = lpc[d] /\ lcur'[d] = lcur[d]
    BY <1>3, <1>b DEF FlushAck, FlushOrRead
  <2> QED
    BY <2>3, <2>4, <2>5 DEF SentBeforeAck, LHead, WHead
<1>4. ASSUME NEW op \in Opcodes, LoginMatch(c, op) PROVE EmuEffect /\ SentBeforeAck'
  <2>1. NextC2S(c) \in Seqs
    BY <1>4 DEF LoginMatch
  <2>2. /\ Played' = Played \cup {NextC2S(c)}
        /\ \A d \in LoginConns : d # c => lsent'[d] = lsent[d]
    BY <1>4, <2>1, LoginPlayed DEF LoginMatch, worldVars
  <2>3. wsent' = wsent /\ link' = link /\ wpc' = wpc /\ wcur' = wcur
    BY <1>4 DEF LoginMatch, busRest, worldVars
  <2>4. EmuEffect
    BY <1>4, <2>1, <2>2, <2>3 DEF LoginMatch, EmuEffect, Matches
  <2>5. /\ lpc'[c] # "ack"
        /\ \A d \in LoginConns : d # c => lpc'[d] = lpc[d] /\ lcur'[d] = lcur[d]
    BY <1>4, <1>b DEF LoginMatch, FlushOrRead
  <2> QED
    BY <2>2, <2>3, <2>4, <2>5 DEF SentBeforeAck, LHead, WHead
<1>5. ASSUME NEW op \in Opcodes, LoginDesync(c, op) PROVE EmuEffect /\ SentBeforeAck'
  <2>1. Desync(NextC2S(c)) \in Msg /\ Desync(NextC2S(c)).event # "ack"
    BY <1>5 DEF LoginDesync, Desync, Msg
  <2>2. /\ lsent' = lsent /\ wsent' = wsent /\ link' = link /\ announced' = announced
        /\ lcur' = lcur /\ wpc' = wpc /\ wcur' = wcur
    BY <1>5 DEF LoginDesync, busRest, worldVars
  <2>3. Broadcast(Desync(NextC2S(c)))
    BY <1>5 DEF LoginDesync
  <2>4. EmuEffect
    BY <2>1, <2>2, <2>3, NothingPlayed DEF EmuEffect, Silent
  <2>5. lpc'[c] # "ack" /\ \A d \in LoginConns : d # c => lpc'[d] = lpc[d]
    BY <1>5, <1>b DEF LoginDesync
  <2> QED
    BY <2>2, <2>4, <2>5 DEF SentBeforeAck, LHead, WHead
<1> QED
  BY <1>1, <1>2, <1>3, <1>4, <1>5 DEF LoginThread

LEMMA WorldEffect ==
  ASSUME BusTypeOK, EmuTypeOK, HeadOK, SentBeforeAck, NEW c \in WorldConns,
         WorldConnect(c) \/ WorldClientCloses(c) \/ PushThread(c)
  PROVE  EmuEffect /\ SentBeforeAck'
<1>b. wpc \in [WorldConns -> {"idle", "top", "gate", "send", "ack", "announce",
                              "done", "closed"}]
      /\ wcur \in [WorldConns -> 1..(N + 1)]
  BY DEF EmuTypeOK
<1>1. CASE \/ WorldConnect(c) \/ PushTop(c) \/ PushGate(c) \/ PushGateTimeout(c)
           \/ PushSkip(c) \/ PushFail(c) \/ PushFinish(c)
  <2>1. /\ lsent' = lsent /\ wsent' = wsent /\ link' = link /\ announced' = announced
        /\ toReplayer' = toReplayer /\ lpc' = lpc /\ lcur' = lcur
    BY <1>1 DEF WorldConnect, PushTop, PushGate, PushGateTimeout, PushSkip, PushFail,
                PushFinish, busVars, busRest, loginVars
  <2>2. EmuEffect
    BY <2>1, NothingPlayed DEF EmuEffect, Silent
  <2>3. /\ wpc'[c] # "ack"
        /\ \A d \in WorldConns : d # c => wpc'[d] = wpc[d] /\ wcur'[d] = wcur[d]
    BY <1>1, <1>b DEF WorldConnect, PushTop, PushGate, PushGateTimeout, PushSkip,
                      PushFail, PushFinish
  <2> QED
    BY <2>1, <2>2, <2>3 DEF SentBeforeAck, LHead, WHead
<1>2. CASE WorldClientCloses(c)
  <2>1. /\ lsent' = lsent /\ wsent' = wsent /\ UNCHANGED busVars /\ lpc' = lpc
        /\ lcur' = lcur /\ wpc' = wpc /\ wcur' = wcur
    BY <1>2 DEF WorldClientCloses, loginVars
  <2>2. EmuEffect
    BY <2>1, NothingPlayed DEF EmuEffect, Silent, busVars
  <2> QED
    BY <2>1, <2>2 DEF SentBeforeAck, LHead, WHead
<1>3. CASE PushSend(c)
  <2>1. WHead(c) \in Seqs
    BY <1>3, WorldHeadSeq DEF PushSend
  <2>2. /\ Played' = Played \cup {WHead(c)}
        /\ Range(wsent'[c]) = Range(wsent[c]) \cup {WHead(c)}
        /\ \A d \in WorldConns : d # c => wsent'[d] = wsent[d]
    BY <1>3, <2>1, WorldPlayed DEF PushSend, loginVars
  <2>3. EmuEffect
    BY <1>3, <2>1, <2>2 DEF PushSend, EmuEffect, Plays, busVars
  <2>4. wcur' = wcur /\ \A d \in WorldConns : d # c => wpc'[d] = wpc[d]
    BY <1>3, <1>b DEF PushSend
  <2>5. lpc' = lpc /\ lcur' = lcur /\ lsent' = lsent
    BY <1>3 DEF PushSend, loginVars
  <2> QED
    BY <2>2, <2>3, <2>4, <2>5 DEF SentBeforeAck, LHead, WHead
<1>4. CASE PushAck(c)
  <2>1. WHead(c) \in Seqs /\ WHead(c) \in Range(wsent[c])
    BY <1>4, WorldHeadSeq DEF PushAck, SentBeforeAck
  <2>2. WHead(c) \in Played
    BY <2>1 DEF Played
  <2>3. /\ lsent' = lsent /\ wsent' = wsent /\ link' = link
        /\ lpc' = lpc /\ lcur' = lcur
    BY <1>4 DEF PushAck, busRest, loginVars
  <2>4. EmuEffect
    BY <1>4, <2>1, <2>2, <2>3, NothingPlayed DEF PushAck, EmuEffect, Announces
  <2>5. /\ wpc'[c] # "ack"
        /\ \A d \in WorldConns : d # c => wpc'[d] = wpc[d] /\ wcur'[d] = wcur[d]
    BY <1>4, <1>b DEF PushAck
  <2> QED
    BY <2>3, <2>4, <2>5 DEF SentBeforeAck, LHead, WHead
<1>5. CASE PushAnnounce(c)
  <2>1. RecordingDone \in Msg /\ RecordingDone.event # "ack"
    BY DEF RecordingDone, Msg
  <2>2. /\ lsent' = lsent /\ wsent' = wsent /\ link' = link /\ announced' = announced
        /\ lpc' = lpc /\ lcur' = lcur /\ wcur' = wcur
    BY <1>5 DEF PushAnnounce, busRest, loginVars
  <2>3. Broadcast(RecordingDone)
    BY <1>5 DEF PushAnnounce
  <2>4. EmuEffect
    BY <2>1, <2>2, <2>3, NothingPlayed DEF EmuEffect, Silent
  <2>5. wpc'[c] # "ack" /\ \A d \in WorldConns : d # c => wpc'[d] = wpc[d]
    BY <1>5, <1>b DEF PushAnnounce
  <2> QED
    BY <2>2, <2>4, <2>5 DEF SentBeforeAck, LHead, WHead
<1> QED
  BY <1>1, <1>2, <1>3, <1>4, <1>5 DEF PushThread

LEMMA EmuStepEffect ==
  ASSUME ITypeOK, SentBeforeAck, EmuNext
  PROVE  EmuEffect /\ SentBeforeAck'
BY LoginEffect, WorldEffect DEF EmuNext, GameClient, ITypeOK, TypeOK

-----------------------------------------------------------------------------
(* The chain from the socket to what a run takes for confirmed. *)

LEMMA InitChain == Init => ChainInv
<1> SUFFICES ASSUME Init PROVE ChainInv
  OBVIOUS
<1>1. SentBeforeAck
  BY DEF Init, EmuInit, SentBeforeAck
<1>2. AnnouncedPlayed /\ AckedAnnounced
  BY DEF Init, BusInit, ReplayerInit, AnnouncedPlayed, AckedAnnounced
<1>3. Offline
  BY DEF Init, BusInit, ReplayerInit, Offline
<1>4. InFlightAnnounced
  BY EmptyRange DEF Init, BusInit, InFlightAnnounced
<1> QED
  BY <1>1, <1>2, <1>3, <1>4 DEF ChainInv

(* A broadcast puts one more message on some links, never on one that is   *)
(* down.                                                                   *)
LEMMA BroadcastEffect ==
  ASSUME BusTypeOK, NEW m \in Msg, Broadcast(m)
  PROVE  \A r \in Replayers :
           /\ Range(toReplayer'[r]) \subseteq Range(toReplayer[r]) \cup {m}
           /\ link[r] = "down" => toReplayer'[r] = toReplayer[r]
<1> SUFFICES ASSUME NEW r \in Replayers
             PROVE  /\ Range(toReplayer'[r]) \subseteq Range(toReplayer[r]) \cup {m}
                    /\ link[r] = "down" => toReplayer'[r] = toReplayer[r]
  OBVIOUS
<1>1. toReplayer[r] \in Seq(Msg)
  BY DEF BusTypeOK
<1>2. Range(Append(toReplayer[r], m)) = Range(toReplayer[r]) \cup {m}
  BY <1>1, AppendRange
<1>3. toReplayer'[r] = IF link[r] = "up" THEN Append(toReplayer[r], m) ELSE toReplayer[r]
  BY DEF Broadcast
<1> QED
  BY <1>2, <1>3

LEMMA EmuStepChain ==
  ASSUME ITypeOK, ChainInv, EmuNext, UNCHANGED replayerVars
  PROVE  ChainInv'
<1>1. EmuEffect /\ SentBeforeAck'
  BY EmuStepEffect DEF ChainInv
<1>2. BusTypeOK
  BY DEF ITypeOK, TypeOK
<1>3. rpc' = rpc /\ acked' = acked /\ fired' = fired /\ link' = link
  BY <1>1 DEF replayerVars, EmuEffect
<1>4. CASE Silent
  <2>1. \A r \in Replayers :
          /\ link[r] = "down" => toReplayer'[r] = toReplayer[r]
          /\ \A m \in Range(toReplayer'[r]) :
               m \in Range(toReplayer[r]) \/ m.event # "ack"
    BY <1>2, <1>4, BroadcastEffect DEF Silent
  <2> QED
    BY <1>1, <1>3, <1>4, <2>1 DEF ChainInv, Silent, AnnouncedPlayed, Offline,
                                 InFlightAnnounced, AckedAnnounced
<1>5. ASSUME NEW s \in Seqs, Plays(s) PROVE ChainInv'
  BY <1>1, <1>3, <1>5 DEF ChainInv, Plays, AnnouncedPlayed, Offline,
                         InFlightAnnounced, AckedAnnounced
<1>6. ASSUME NEW s \in Seqs, Announces(s) \/ Matches(s) PROVE ChainInv'
  <2>1. Ack(s) \in Msg /\ Ack(s).seq = s
    BY DEF Ack, Msg
  <2>2. Broadcast(Ack(s))
    BY <1>6 DEF Announces, Matches, BroadcastAck
  <2>3. \A r \in Replayers :
          /\ link[r] = "down" => toReplayer'[r] = toReplayer[r]
          /\ Range(toReplayer'[r]) \subseteq Range(toReplayer[r]) \cup {Ack(s)}
    BY <1>2, <2>1, <2>2, BroadcastEffect
  <2>4. \A r \in Replayers : announced'[r] = announced[r] \cup {s}
    BY <1>6 DEF Announces, Matches, BroadcastAck
  <2>5. s \in Played' /\ Played \subseteq Played'
    BY <1>6 DEF Announces, Matches
  <2>6. AnnouncedPlayed' /\ AckedAnnounced'
    BY <1>3, <2>4, <2>5 DEF ChainInv, AnnouncedPlayed, AckedAnnounced
  <2>7. Offline'
    BY <1>3, <2>3 DEF ChainInv, Offline
  <2>8. InFlightAnnounced'
    BY <2>1, <2>3, <2>4 DEF ChainInv, InFlightAnnounced
  <2> QED
    BY <1>1, <2>6, <2>7, <2>8 DEF ChainInv
<1> QED
  BY <1>1, <1>4, <1>5, <1>6 DEF EmuEffect

LEMMA BusStepChain ==
  ASSUME ITypeOK, ChainInv, BusNext, UNCHANGED <<emuVars, replayerVars>>
  PROVE  ChainInv'
<1>1. rpc' = rpc /\ acked' = acked /\ fired' = fired
  BY DEF replayerVars
<1>2. SentBeforeAck'
  BY DEF emuVars, ChainInv, SentBeforeAck, LHead, WHead
<1>3. Played' = Played
  BY DEF emuVars, Played
<1>4. announced' = announced
  BY DEF BusNext, Accept, ReadProgress, ReadInputDone, Drop, Sigint
<1>5. AnnouncedPlayed' /\ AckedAnnounced'
  BY <1>1, <1>3, <1>4 DEF ChainInv, AnnouncedPlayed, AckedAnnounced
<1>6. ASSUME NEW q \in Replayers, Drop(q) PROVE Offline' /\ InFlightAnnounced'
  <2>1. link \in [Replayers -> {"down", "backlog", "up"}]
        /\ toReplayer \in [Replayers -> Seq(Msg)]
    BY DEF ITypeOK, TypeOK, BusTypeOK
  <2>2. \A r \in Replayers :
          IF r = q THEN link'[r] = "down" /\ toReplayer'[r] = <<>>
                   ELSE link'[r] = link[r] /\ toReplayer'[r] = toReplayer[r]
    BY <1>6, <2>1 DEF Drop
  <2>3. Offline'
    BY <1>1, <2>2 DEF ChainInv, Offline
  <2>4. InFlightAnnounced'
    BY <1>4, <2>2, EmptyRange DEF ChainInv, InFlightAnnounced
  <2> QED
    BY <2>3, <2>4
<1>7. ASSUME NEW q \in Replayers, Accept(q) PROVE Offline' /\ InFlightAnnounced'
  <2>1. link \in [Replayers -> {"down", "backlog", "up"}]
    BY DEF ITypeOK, TypeOK, BusTypeOK
  <2> QED
    BY <1>1, <1>4, <1>7, <2>1 DEF Accept, ChainInv, Offline, InFlightAnnounced
<1>8. ASSUME Sigint \/ \E q \in Replayers : ReadProgress(q) \/ ReadInputDone(q)
      PROVE  Offline' /\ InFlightAnnounced'
  BY <1>1, <1>4, <1>8 DEF Sigint, ReadProgress, ReadInputDone, ChainInv, Offline,
                         InFlightAnnounced
<1>9. Offline' /\ InFlightAnnounced'
  BY <1>6, <1>7, <1>8 DEF BusNext
<1> QED
  BY <1>2, <1>5, <1>9 DEF ChainInv

LEMMA ReplayerStepChain ==
  ASSUME ITypeOK, ChainInv, NEW r \in Replayers, UNCHANGED emuVars,
         Start(r) \/ ReplayLoop(r) \/ Interrupt(r) \/ Listener(r)
  PROVE  ChainInv'
<1>1. SentBeforeAck'
  BY DEF emuVars, ChainInv, SentBeforeAck, LHead, WHead
<1>2. Played' = Played
  BY DEF emuVars, Played
<1>3. /\ link \in [Replayers -> {"down", "backlog", "up"}]
      /\ toReplayer \in [Replayers -> Seq(Msg)]
      /\ announced \in [Replayers -> SUBSET Seqs]
      /\ rpc \in [Replayers -> {"off", "top", "paced", "wait", "ended"}]
      /\ acked \in [Replayers -> SUBSET Seqs]
      /\ fired \in [Replayers -> SUBSET Seqs]
  BY DEF ITypeOK, TypeOK, BusTypeOK, ReplayerTypeOK
<1>4. CASE Start(r)
  <2>1. /\ rpc[r] = "off" /\ rpc'[r] # "off"
        /\ announced'[r] = {}
        /\ \A q \in Replayers : q # r => announced'[q] = announced[q] /\ rpc'[q] = rpc[q]
        /\ UNCHANGED <<link, toReplayer, acked, fired>>
    BY <1>3, <1>4 DEF Start
  <2>2. acked[r] = {} /\ toReplayer[r] = <<>>
    BY <2>1 DEF ChainInv, Offline
  <2>3. AnnouncedPlayed' /\ AckedAnnounced'
    BY <1>2, <2>1, <2>2 DEF ChainInv, AnnouncedPlayed, AckedAnnounced
  <2>4. Offline'
    BY <2>1 DEF ChainInv, Offline
  <2>5. InFlightAnnounced'
    BY <2>1, <2>2, EmptyRange DEF ChainInv, InFlightAnnounced
  <2> QED
    BY <1>1, <2>3, <2>4, <2>5 DEF ChainInv
<1>5. CASE Deliver(r)
  <2> DEFINE m == Head(toReplayer[r])
  <2>1. toReplayer[r] # <<>> /\ rpc[r] # "off"
    BY <1>5 DEF Deliver, Running
  <2>2. Range(Tail(toReplayer[r])) \subseteq Range(toReplayer[r])
        /\ m \in Range(toReplayer[r])
    BY <1>3, <2>1, TailRange
  <2>3. UNCHANGED <<link, announced, rpc, fired>>
    BY <1>5 DEF Deliver
  <2>4. \A q \in Replayers :
          toReplayer'[q] = IF q = r THEN Tail(toReplayer[r]) ELSE toReplayer[q]
    BY <1>3, <1>5 DEF Deliver
  <2>5. \A q \in Replayers :
          \/ acked'[q] = acked[q]
          \/ q = r /\ m.event = "ack" /\ acked'[q] = acked[q] \cup {m.seq}
    <3>1. OnAck(r, m)
      BY <1>5 DEF Deliver
    <3> HIDE DEF m
    <3> QED
      BY <1>3, <3>1 DEF OnAck
  <2> HIDE DEF m
  <2>6. AnnouncedPlayed'
    BY <1>2, <2>3 DEF ChainInv, AnnouncedPlayed
  <2>7. AckedAnnounced'
    BY <2>2, <2>3, <2>5 DEF ChainInv, AckedAnnounced, InFlightAnnounced
  <2>8. Offline'
    BY <2>1, <2>3, <2>4, <2>5 DEF ChainInv, Offline
  <2>9. InFlightAnnounced'
    BY <2>2, <2>3, <2>4 DEF ChainInv, InFlightAnnounced
  <2> QED
    BY <1>1, <2>6, <2>7, <2>8, <2>9 DEF ChainInv
<1>6. CASE Connect(r) \/ Disconnect(r)
  <2>1. UNCHANGED <<announced, rpc, acked, fired>>
    BY <1>6 DEF Connect, Disconnect, replayerVars
  <2>2. AnnouncedPlayed' /\ AckedAnnounced'
    BY <1>2, <2>1 DEF ChainInv, AnnouncedPlayed, AckedAnnounced
  <2>3. Offline'
    BY <1>3, <1>6, <2>1 DEF Connect, Disconnect, ChainInv, Offline, Running
  <2>4. \A q \in Replayers : toReplayer'[q] = toReplayer[q] \/ toReplayer'[q] = <<>>
    BY <1>3, <1>6 DEF Connect, Disconnect
  <2>5. InFlightAnnounced'
    BY <2>1, <2>4, EmptyRange DEF ChainInv, InFlightAnnounced
  <2> QED
    BY <1>1, <2>2, <2>3, <2>5 DEF ChainInv
<1>7. CASE ReplayLoop(r) \/ Interrupt(r)
  <2>1. UNCHANGED <<link, toReplayer, announced, acked>>
    BY <1>7 DEF ReplayLoop, Interrupt, LeaveStopped, Advance, AwaitAck, PassOver,
                Confirmed, Halt, Fire, HaltWindow, Finish, busVars
  <2>2. /\ rpc[r] # "off" /\ rpc'[r] # "off"
        /\ \A q \in Replayers : q # r => rpc'[q] = rpc[q] /\ fired'[q] = fired[q]
    BY <1>3, <1>7 DEF ReplayLoop, Interrupt, LeaveStopped, Advance, AwaitAck, PassOver,
                Confirmed, Halt, Fire, HaltWindow, Finish, NextEvent, Running
  <2> QED
    BY <1>1, <1>2, <2>1, <2>2 DEF ChainInv, AnnouncedPlayed, AckedAnnounced, Offline,
                                 InFlightAnnounced
<1> QED
  BY <1>4, <1>5, <1>6, <1>7 DEF Listener

-----------------------------------------------------------------------------
(* The loop of a run. *)

LEMMA InitLoop == Init => LoopInv
<1> SUFFICES ASSUME Init PROVE LoopInv
  OBVIOUS
<1>1. \A r \in Replayers : pos[r] = StartIndex /\ rpc[r] = "off" /\ late[r] = {}
                              /\ fired[r] = {}
  BY DEF Init, ReplayerInit
<1>2. StartIndex \in Int /\ \A s \in Seqs : s \in Int
  BY StartInRange DEF Seqs
<1>3. InputSeqs \subseteq Seqs
  BY DEF InputSeqs
<1>4. Waited
  BY <1>1, <1>2 DEF Waited
<1>5. NoInputSkipped
  BY <1>1, <1>2, <1>3 DEF NoInputSkipped
<1> QED
  BY <1>1, <1>2, <1>4, <1>5 DEF LoopInv, PastStart, LateEnds, AtMostOneLate

(* What another part of the session does, or another run, is no concern of *)
(* a run's loop.                                                           *)
LEMMA LoopUnchanged ==
  ASSUME LoopInv, UNCHANGED replayerVars
  PROVE  LoopInv'
BY DEF LoopInv, replayerVars, Waited, PastStart, NoInputSkipped, LateEnds,
       AtMostOneLate, Stopped

LEMMA LoopStep ==
  ASSUME ITypeOK, LoopInv, NEW r \in Replayers,
         Start(r) \/ ReplayLoop(r) \/ Interrupt(r) \/ Listener(r)
  PROVE  LoopInv'
<1>1. /\ rpc \in [Replayers -> {"off", "top", "paced", "wait", "ended"}]
      /\ pos \in [Replayers -> 1..(N + 1)]
      /\ stopBy \in [Replayers -> SUBSET Reasons]
      /\ acked \in [Replayers -> SUBSET Seqs]
      /\ fired \in [Replayers -> SUBSET Seqs]
      /\ late \in [Replayers -> SUBSET Seqs]
  BY DEF ITypeOK, TypeOK, ReplayerTypeOK
<1>2. StartIndex \in Int /\ \A s \in Seqs : s \in Int
  BY StartInRange DEF Seqs
<1>3. InputSeqs \subseteq Seqs
  BY DEF InputSeqs
<1>4. ASSUME UNCHANGED <<pos, fired, late>>,
             \A q \in Replayers : acked[q] \subseteq acked'[q] /\ stopBy[q] \subseteq stopBy'[q],
             \A q \in Replayers : rpc'[q] # rpc[q] =>
               /\ rpc'[q] \in {"paced", "wait"} => ~Stopped(q) \/ rpc[q] = "paced"
               /\ rpc'[q] = "wait" => MustAck(pos[q])
      PROVE  LoopInv'
  <2>1. Waited'
    BY <1>4 DEF LoopInv, Waited
  <2>2. PastStart' /\ NoInputSkipped' /\ AtMostOneLate'
    BY <1>4 DEF LoopInv, PastStart, NoInputSkipped, AtMostOneLate
  <2>3. LateEnds'
    BY <1>4 DEF LoopInv, LateEnds, Stopped
  <2> QED
    BY <2>1, <2>2, <2>3 DEF LoopInv
<1>5. CASE \/ Start(r) \/ LeaveStopped(r) \/ Advance(r) \/ AwaitAck(r) \/ Halt(r)
           \/ HaltWindow(r) \/ Finish(r) \/ Interrupt(r) \/ Connect(r) \/ Disconnect(r)
  <2>1. UNCHANGED <<pos, fired, late, acked>>
    BY <1>5 DEF Start, LeaveStopped, Advance, AwaitAck, Halt, HaltWindow, Finish,
                Interrupt, Connect, Disconnect, replayerVars
  <2>2. \A q \in Replayers : stopBy[q] \subseteq stopBy'[q]
    BY <1>1, <1>5 DEF Start, LeaveStopped, Advance, AwaitAck, Halt, HaltWindow, Finish,
                Interrupt, Connect, Disconnect, replayerVars
  <2>3. \A q \in Replayers : rpc'[q] # rpc[q] =>
          /\ rpc'[q] \in {"paced", "wait"} => ~Stopped(q) \/ rpc[q] = "paced"
          /\ rpc'[q] = "wait" => MustAck(pos[q])
    BY <1>1, <1>5 DEF Start, LeaveStopped, Advance, AwaitAck, Halt, HaltWindow, Finish,
                Interrupt, Connect, Disconnect, replayerVars
  <2> QED
    BY <1>4, <2>1, <2>2, <2>3
<1>6. CASE Deliver(r)
  <2> DEFINE m == Head(toReplayer[r])
  <2>1. OnAck(r, m) /\ UNCHANGED <<pos, fired, late, rpc>>
    BY <1>6 DEF Deliver
  <2> HIDE DEF m
  <2>2. \A q \in Replayers : acked[q] \subseteq acked'[q]
    BY <1>1, <2>1 DEF OnAck
  <2>3. \A q \in Replayers : stopBy[q] \subseteq stopBy'[q]
    BY <1>1, <2>1 DEF OnAck
  <2> QED
    BY <1>4, <2>1, <2>2, <2>3
<1>7. CASE PassOver(r) \/ Confirmed(r) \/ Fire(r)
  <2>1. /\ pos[r] \in Seqs
        /\ pos'[r] = pos[r] + 1 /\ rpc'[r] = "top"
        /\ rpc[r] \in {"paced", "wait"}
        /\ \A q \in Replayers : q # r => pos'[q] = pos[q] /\ rpc'[q] = rpc[q]
        /\ UNCHANGED <<acked, stopBy>>
    BY <1>1, <1>7 DEF PassOver, Confirmed, Fire, NextEvent, ITypeOK, PlaceOK
  <2>2. CtrlSync /\ MustAck(pos[r]) => pos[r] \in acked[r]
    BY <1>7 DEF PassOver, Confirmed, Fire, MustAck, InputSeqs, IsNet, IsInput
  <2>3. Waited'
    <3>1. ASSUME NEW s \in Seqs, CtrlSync, MustAck(s), StartIndex <= s, s < pos'[r]
          PROVE  s \in acked'[r]
      <4>1. s < pos[r] \/ s = pos[r]
        BY <1>2, <2>1, <3>1
      <4> QED
        BY <2>1, <2>2, <3>1, <4>1 DEF LoopInv, Waited
    <3> QED
      BY <2>1, <3>1 DEF LoopInv, Waited
  <2>4. PastStart'
    BY <1>2, <2>1 DEF LoopInv, PastStart
  <2>5. late[r] = {}
    BY <2>1 DEF LoopInv, LateEnds
  <2>6. NoInputSkipped'
    <3>1. StartIndex <= pos[r]
      BY DEF LoopInv, PastStart
    <3>2. \A q \in Replayers : q # r => fired'[q] = fired[q]
      BY <1>1, <1>7 DEF PassOver, Confirmed, Fire
    <3>3. fired'[r] = fired[r] \cup ({pos[r]} \cap InputSeqs)
      <4>1. CASE Fire(r)
        BY <1>1, <4>1 DEF Fire
      <4>2. CASE PassOver(r)
        BY <4>2 DEF PassOver
      <4>3. CASE Confirmed(r)
        <5>1. MustAck(pos[r])
          BY <4>3 DEF Confirmed, LoopInv, Waited
        <5>2. pos[r] \notin InputSeqs
          BY <5>1 DEF MustAck, InputSeqs, IsNet, IsInput
        <5> QED
          BY <4>3, <5>2 DEF Confirmed
      <4> QED
        BY <1>7, <4>1, <4>2, <4>3
    <3>4. \A i \in InputSeqs : i < pos'[r] <=> i < pos[r] \/ i = pos[r]
      BY <1>2, <1>3, <2>1
    <3>5. fired'[r] = {i \in InputSeqs : StartIndex <= i /\ i < pos'[r]}
      BY <3>1, <3>3, <3>4 DEF LoopInv, NoInputSkipped
    <3> QED
      BY <2>1, <3>2, <3>5 DEF LoopInv, NoInputSkipped
  <2>7. LateEnds' /\ AtMostOneLate'
    <3>1. \A q \in Replayers : q # r => late'[q] = late[q]
      BY <1>1, <1>7 DEF PassOver, Confirmed, Fire
    <3>2. late'[r] = {} \/ (Stopped(r) /\ late'[r] = {pos[r]})
      BY <1>1, <1>7, <2>5 DEF PassOver, Confirmed, Fire
    <3> QED
      BY <2>1, <3>1, <3>2 DEF LoopInv, LateEnds, AtMostOneLate, Stopped
  <2> QED
    BY <2>3, <2>4, <2>6, <2>7 DEF LoopInv
<1> QED
  BY <1>5, <1>6, <1>7 DEF ReplayLoop, Listener

-----------------------------------------------------------------------------
LEMMA InitInv == Init => IInv
BY InitType, InitChain, InitLoop DEF IInv

LEMMA StepInv == IInv /\ [Next]_vars => IInv'
<1> SUFFICES ASSUME IInv, [Next]_vars PROVE IInv'
  OBVIOUS
<1>1. ITypeOK'
  BY StepType DEF IInv
<1>2. CASE BusNext /\ UNCHANGED <<emuVars, replayerVars>>
  BY <1>1, <1>2, BusStepChain, LoopUnchanged DEF IInv
<1>3. CASE EmuNext /\ UNCHANGED replayerVars
  BY <1>1, <1>3, EmuStepChain, LoopUnchanged DEF IInv
<1>4. CASE ReplayerNext /\ UNCHANGED emuVars
  BY <1>1, <1>4, ReplayerStepChain, LoopStep DEF IInv, ReplayerNext
<1>5. CASE UNCHANGED vars
  <2>1. UNCHANGED busVars /\ UNCHANGED emuVars /\ UNCHANGED replayerVars
    BY <1>5 DEF vars
  <2>2. LoopInv'
    BY <2>1, LoopUnchanged DEF IInv
  <2>3. ChainInv'
    BY <2>1 DEF IInv, ChainInv, SentBeforeAck, AnnouncedPlayed, Offline,
                InFlightAnnounced, AckedAnnounced, Played, LHead, WHead,
                busVars, emuVars, replayerVars
  <2> QED
    BY <1>1, <2>2, <2>3 DEF IInv
<1> QED
  BY <1>2, <1>3, <1>4, <1>5 DEF Next

THEOREM Invariance == Spec => []IInv
<1>1. Init => IInv
  BY InitInv
<1>2. IInv /\ [Next]_vars => IInv'
  BY StepInv
<1> QED
  BY <1>1, <1>2, PTL DEF Spec

(* Lockstep: with the control bus in use, every input a run of replay()    *)
(* has dispatched comes after login frames that a connection of the        *)
(* emulator has sent or matched and that were announced during that run.   *)
THEOREM LockstepHolds == Spec => []InLockstep
<1>1. IInv => InLockstep
  <2> SUFFICES ASSUME IInv, CtrlSync, NEW r \in Replayers, NEW i \in fired[r],
                      NEW s \in Seqs, MustAck(s), StartIndex <= s, s < i
               PROVE  s \in Played /\ s \in announced[r]
    BY DEF InLockstep
  <2>1. i \in Seqs /\ i < pos[r]
    BY DEF IInv, LoopInv, NoInputSkipped, InputSeqs
  <2>2. pos[r] \in 1..(N + 1)
    BY DEF IInv, ITypeOK, TypeOK, ReplayerTypeOK
  <2>3. s < pos[r]
    BY <2>1, <2>2 DEF Seqs
  <2>4. s \in acked[r]
    BY <2>3 DEF IInv, LoopInv, Waited
  <2> QED
    BY <2>4 DEF IInv, ChainInv, AckedAnnounced, AnnouncedPlayed
<1> QED
  BY <1>1, Invariance, PTL

(* The loop of replay() dispatches every input between the start and its   *)
(* place in the timeline, and nothing else.                                *)
THEOREM NoInputIsSkipped == Spec => []NoInputSkipped
<1>1. IInv => NoInputSkipped
  BY DEF IInv, LoopInv
<1> QED
  BY <1>1, Invariance, PTL

(* After stop_flag is set, replay() dispatches at most one more input: the *)
(* one it was already waiting to time.                                     *)
THEOREM OneLateAtMost == Spec => []AtMostOneLate
<1>1. IInv => AtMostOneLate
  BY DEF IInv, LoopInv
<1> QED
  BY <1>1, Invariance, PTL

-----------------------------------------------------------------------------
(* The refinement. *)

LEMMA InitRefines == Init => L!Init
<1> SUFFICES ASSUME Init PROVE L!Init
  OBVIOUS
<1>1. Played = {}
  BY EmptyRange DEF Init, EmuInit, Played
<1> QED
  BY <1>1 DEF L!Init, Init, BusInit, ReplayerInit

LEMMA EmuStepRefines ==
  ASSUME IInv, EmuNext, UNCHANGED replayerVars
  PROVE  [L!Next]_L!vars
<1>1. EmuEffect
  BY EmuStepEffect DEF IInv, ChainInv
<1>2. acked' = acked /\ fired' = fired
  BY DEF replayerVars
<1>3. CASE Silent
  BY <1>2, <1>3 DEF Silent, L!vars
<1>4. ASSUME NEW s \in Seqs, Plays(s) PROVE L!Next
  <2>1. L!Play(s)
    BY <1>2, <1>4 DEF Plays, L!Play
  <2> QED
    BY <2>1 DEF L!Next
<1>5. ASSUME NEW s \in Seqs, Announces(s) PROVE L!Next
  <2>1. L!Announce(s)
    BY <1>2, <1>5 DEF Announces, BroadcastAck, L!Announce
  <2> QED
    BY <2>1 DEF L!Next
<1>6. ASSUME NEW s \in Seqs, Matches(s) PROVE L!Next
  <2>1. L!PlayAndAnnounce(s)
    BY <1>2, <1>6 DEF Matches, BroadcastAck, L!PlayAndAnnounce
  <2> QED
    BY <2>1 DEF L!Next
<1> QED
  BY <1>1, <1>3, <1>4, <1>5, <1>6 DEF EmuEffect

LEMMA ReplayerStepRefines ==
  ASSUME IInv, UNCHANGED emuVars, NEW r \in Replayers,
         Start(r) \/ ReplayLoop(r) \/ Interrupt(r) \/ Listener(r)
  PROVE  [L!Next]_L!vars
<1>1. Played' = Played
  BY DEF emuVars, Played
<1>2. acked \in [Replayers -> SUBSET Seqs]
  BY DEF IInv, ITypeOK, TypeOK, ReplayerTypeOK
<1>3. CASE Start(r)
  <2>1. acked[r] = {} /\ fired[r] = {}
    BY <1>3 DEF Start, IInv, ChainInv, Offline
  <2>2. L!Start(r)
    BY <1>1, <1>3, <2>1 DEF Start, L!Start
  <2> QED
    BY <2>2 DEF L!Next
<1>4. CASE Fire(r)
  <2>1. pos[r] \in InputSeqs /\ UNCHANGED <<announced, acked>>
        /\ fired' = [fired EXCEPT ![r] = @ \cup {pos[r]}]
    BY <1>4 DEF Fire, busVars
  <2>2. fired[r] = {j \in InputSeqs : StartIndex <= j /\ j < pos[r]}
    BY DEF IInv, LoopInv, NoInputSkipped
  <2>3. \A s \in {s \in Seqs : CtrlSync /\ MustAck(s)} :
          StartIndex <= s /\ s < pos[r] => s \in acked[r]
    BY DEF IInv, LoopInv, Waited
  <2>4. L!Fire(r, pos[r])
    BY <1>1, <2>1, <2>2, <2>3 DEF L!Fire
  <2> QED
    BY <2>1, <2>4 DEF L!Next
<1>5. CASE Deliver(r)
  <2> DEFINE m == Head(toReplayer[r])
  <2>1. OnAck(r, m) /\ UNCHANGED <<announced, fired>> /\ toReplayer[r] # <<>>
    BY <1>5 DEF Deliver
  <2>2. toReplayer[r] \in Seq(Msg)
    BY DEF IInv, ITypeOK, TypeOK, BusTypeOK
  <2>3. m \in Msg /\ m \in Range(toReplayer[r])
    BY <2>1, <2>2, HeadTailProperties, TailRange
  <2> HIDE DEF m
  <2>4. CASE m.event # "ack"
    BY <1>1, <2>1, <2>4 DEF OnAck, L!vars
  <2>5. CASE m.event = "ack"
    <3>1. m.seq \in Seqs
      BY <2>3, <2>5 DEF Msg, RecordingDone
    <3>2. m.seq \in announced[r]
      BY <2>3, <2>5 DEF IInv, ChainInv, InFlightAnnounced
    <3>3. acked' = [acked EXCEPT ![r] = @ \cup {m.seq}]
      BY <2>1, <2>5 DEF OnAck
    <3>4. L!Confirm(r, m.seq)
      BY <1>1, <2>1, <3>2, <3>3 DEF L!Confirm
    <3> QED
      BY <3>1, <3>4 DEF L!Next
  <2> QED
    BY <2>4, <2>5
<1>6. CASE \/ LeaveStopped(r) \/ Advance(r) \/ AwaitAck(r) \/ PassOver(r) \/ Confirmed(r)
           \/ Halt(r) \/ HaltWindow(r) \/ Finish(r) \/ Interrupt(r) \/ Connect(r)
           \/ Disconnect(r)
  <2>1. UNCHANGED <<announced, acked, fired>>
    BY <1>6 DEF LeaveStopped, Advance, AwaitAck, PassOver, Confirmed, Halt, HaltWindow,
                Finish, Interrupt, Connect, Disconnect, busVars, replayerVars
  <2> QED
    BY <1>1, <2>1 DEF L!vars
<1> QED
  BY <1>3, <1>4, <1>5, <1>6 DEF ReplayLoop, Listener

LEMMA StepRefines == IInv /\ [Next]_vars => [L!Next]_L!vars
<1> SUFFICES ASSUME IInv, [Next]_vars PROVE [L!Next]_L!vars
  OBVIOUS
<1>1. CASE BusNext /\ UNCHANGED <<emuVars, replayerVars>>
  BY <1>1 DEF BusNext, Accept, ReadProgress, ReadInputDone, Drop, Sigint, emuVars,
              replayerVars, Played, L!vars
<1>2. CASE EmuNext /\ UNCHANGED replayerVars
  BY <1>2, EmuStepRefines
<1>3. CASE ReplayerNext /\ UNCHANGED emuVars
  BY <1>3, ReplayerStepRefines DEF ReplayerNext
<1>4. CASE UNCHANGED vars
  BY <1>4 DEF vars, busVars, emuVars, replayerVars, Played, L!vars
<1> QED
  BY <1>1, <1>2, <1>3, <1>4 DEF Next

(* The emulator, its bus, the links and the loop and listener of every run *)
(* together implement the abstract lockstep replay.                        *)
THEOREM SessionImplementsLockstep == Spec => ImplementsLockstep
<1>1. Init => L!Init
  BY InitRefines
<1>2. IInv /\ [Next]_vars => [L!Next]_L!vars
  BY StepRefines
<1> QED
  BY <1>1, <1>2, Invariance, PTL DEF Spec, ImplementsLockstep, L!Spec
=============================================================================
