------------------------- MODULE DomSession_proofs -------------------------
(***************************************************************************)
(* Proofs about DomSession, for every recording, any leftover in the       *)
(* command file and any number of runs and of starts of the game: first    *)
(* the form replayer, then the driver of clicks.                           *)
(***************************************************************************)
EXTENDS DomSession, FiniteSetTheorems, SequenceTheorems, WellFoundedInduction, TLAPS

-----------------------------------------------------------------------------
(* The events of the form replayer: the sort is a permutation of the form  *)
(* lines, and it sorts.                                                    *)

LEMMA PriorityIsNumber == \A e : Priority(e) \in 0..2
  BY DEF Priority

LEMMA TimesAreNumbers ==
  ASSUME NEW s \in Scripts
  PROVE  /\ Len(s) \in Nat
         /\ \A i \in FormEvents(s) : i \in Nat /\ s[i].t \in Int
<1>1. s \in Seq(Range(s)) /\ \A i \in 1..Len(s) : s[i].t \in Int
  BY FormAssumption
<1>. QED
  BY <1>1, LenProperties DEF FormEvents

LEMMA SoonerIsOrder ==
  ASSUME NEW s \in Scripts, NEW i \in FormEvents(s), NEW j \in FormEvents(s)
  PROVE  /\ ~Sooner(s, i, i)
         /\ i # j => Sooner(s, i, j) \/ Sooner(s, j, i)
         /\ \A k \in FormEvents(s) : Sooner(s, k, i) /\ Sooner(s, i, j) => Sooner(s, k, j)
<1>1. /\ \A k \in FormEvents(s) : k \in Nat /\ s[k].t \in Int
      /\ \A k : Priority(s[k]) \in 0..2
  BY TimesAreNumbers, PriorityIsNumber
<1>. QED
  BY <1>1 DEF Sooner

LEMMA EventsAreFinite ==
  ASSUME NEW s \in Scripts
  PROVE  /\ IsFiniteSet(FormEvents(s)) /\ Cardinality(FormEvents(s)) \in Nat
         /\ \A i : /\ IsFiniteSet({j \in FormEvents(s) : Sooner(s, j, i)})
                   /\ Rank(s, i) \in Nat
<1>1. IsFiniteSet(1..Len(s))
  <2>1. 1 \in Int /\ Len(s) \in Int
    BY TimesAreNumbers
  <2>. QED
    BY <2>1, FS_Interval
<1>2. IsFiniteSet(FormEvents(s))
  BY <1>1, FS_Subset DEF FormEvents
<1>3. \A i : {j \in FormEvents(s) : Sooner(s, j, i)} \in SUBSET FormEvents(s)
  OBVIOUS
<1>4. \A i : IsFiniteSet({j \in FormEvents(s) : Sooner(s, j, i)})
  BY <1>2, <1>3, FS_Subset, Zenon
<1>. QED
  BY <1>2, <1>4, FS_CardinalityType DEF Rank

(* What is sooner has fewer events before it. *)
LEMMA SoonerHasLessRank ==
  ASSUME NEW s \in Scripts, NEW i \in FormEvents(s), NEW j \in FormEvents(s),
         Sooner(s, i, j)
  PROVE  Rank(s, i) < Rank(s, j)
<1> DEFINE D(k) == {m \in FormEvents(s) : Sooner(s, m, k)}
<1>1. IsFiniteSet(D(i)) /\ IsFiniteSet(D(j))
  BY EventsAreFinite
<1>2. i \notin D(i) /\ D(i) \cup {i} \in SUBSET D(j)
  BY SoonerIsOrder
<1>. HIDE DEF D
<1>3. Cardinality(D(i) \cup {i}) = Cardinality(D(i)) + 1
  BY <1>1, <1>2, FS_AddElement
<1>4. Cardinality(D(i) \cup {i}) <= Cardinality(D(j))
  BY <1>1, <1>2, FS_Subset
<1>5. Cardinality(D(i)) \in Nat /\ Cardinality(D(j)) \in Nat
  BY <1>1, FS_CardinalityType
<1>6. Cardinality(D(i)) < Cardinality(D(j))
  BY <1>3, <1>4, <1>5
<1>. QED
  BY <1>6 DEF D, Rank

LEMMA RankIsSmall ==
  ASSUME NEW s \in Scripts, NEW i \in FormEvents(s)
  PROVE  Rank(s, i) \in 0..(Cardinality(FormEvents(s)) - 1)
<1> DEFINE D == {m \in FormEvents(s) : Sooner(s, m, i)}
<1>1. IsFiniteSet(FormEvents(s)) /\ IsFiniteSet(D)
      /\ Cardinality(FormEvents(s)) \in Nat /\ Rank(s, i) \in Nat
  BY EventsAreFinite
<1>2. i \notin D /\ D \cup {i} \in SUBSET FormEvents(s)
  BY SoonerIsOrder
<1>. HIDE DEF D
<1>3. Cardinality(D \cup {i}) = Cardinality(D) + 1
  BY <1>1, <1>2, FS_AddElement
<1>4. Cardinality(D \cup {i}) <= Cardinality(FormEvents(s))
  BY <1>1, <1>2, FS_Subset
<1>5. Rank(s, i) = Cardinality(D)
  BY DEF Rank, D
<1>. QED
  BY <1>1, <1>3, <1>4, <1>5

(* Each place of the sorted sequence is the rank of one form line: if none *)
(* had rank k - 1, two would share one.                                    *)
LEMMA EveryRankTaken ==
  ASSUME NEW s \in Scripts, NEW k \in 1..Cardinality(FormEvents(s))
  PROVE  \E i \in FormEvents(s) : Rank(s, i) = k - 1
<1> DEFINE E == FormEvents(s)
           size == Cardinality(E)
           T == (0..(size - 1)) \ {k - 1}
           f == [i \in E |-> Rank(s, i)]
<1>1. IsFiniteSet(E) /\ size \in Nat /\ k \in 1..size
  BY EventsAreFinite
<1>. HIDE DEF size
<1>2. IsFiniteSet(0..(size - 1)) /\ Cardinality(0..(size - 1)) = size
  <2>1. 0 \in Int /\ size - 1 \in Int /\ size >= 1
    BY <1>1
  <2>2. IsFiniteSet(0..(size - 1)) /\ Cardinality(0..(size - 1)) = IF 0 > size - 1 THEN 0 ELSE size - 1 - 0 + 1
    BY <2>1, FS_Interval
  <2>. QED
    BY <1>1, <2>1, <2>2
<1>3. k - 1 \in 0..(size - 1)
  BY <1>1
<1>4. IsFiniteSet(T) /\ Cardinality(T) = size - 1
  BY <1>1, <1>2, <1>3, FS_RemoveElement, ZenonT(60)
<1>5. SUFFICES ASSUME \A i \in E : Rank(s, i) # k - 1 PROVE FALSE
  OBVIOUS
<1>6. f \in [E -> T]
  <2>1. \A i \in E : Rank(s, i) \in 0..(size - 1)
    BY RankIsSmall DEF size
  <2>. QED
    BY <1>5, <2>1
<1>. HIDE DEF T, f
<1>7. Cardinality(T) < Cardinality(E)
  BY <1>1, <1>4 DEF size
<1>8. PICK x \in E, y \in E : x # y /\ f[x] = f[y]
  BY <1>1, <1>4, <1>6, <1>7, FS_PigeonHole
<1>9. Rank(s, x) = Rank(s, y)
  BY <1>8 DEF f
<1>10. Rank(s, x) \in Nat /\ Rank(s, y) \in Nat
  BY EventsAreFinite
<1>. QED
  BY <1>8, <1>9, <1>10, SoonerIsOrder, SoonerHasLessRank

(* The events are form lines. *)
LEMMA EventIsLine ==
  ASSUME NEW s \in Scripts
  PROVE  /\ DOMAIN Sorted(s) = 1..Cardinality(FormEvents(s))
         /\ Len(Sorted(s)) = Cardinality(FormEvents(s)) /\ Len(Sorted(s)) \in Nat
         /\ \A k \in 1..Len(Sorted(s)) :
              \E i \in FormEvents(s) : Sorted(s)[k] = s[i] /\ Rank(s, i) = k - 1
<1> DEFINE size == Cardinality(FormEvents(s))
<1>1. size \in Nat
  BY EventsAreFinite
<1>2. Sorted(s) = [k \in 1..size |-> s[CHOOSE i \in FormEvents(s) : Rank(s, i) = k - 1]]
  BY DEF Sorted
<1>3. DOMAIN Sorted(s) = 1..size
  BY <1>2
<1>4. Len(Sorted(s)) = size
  <2> DEFINE S == {Sorted(s)[k] : k \in 1..size}
  <2>1. Sorted(s) = [k \in 1..size |-> Sorted(s)[k]]
    BY <1>2
  <2>2. Sorted(s) \in [1..size -> S]
    BY <2>1
  <2>. HIDE DEF S
  <2>3. Sorted(s) \in Seq(S)
    BY <1>1, <2>2, SeqDef
  <2>. QED
    BY <1>1, <1>3, <2>3, LenProperties
<1>5. ASSUME NEW k \in 1..size
      PROVE  \E i \in FormEvents(s) : Sorted(s)[k] = s[i] /\ Rank(s, i) = k - 1
  <2>1. \E i \in FormEvents(s) : Rank(s, i) = k - 1
    BY EveryRankTaken
  <2> DEFINE i == CHOOSE m \in FormEvents(s) : Rank(s, m) = k - 1
  <2>2. i \in FormEvents(s) /\ Rank(s, i) = k - 1
    BY <2>1
  <2>3. Sorted(s)[k] = s[i]
    BY <1>2
  <2>. QED
    BY <2>2, <2>3
<1>. QED
  BY <1>1, <1>3, <1>4, <1>5

(* The events are in recorded time order, and of two of the same time that *)
(* of the smaller priority comes first.                                    *)
LEMMA EventsAreSorted ==
  ASSUME NEW s \in Scripts,
         NEW j \in 1..Len(Sorted(s)), NEW k \in 1..Len(Sorted(s)), j <= k
  PROVE  LET a == Sorted(s)[j]
             b == Sorted(s)[k]
         IN  /\ a.t \in Int /\ b.t \in Int
             /\ a.t <= b.t
             /\ a.t = b.t => Priority(a) <= Priority(b)
<1>1. PICK x \in FormEvents(s) : Sorted(s)[j] = s[x] /\ Rank(s, x) = j - 1
  BY EventIsLine
<1>2. PICK y \in FormEvents(s) : Sorted(s)[k] = s[y] /\ Rank(s, y) = k - 1
  BY EventIsLine
<1>3. j \in Nat /\ k \in Nat
  BY EventIsLine
<1>4. ~Sooner(s, y, x)
  BY <1>1, <1>2, <1>3, SoonerHasLessRank
<1>5. x = y \/ Sooner(s, x, y)
  BY <1>4, SoonerIsOrder
<1>6. /\ s[x].t \in Int /\ s[y].t \in Int
      /\ Priority(s[x]) \in 0..2 /\ Priority(s[y]) \in 0..2
  BY TimesAreNumbers, PriorityIsNumber
<1>7. /\ s[x].t <= s[y].t
      /\ s[x].t = s[y].t => Priority(s[x]) <= Priority(s[y])
  BY <1>5, <1>6 DEF Sooner
<1>. QED
  BY <1>1, <1>2, <1>6, <1>7

-----------------------------------------------------------------------------
(* The form replayer: what the place of the run says of its event, of its  *)
(* marker, of the two files and of the command file, and what was issued.  *)

IsSeq(s) == s \in Seq({s[i] : i \in DOMAIN s})

FormTypes ==
  /\ who \in {"dom", "form"} /\ script \in Scripts
  /\ run \in Nat \ {0} /\ ev \in Nat \ {0} /\ want \in Nat \ {0}
  /\ IsSeq(plog) /\ IsSeq(issued)

EventInv ==
  /\ fpc \in {"close", "await", "pause"} => ev <= Len(Events)
  /\ fpc = "await" => Now.action = "invoke"
  /\ DryRun(script) => fpc # "unmapped"

(* The marker is a place in a log of which only the end is looked at.      *)
MarkerInv ==
  (fpc = "close" /\ Now.action = "invoke") \/ fpc = "await" =>
    fired \in 0..Len(plog) /\ marker \in {fired, LogTail}

(* Neither file is there between the preflight and the end of the events.  *)
HandoffInv ==
  /\ sentinel # NoRun => directive \in {sentinel, NoRun}
  /\ fpc = "unlink_directive" => sentinel = NoRun
  /\ fpc \in {"attach", "event", "close", "await", "pause"} =>
       sentinel = NoRun /\ directive = NoRun
  /\ fpc = "sentinel" => sentinel = NoRun /\ directive \in {run, NoRun}
  /\ FreshHandoff

Wrote(line) == \E k \in 1..Len(issued) : issued[k].line = line /\ issued[k].run = run
FileInv == who = "form" /\ fpc \notin {"begin", "failed"} /\ file # None => Wrote(file)

IssuedInv ==
  /\ \A k \in 1..Len(issued) :
       /\ issued[k].run \in Nat /\ issued[k].run <= run
       /\ issued[k].run = run =>
            \E m \in 1..Len(Events) : m <= ev /\ issued[k].event = Events[m]
  /\ PickBeforeClose

(* The library and its log, whichever program runs.                        *)
MailInv ==
  /\ MailTypeOK
  /\ attaches = 0 => dll = "off" /\ done = <<>>
  /\ IsSeq(done) /\ IsSeq(dlog)
  /\ \A k \in 1..Len(done) : done[k] # None

(* Everything the library has or has had, but for what is half written.    *)
Held == ({file, lastSeen} \cup {done[k] : k \in 1..Len(done)}) \ {None}

(* Nothing the form replayer writes is a click, and it resizes nothing.    *)
NoClicksInv ==
  /\ part \in {1, 2} /\ (part = 2 => Now.action = "open_modal")
  /\ who = "form" => /\ ~resized
                     /\ \A x \in (Held \cup {writing}) \ {None} : ~OwnClick(x)

FormInv == FormTypes /\ EventInv /\ MarkerInv /\ HandoffInv /\ FileInv /\ IssuedInv
             /\ MailInv /\ NoClicksInv

-----------------------------------------------------------------------------
(* The driver: the clicks leave in order and one at a time.                *)

Resizing == pc \in {"resize", "resize_close", "resize_tail", "resize_ack"}
Sent ==
  IF Resizing THEN 0 ELSE IF pc \in {"click_tail", "click_ack", "sync"} THEN n ELSE n - 1

DriverTypes ==
  /\ n \in Nat \ {0} /\ tail \in Nat

PlaceInv ==
  /\ pc \in {"click", "end"} => n <= Len(Clicks) + 1
  /\ pc \in {"click_close", "click_tail", "click_ack", "sync"} => n <= Len(Clicks) /\ ~Absorbed(n)
  /\ pc = "end" => n > Len(Clicks)
  /\ Resizing => ~resized
  /\ IF pc \in {"resize_close", "click_close"} THEN file = None /\ writing # None
                                               ELSE writing = None
  /\ pc \in {"resize_tail", "resize_ack"} => file # None /\ file.op = "resize"
  /\ pc = "resize_close" => writing.op = "resize"
  /\ pc = "click_close" => \E at : writing = ClickLine(n, at)

TokenInv ==
  /\ \A x \in Held : OwnClick(x) => x.salt \in 1..Sent
  /\ \A x, y \in Held : OwnClick(x) /\ OwnClick(y) /\ x.salt = y.salt => x = y
  /\ \A k \in ClicksDone :
       /\ file # None => OwnClick(file) /\ done[k].salt <= file.salt
       /\ dll = "busy" => OwnClick(lastSeen) /\ done[k].salt <= lastSeen.salt
       /\ \A i \in ClicksDone : i < k => done[i].salt <= done[k].salt
  /\ lastSeen # None /\ OwnClick(lastSeen) /\ file # None =>
       OwnClick(file) /\ lastSeen.salt <= file.salt

Repeats(seq, line) == Cardinality({k \in 1..Len(seq) : seq[k] = line})
RepeatInv ==
  /\ \A k \in ClicksDone : Repeats(done, done[k]) <= attaches
  /\ dll = "busy" /\ OwnClick(lastSeen) => Repeats(done, lastSeen) < attaches
  /\ dll # "off" /\ file \notin {None, lastSeen} /\ OwnClick(file) =>
       Repeats(done, file) < attaches

HasResized == \E i \in 1..Len(done) : done[i].op = "resize"
ResizeInv ==
  /\ resized => HasResized
  /\ ~HasResized => \A k \in 1..Len(dlog) :
       dlog[k].op = "resize" /\ dlog[k].ok => (k = 1 /\ (pc = "resize_ack" => tail >= 1))
  /\ OneGame /\ HasResized => canvas
  /\ pc = "resize_ack" /\ Len(dlog) > tail /\ dll = "busy" => lastSeen.op \notin ClickOps
  /\ ResizedFirst

Landed(i) ==
  \E k \in ClicksDone :
    LET j == done[k].salt
    IN  /\ j >= i /\ \A m \in i..j : Clicks[m].place = Clicks[i].place
        /\ j > i => done[k].op = "click_dbl"
Settled(i) ==
  \/ Landed(i)
  \/ Absorbed(n - 1) /\ \A m \in i..(n - 1) : Clicks[m].place = Clicks[i].place

NotAtClick == dll = "busy" => lastSeen.op \notin ClickOps
CarriesOut ==
  \/ dll = "idle" /\ lastSeen = file /\ \E k \in ClicksDone : done[k] = file
  \/ dll = "busy" /\ lastSeen = file
  \/ lastSeen # file /\ NotAtClick
CarriedClick == dll = "idle" /\ lastSeen = file /\ \E k \in ClicksDone : done[k] = file

(* What EveryClickLands asks for holds so far. *)
Going == OneGame /\ resized /\ ~slow
LandInv ==
  Going =>
    /\ \A i \in 1..(n - 1) : Settled(i)
    /\ pc = "click" => NotAtClick /\ file # None /\ (file = lastSeen \/ file.op \notin ClickOps)
    /\ pc = "click_close" => NotAtClick
    /\ pc \in {"click_tail", "click_ack", "sync"} => \E at : file = ClickLine(n, at)
    /\ pc \in {"click_tail", "click_ack"} => CarriesOut
    /\ pc = "click_ack" /\ Logged(ClickOp, BOOLEAN) => CarriedClick
    /\ pc = "sync" => CarriedClick

DriverInv ==
  who = "dom" => DriverTypes /\ PlaceInv /\ TokenInv /\ RepeatInv /\ ResizeInv /\ LandInv

-----------------------------------------------------------------------------
(* A step of the program that does not run leaves the form replayer alone. *)
LEMMA FormStep ==
  ASSUME [Next]_vars
  PROVE  /\ who' = who
         /\ UNCHANGED formVars \/ (who = "form" /\ FormNext)
BY DEF Next, vars

(* The steps that write no command and no file.                            *)
EventStep == PreflightFails \/ AttachFails \/ UnresolvedHandle \/ UnresolvedPath
               \/ Attached \/ SkipEvent \/ Unmapped \/ Pause \/ PairMatched \/ PairMissing
               \/ InvokeDone

LEMMA HandoffStep ==
  ASSUME HandoffInv, [Next]_vars
  PROVE  HandoffInv'
<1>1. CASE UNCHANGED formVars
  BY <1>1 DEF HandoffInv, FreshHandoff, formVars
<1>2. CASE EventStep
  BY <1>2 DEF HandoffInv, FreshHandoff, EventStep, PreflightFails, AttachFails,
     UnresolvedHandle, UnresolvedPath, Fails, Attached, SkipEvent, Unmapped, Pause,
     PairMatched, PairMissing, InvokeDone, fileVars, Stay, NoRun
<1>3. CASE Issue \/ Written \/ Matches
  BY <1>3 DEF HandoffInv, FreshHandoff, Issue, Written, Matches, fileVars, NoRun
<1>4. CASE ClearCommand \/ UnlinkSentinel \/ UnlinkDirective \/ Again
  BY <1>4 DEF HandoffInv, FreshHandoff, ClearCommand, UnlinkSentinel, UnlinkDirective, Again,
     fileVars, Stay, NoRun
<1>5. CASE WriteDirective \/ NotParsed \/ DirectiveFails \/ WriteSentinel \/ Handoff
  BY <1>5 DEF HandoffInv, FreshHandoff, WriteDirective, NotParsed, DirectiveFails,
     WriteSentinel, Handoff, fileVars, Stay, NoRun
<1>. QED
  BY <1>1, <1>2, <1>3, <1>4, <1>5, FormStep DEF FormNext, EventStep

LEMMA AppendAny ==
  ASSUME NEW s, IsSeq(s), NEW x, NEW t, t = Append(s, x)
  PROVE  /\ IsSeq(t) /\ Len(s) \in Nat /\ Len(t) = Len(s) + 1 /\ t[Len(s) + 1] = x
         /\ \A i \in 1..Len(s) : t[i] = s[i]
<1> DEFINE S == {s[i] : i \in DOMAIN s} \cup {x}
<1>1. s \in Seq(S) /\ x \in S
  <2>1. {s[i] : i \in DOMAIN s} \subseteq S /\ x \in S
    OBVIOUS
  <2>. HIDE DEF S
  <2>. QED
    BY <2>1, SeqMonotonic DEF IsSeq
<1>. HIDE DEF S
<1>2. /\ t \in Seq(S) /\ Len(t) = Len(s) + 1 /\ t[Len(s) + 1] = x
      /\ \A i \in 1..Len(s) : t[i] = s[i]
  BY <1>1, AppendProperties
<1>3. Len(s) \in Nat
  BY <1>1, LenProperties
<1>4. t \in Seq({t[i] : i \in DOMAIN t})
  <2>1. DOMAIN t = 1..Len(t) /\ Len(t) \in Nat /\ t = [i \in 1..Len(t) |-> t[i]]
    BY <1>2, LenProperties
  <2> DEFINE T == {t[i] : i \in DOMAIN t}
  <2>2. t \in [1..Len(t) -> T]
    BY <2>1
  <2>. HIDE DEF T
  <2>3. t \in Seq(T)
    BY <2>1, <2>2, SeqDef, ZenonT(60)
  <2>. QED
    BY <2>3 DEF T
<1>. QED
  BY <1>2, <1>3, <1>4 DEF IsSeq

LEMMA EmptyIsSeq == IsSeq(<<>>) /\ Len(<<>>) = 0
  BY DEF IsSeq

LEMMA FormTypesStep ==
  ASSUME FormTypes, [Next]_vars
  PROVE  FormTypes'
<1>1. CASE UNCHANGED formVars
  BY <1>1, FormStep DEF FormTypes, formVars
<1>2. CASE EventStep
  BY <1>2, FormStep DEF FormTypes, EventStep, PreflightFails, AttachFails,
     UnresolvedHandle, UnresolvedPath, Fails, Attached, SkipEvent, Unmapped, Pause,
     PairMatched, PairMissing, InvokeDone, eventVars, Stay, NextEvent
<1>3. CASE Issue \/ ClearCommand \/ UnlinkSentinel \/ UnlinkDirective \/ Again
             \/ WriteDirective \/ NotParsed \/ DirectiveFails \/ WriteSentinel \/ Handoff
  BY <1>3, FormStep DEF FormTypes, Issue, ClearCommand, UnlinkSentinel, UnlinkDirective, Again,
     WriteDirective, NotParsed, DirectiveFails, WriteSentinel, Handoff, eventVars, Stay
<1>4. CASE Written
  <2>1. IsSeq(issued')
    BY <1>4, AppendAny DEF Written, FormTypes
  <2>. QED
    BY <1>4, <2>1, FormStep DEF FormTypes, Written, eventVars
<1>5. CASE Matches
  <2>1. IsSeq(plog')
    BY <1>5, AppendAny DEF Matches, FormTypes
  <2>. QED
    BY <1>5, <2>1, FormStep DEF FormTypes, Matches, eventVars
<1>. QED
  BY <1>1, <1>2, <1>3, <1>4, <1>5, FormStep DEF FormNext, EventStep

(* The program's place in the events. *)
LEMMA EventStepInv ==
  ASSUME FormTypes, EventInv, [Next]_vars
  PROVE  EventInv'
<1>0. \A i \in FormEvents(script) : DryRun(script) => script[i].action \in Known
  BY DEF DryRun
<1>0b. DryRun(script) => \A k \in 1..Len(Events) : Events[k].action \in Known
  BY <1>0, EventIsLine DEF FormTypes, Events
<1>1. CASE UNCHANGED formVars
  BY <1>1 DEF EventInv, formVars, Now, Events
<1>2. CASE EventStep
  <2>1. script' = script
    BY <1>2 DEF EventStep, PreflightFails, AttachFails, UnresolvedHandle, UnresolvedPath,
       Fails, Attached, SkipEvent, Unmapped, Pause, PairMatched, PairMissing, InvokeDone, Stay
  <2>2. Events' = Events /\ DryRun(script)' = DryRun(script)
    BY <2>1 DEF Events
  <2>3. DryRun(script) => ~Unmapped
    BY <1>0b DEF Unmapped, Now, FormTypes
  <2>. QED
    BY <1>2, <2>1, <2>2, <2>3 DEF EventInv, EventStep, PreflightFails, AttachFails,
       UnresolvedHandle, UnresolvedPath, Fails, Attached, SkipEvent, Unmapped, Pause,
       PairMatched, PairMissing, InvokeDone, eventVars, Stay, NextEvent, Now
<1>3. CASE Issue \/ Written \/ Matches \/ Handoff
  <2>1. script' = script
    BY <1>3 DEF Issue, Written, Matches, Handoff, Stay
  <2>2. Events' = Events /\ DryRun(script)' = DryRun(script)
    BY <2>1 DEF Events
  <2>. QED
    BY <1>3, <2>2 DEF EventInv, Issue, Written, Matches, Handoff, eventVars, Stay, Now
<1>4. CASE ClearCommand \/ UnlinkSentinel \/ UnlinkDirective \/ Again
             \/ WriteDirective \/ NotParsed \/ DirectiveFails \/ WriteSentinel
  BY <1>4 DEF EventInv, ClearCommand, UnlinkSentinel, UnlinkDirective, Again,
     WriteDirective, NotParsed, DirectiveFails, WriteSentinel, Stay
<1>. QED
  BY <1>1, <1>2, <1>3, <1>4, FormStep DEF FormNext, EventStep

LEMMA MaxOfTwo ==
  ASSUME NEW a \in Int, NEW b \in Int
  PROVE  Max({a, b}) = IF a >= b THEN a ELSE b
<1> DEFINE m == IF a >= b THEN a ELSE b
<1>1. m \in {a, b} /\ \A y \in {a, b} : m >= y
  OBVIOUS
<1>2. \A x \in {a, b} : (\A y \in {a, b} : x >= y) => x = m
  OBVIOUS
<1>. QED
  BY <1>1, <1>2 DEF Max

(* What docker logs --tail shows of the matcher's log. *)
LEMMA VisibleParts ==
  ASSUME IsSeq(plog)
  PROVE  /\ Len(plog) \in Nat
         /\ Len(Visible) = IF Len(plog) <= LogTail THEN Len(plog) ELSE LogTail
         /\ \A i \in 1..Len(Visible) : Visible[i] = plog[i + (Len(plog) - Len(Visible))]
<1> DEFINE n0 == Len(plog)
           a  == Max({1, n0 - LogTail + 1})
<1>1. /\ n0 \in Nat /\ LogTail \in Nat \ {0}
      /\ \A i \in 1..n0 : plog[i] \in {plog[k] : k \in DOMAIN plog}
  BY FormAssumption, LenProperties DEF IsSeq
<1>2. a = IF 1 >= n0 - LogTail + 1 THEN 1 ELSE n0 - LogTail + 1
  BY <1>1, MaxOfTwo
<1>3. Visible = SubSeq(plog, a, n0)
  BY DEF Visible
<1>. HIDE DEF a
<1>4. a \in Int /\ a >= 1 /\ a..n0 \subseteq 1..n0
  BY <1>1, <1>2
<1>5. /\ Len(Visible) = IF a <= n0 THEN n0 - a + 1 ELSE 0
      /\ \A i \in 1..(n0 - a + 1) : Visible[i] = plog[a + i - 1]
  BY <1>1, <1>3, <1>4, SubSeqProperties
<1> DEFINE v == Len(Visible)
<1>6. /\ v = IF a <= n0 THEN n0 - a + 1 ELSE 0
      /\ \A i \in 1..(n0 - a + 1) : Visible[i] = plog[a + i - 1]
  BY <1>5
<1>. HIDE DEF n0, v
<1>7. v = IF n0 <= LogTail THEN n0 ELSE LogTail
  BY <1>1, <1>2, <1>6
<1>8. ASSUME NEW i \in 1..v PROVE Visible[i] = plog[i + (n0 - v)]
  <2>1. v \in Nat /\ i \in 1..(n0 - a + 1) /\ a + i - 1 = i + (n0 - v)
    BY <1>1, <1>4, <1>6
  <2>. QED
    BY <1>6, <2>1
<1>. QED
  BY <1>1, <1>7, <1>8 DEF n0, v

LEMMA MarkerStep ==
  ASSUME FormTypes, MarkerInv, [Next]_vars
  PROVE  MarkerInv'
<1>1. CASE UNCHANGED formVars
  BY <1>1 DEF MarkerInv, formVars, Now, Events
<1>2. CASE EventStep \/ ClearCommand \/ UnlinkSentinel \/ UnlinkDirective \/ Again
             \/ WriteDirective \/ NotParsed \/ DirectiveFails \/ WriteSentinel
  <2>1. CASE PairMatched
    BY <2>1 DEF MarkerInv, PairMatched, fileVars, Stay
  <2>2. CASE ~PairMatched
    BY <1>2, <2>2 DEF MarkerInv, EventStep, PreflightFails, AttachFails, UnresolvedHandle,
       UnresolvedPath, Fails, Attached, SkipEvent, Unmapped, Pause, PairMissing, InvokeDone,
       ClearCommand, UnlinkSentinel, UnlinkDirective, Again, WriteDirective, NotParsed,
       DirectiveFails, WriteSentinel
  <2>. QED
    BY <2>1, <2>2
<1>3. CASE Issue
  <2>1. Len(plog) \in Nat /\ Len(Visible) \in {Len(plog), LogTail}
    BY VisibleParts DEF FormTypes
  <2>2. Now' = Now
    BY <1>3 DEF Issue, Now, Events
  <2>. QED
    BY <1>3, <2>1, <2>2 DEF MarkerInv, Issue
<1>4. CASE Written
  <2>1. Now' = Now
    BY <1>4 DEF Written, Now, Events, eventVars
  <2>. QED
    BY <1>4, <2>1 DEF MarkerInv, Written, eventVars
<1>5. CASE Matches
  <2>1. Now' = Now
    BY <1>5 DEF Matches, Now, Events, eventVars
  <2>2. Len(plog) \in Nat /\ Len(plog') = Len(plog) + 1
    BY <1>5, AppendAny DEF Matches, FormTypes
  <2>. QED
    BY <1>5, <2>1, <2>2 DEF MarkerInv, Matches, eventVars
<1>6. CASE Handoff
  <2>1. Now' = Now
    BY <1>6 DEF Handoff, Now, Events, eventVars, Stay
  <2>. QED
    BY <1>6, <2>1 DEF MarkerInv, Handoff, eventVars, Stay
<1>. QED
  BY <1>1, <1>2, <1>3, <1>4, <1>5, <1>6, FormStep DEF FormNext, EventStep

(* Every step but the end of a write leaves what was issued.               *)
LEMMA IssuedKept ==
  ASSUME FormTypes, [Next]_vars
  PROVE  \/ UNCHANGED issued
         \/ /\ Written /\ who = "form"
            /\ Len(issued) \in Nat /\ Len(issued') = Len(issued) + 1
            /\ issued'[Len(issued) + 1] = [line |-> writing, event |-> Now, run |-> run]
            /\ \A i \in 1..Len(issued) : issued'[i] = issued[i]
<1>1. CASE Written /\ who = "form"
  BY <1>1, AppendAny DEF Written, FormTypes
<1>2. CASE UNCHANGED formVars
  BY <1>2 DEF formVars
<1>3. CASE who = "form" /\ FormNext /\ ~Written
  BY <1>3 DEF FormNext, PreflightFails, AttachFails, UnresolvedHandle,
     UnresolvedPath, Fails, Attached, SkipEvent, Unmapped, Pause, PairMatched, PairMissing,
     InvokeDone, ClearCommand, UnlinkSentinel, UnlinkDirective, Again, WriteDirective, NotParsed,
     DirectiveFails, WriteSentinel, Issue, Matches, Handoff, Stay, formVars
<1>. QED
  BY <1>1, <1>2, <1>3, FormStep

LEMMA FileStep ==
  ASSUME FormTypes, FileInv, [Next]_vars
  PROVE  FileInv'
<1>. SUFFICES ASSUME who = "form", fpc' \notin {"begin", "failed"}, file' # None
              PROVE  Wrote(file)'
  BY FormStep DEF FileInv
<1>1. CASE Written
  <2>1. /\ Len(issued) \in Nat /\ Len(issued') = Len(issued) + 1
        /\ issued'[Len(issued) + 1] = [line |-> writing, event |-> Now, run |-> run]
    BY <1>1, AppendAny DEF Written, FormTypes
  <2>2. Len(issued) + 1 \in 1..Len(issued')
    BY <2>1
  <2>3. file' = writing /\ run' = run
    BY <1>1 DEF Written, CloseFile
  <2>. QED
    BY <2>1, <2>2, <2>3 DEF Wrote
<1>2. CASE ~Written
  <2>1. UNCHANGED issued
    BY <1>2, IssuedKept
  <2>2. file' = file /\ run' = run /\ fpc \notin {"begin", "failed"}
    <3>1. CASE UNCHANGED vars
      BY <3>1 DEF vars, formVars, mailVars
    <3>2. CASE FormNext
      BY <1>2, <3>2 DEF FormNext, PreflightFails, AttachFails, UnresolvedHandle,
         UnresolvedPath, Fails, Attached, SkipEvent, Unmapped, Pause, PairMatched, PairMissing,
         InvokeDone, ClearCommand, UnlinkSentinel, UnlinkDirective, Again, WriteDirective,
         NotParsed, DirectiveFails, WriteSentinel, Issue, OpenFile, Matches, Handoff, Stay,
         formVars, mailVars, eventVars, Library, Attach, Detach, Poll, Process
    <3>. QED
      BY <3>1, <3>2 DEF Next
  <2>. QED
    BY <2>1, <2>2 DEF FileInv, Wrote
<1>. QED
  BY <1>1, <1>2

LEMMA IssuedStep ==
  ASSUME FormTypes, EventInv, IssuedInv, [Next]_vars
  PROVE  IssuedInv'
<1>0. /\ Len(Events) \in Nat
      /\ \A m \in 1..Len(Events), k \in 1..Len(Events) : m <= k =>
           /\ Events[m].t \in Int /\ Events[k].t \in Int
           /\ Events[m].t <= Events[k].t
           /\ Events[m].t = Events[k].t => Priority(Events[m]) <= Priority(Events[k])
  BY EventIsLine, EventsAreSorted DEF FormTypes, Events
<1>1. CASE Written
  <2>1. /\ Len(issued) \in Nat /\ Len(issued') = Len(issued) + 1
        /\ issued'[Len(issued) + 1] = [line |-> writing, event |-> Now, run |-> run]
        /\ \A i \in 1..Len(issued) : issued'[i] = issued[i]
    BY <1>1, AppendAny DEF Written, FormTypes
  <2>2. /\ run' = run /\ ev' = ev /\ script' = script /\ Events' = Events
        /\ ev \in 1..Len(Events)
    BY <1>1, <1>0 DEF Written, eventVars, Events, EventInv, FormTypes
  <2>3. issued'[Len(issued) + 1].run = run /\ issued'[Len(issued) + 1].event = Events[ev]
    BY <2>1 DEF Now
  <2>4. \A k \in 1..Len(issued') : k \in 1..Len(issued) \/ k = Len(issued) + 1
    BY <2>1
  <2>5. ASSUME NEW k \in 1..Len(issued')
        PROVE  /\ issued'[k].run \in Nat /\ issued'[k].run <= run
               /\ issued'[k].run = run =>
                    \E m \in 1..Len(Events) : m <= ev /\ issued'[k].event = Events[m]
    <3>1. CASE k \in 1..Len(issued)
      BY <2>1, <3>1 DEF IssuedInv
    <3>2. CASE k = Len(issued) + 1
      BY <2>2, <2>3, <3>2 DEF FormTypes
    <3>. QED
      BY <2>4, <3>1, <3>2
  <2>6. ASSUME NEW j \in 1..Len(issued'), NEW k \in 1..Len(issued'), j < k,
               issued'[j].run = issued'[k].run
        PROVE  LET a == issued'[j].event
                   b == issued'[k].event
               IN  a.t <= b.t /\ ~(a.t = b.t /\ a.off = "0x18" /\ b.off = "0x7d")
    <3>1. j \in 1..Len(issued)
      BY <2>1, <2>4, <2>6
    <3>2. CASE k \in 1..Len(issued)
      BY <2>1, <2>6, <3>1, <3>2 DEF IssuedInv, PickBeforeClose
    <3>3. CASE k = Len(issued) + 1
      <4>1. PICK m \in 1..Len(Events) : m <= ev /\ issued'[j].event = Events[m]
        BY <2>3, <2>5, <2>6, <3>3
      <4>2. issued'[k].event = Events[ev]
        BY <2>3, <3>3
      <4>3. /\ Events[m].t <= Events[ev].t
            /\ Events[m].t = Events[ev].t => Priority(Events[m]) <= Priority(Events[ev])
        BY <1>0, <2>2, <4>1
      <4>4. ~(Events[m].t = Events[ev].t /\ Events[m].off = "0x18" /\ Events[ev].off = "0x7d")
        BY <4>3 DEF Priority
      <4>. QED
        BY <4>1, <4>2, <4>3, <4>4
    <3>. QED
      BY <2>4, <3>2, <3>3
  <2>. QED
    BY <2>2, <2>5, <2>6 DEF IssuedInv, PickBeforeClose
<1>2. CASE ~Written
  <2>1. UNCHANGED issued
    BY <1>2, IssuedKept
  <2>2. script' = script /\ Events' = Events
    <3>1. script' = script
      BY FormStep DEF formVars, FormNext, PreflightFails, AttachFails, UnresolvedHandle,
         UnresolvedPath, Fails, Attached, SkipEvent, Unmapped, Pause, PairMatched, PairMissing,
         InvokeDone, ClearCommand, UnlinkSentinel, UnlinkDirective, Again, WriteDirective,
         NotParsed, DirectiveFails, WriteSentinel, Issue, Written, Matches, Handoff, Stay
    <3>. QED
      BY <3>1 DEF Events
  <2>3. \/ run' = run /\ (ev' = ev \/ ev' = ev + 1)
        \/ run' = run + 1
    <3>1. CASE UNCHANGED formVars
      BY <3>1 DEF formVars
    <3>2. CASE EventStep
      BY <3>2 DEF EventStep, PreflightFails, AttachFails,
         UnresolvedHandle, UnresolvedPath, Fails, Attached, SkipEvent, Unmapped, Pause,
         PairMatched, PairMissing, InvokeDone, eventVars, Stay, NextEvent
    <3>3. CASE FormNext /\ ~EventStep
      BY <3>3 DEF FormNext, EventStep, Library, ClearCommand, UnlinkSentinel, UnlinkDirective,
         Again, WriteDirective, NotParsed, DirectiveFails, WriteSentinel, Issue, Written, Matches,
         Handoff, Stay, eventVars, formVars
    <3>. QED
      BY <3>1, <3>2, <3>3, FormStep
  <2>4. ASSUME NEW k \in 1..Len(issued)
        PROVE  /\ issued[k].run \in Nat /\ issued[k].run <= run'
               /\ issued[k].run = run' =>
                    \E m \in 1..Len(Events) : m <= ev' /\ issued[k].event = Events[m]
    <3>1. /\ issued[k].run \in Nat /\ issued[k].run <= run /\ run \in Nat /\ ev \in Nat
          /\ issued[k].run = run =>
               \E m \in 1..Len(Events) : m <= ev /\ issued[k].event = Events[m]
      BY DEF IssuedInv, FormTypes
    <3>2. CASE run' = run + 1
      BY <3>1, <3>2
    <3>3. CASE run' = run /\ (ev' = ev \/ ev' = ev + 1)
      <4>1. \A m \in 1..Len(Events) : m <= ev => m <= ev'
        BY <1>0, <3>1, <3>3
      <4>. QED
        BY <3>1, <3>3, <4>1
    <3>. QED
      BY <2>3, <3>2, <3>3
  <2>. QED
    BY <2>1, <2>2, <2>4 DEF IssuedInv, PickBeforeClose
<1>. QED
  BY <1>1, <1>2

(* What a step does with the mailbox.                                      *)
LEMMA MailKinds ==
  ASSUME [Next]_vars
  PROVE  Attach \/ Detach \/ CanvasAppears \/ Poll \/ Process
           \/ UNCHANGED <<lastSeen, dll, canvas, dlog, done, attaches>>
BY DEF Next, vars, mailVars, DomNext, FormNext, Library, OpenFile, CloseFile, Resize, Close,
   StartTail, ResizeAcked, ResizeAgain, Resolve, ClickAcked, Synced, NotSynced, DriverEnds,
   ServerMatches, PreflightFails, AttachFails, UnresolvedHandle, UnresolvedPath, Fails, Attached,
   SkipEvent, Unmapped, Pause, PairMatched, PairMissing, InvokeDone, ClearCommand,
   UnlinkSentinel, UnlinkDirective, Again, WriteDirective, NotParsed, DirectiveFails,
   WriteSentinel, Issue, Written, Matches, Handoff

(* What has been carried out stays, and grows by the line that was seen.   *)
LEMMA DoneGrows ==
  ASSUME MailInv, [Next]_vars
  PROVE  \/ UNCHANGED done
         \/ /\ Process /\ lastSeen # None /\ Len(done) \in Nat
            /\ Len(done') = Len(done) + 1 /\ done'[Len(done) + 1] = lastSeen
            /\ \A i \in 1..Len(done) : done'[i] = done[i]
            /\ IsSeq(done')
<1>1. UNCHANGED done \/ (Process /\ done' = Append(done, lastSeen))
  BY MailKinds DEF Attach, Detach, CanvasAppears, Poll, Process
<1>2. IsSeq(done) /\ (dll = "busy" => lastSeen # None)
  BY DEF MailInv, MailTypeOK
<1>. QED
  BY <1>1, <1>2, AppendAny DEF Process

LEMMA MailStep ==
  ASSUME MailInv, [Next]_vars
  PROVE  MailInv'
<1>1. CASE Process
  <2>1. IsSeq(dlog')
    <3>1. IsSeq(dlog) /\ \E x : dlog' = Append(dlog, x)
      BY <1>1 DEF Process, MailInv, MailTypeOK
    <3>. QED
      BY <3>1, AppendAny
  <2>2. IsSeq(done') /\ \A k \in 1..Len(done') : done'[k] # None
    BY DoneGrows DEF MailInv, MailTypeOK
  <2>. QED
    BY <1>1, <2>1, <2>2 DEF Process, MailInv, MailTypeOK
<1>2. CASE Attach \/ Detach \/ CanvasAppears \/ Poll
  <2>1. MailTypeOK'
    <3>1. canvas' \in BOOLEAN
      BY <1>2, Zenon DEF Attach, Detach, CanvasAppears, Poll, MailInv, MailTypeOK
    <3>2. attaches' \in 0..MaxAttaches
      BY <1>2, MailAssumption DEF Attach, Detach, CanvasAppears, Poll, MailInv, MailTypeOK
    <3>3. dll' \in {"off", "idle", "busy"} /\ (dll' = "busy" => lastSeen' # None)
      BY <1>2 DEF Attach, Detach, CanvasAppears, Poll, MailInv, MailTypeOK
    <3>. QED
      BY <3>1, <3>2, <3>3 DEF MailTypeOK
  <2>. QED
    BY <1>2, <2>1 DEF Attach, Detach, CanvasAppears, Poll, MailInv, MailTypeOK
<1>3. CASE UNCHANGED <<lastSeen, dll, canvas, dlog, done, attaches>>
  BY <1>3 DEF MailInv, MailTypeOK
<1>. QED
  BY <1>1, <1>2, <1>3, MailKinds

(* Nothing that is written, read or carried out is a click. *)
LEMMA CommandsAreNoClicks ==
  ASSUME NEW e, NEW number, NEW k \in {1, 2}, k = 2 => e.action = "open_modal",
         e.action \in Known \ {"skip"}
  PROVE  Commands(e, number)[k].op \notin ClickOps
BY DEF Known, Commands, Command, ClickOps

LEMMA NoClicksStep ==
  ASSUME FormTypes, MailInv, NoClicksInv, [Next]_vars
  PROVE  NoClicksInv'
<1>1. part' \in {1, 2} /\ (part' = 2 => Now'.action = "open_modal")
  <2>1. CASE UNCHANGED formVars
    BY <2>1 DEF NoClicksInv, formVars, Now, Events
  <2>2. CASE Pause
    <3>1. /\ Len(Commands(Now, seqNo)) \in 0..2
          /\ Len(Commands(Now, seqNo)) = 2 => Now.action = "open_modal"
      BY DEF Commands
    <3>2. Events' = Events
      BY <2>2 DEF Pause, Stay, Events
    <3>3. \/ part < Len(Commands(Now, seqNo)) /\ part' = part + 1 /\ ev' = ev
          \/ part' = 1
      BY <2>2 DEF Pause, NextEvent
    <3>4. CASE part < Len(Commands(Now, seqNo)) /\ part' = part + 1 /\ ev' = ev
      <4> DEFINE c == Len(Commands(Now, seqNo))
      <4>0. c \in 0..2 /\ part \in {1, 2} /\ part < c /\ part' = part + 1
        BY <3>1, <3>4 DEF NoClicksInv
      <4>. HIDE DEF c
      <4>1. part = 1 /\ part' = 2 /\ c = 2
        BY <4>0
      <4>1b. Now.action = "open_modal"
        BY <3>1, <4>1 DEF c
      <4>2. Now' = Now
        BY <3>2, <3>4 DEF Now
      <4>. QED
        BY <4>1, <4>1b, <4>2
    <3>. QED
      BY <3>3, <3>4
  <2>3. CASE SkipEvent \/ InvokeDone \/ Again
    BY <2>3 DEF SkipEvent, InvokeDone, Again, NextEvent
  <2>4. CASE FormNext /\ ~(Pause \/ SkipEvent \/ InvokeDone \/ Again)
    <3>1. UNCHANGED <<script, ev, part>>
      BY <2>4 DEF FormNext, PreflightFails, AttachFails, UnresolvedHandle,
         UnresolvedPath, Fails, Attached, Unmapped, PairMatched, PairMissing,
         ClearCommand, UnlinkSentinel, UnlinkDirective, WriteDirective,
         NotParsed, DirectiveFails, WriteSentinel, Issue, Written, Matches, Handoff, Stay,
         formVars, eventVars
    <3>. QED
      BY <3>1 DEF NoClicksInv, Now, Events
  <2>. QED
    BY <2>1, <2>2, <2>3, <2>4, FormStep
<1>2. UNCHANGED done \/ done' = Append(done, lastSeen)
  BY DEF Next, vars, mailVars, DomNext, FormNext, Library, Attach, Detach, CanvasAppears, Poll,
     Process, OpenFile, CloseFile, Resize, Close, StartTail, ResizeAcked, ResizeAgain, Resolve,
     ClickAcked, Synced, NotSynced, DriverEnds, ServerMatches, PreflightFails, AttachFails,
     UnresolvedHandle, UnresolvedPath, Fails, Attached, SkipEvent, Unmapped, Pause, PairMatched,
     PairMissing, InvokeDone, ClearCommand, UnlinkSentinel, UnlinkDirective, Again, WriteDirective,
     NotParsed, DirectiveFails, WriteSentinel, Issue, Written, Matches, Handoff
<1>4. ASSUME who = "form"
      PROVE  ~resized' /\ \A x \in ((Held \cup {writing}) \ {None})' : ~OwnClick(x)
  <2>1. resized' = resized
    BY <1>4 DEF Next, vars, domVars
  <2>2. \/ file' = file /\ writing' = writing
        \/ file' = None /\ writing' = writing
        \/ file' = file /\ writing' = None
        \/ file' = writing /\ writing' = None
        \/ file' = None /\ ~OwnClick(writing')
    <3>1. CASE Issue
      <4>1. Commands(Now, seqNo)[part].op \notin ClickOps
        BY <3>1, CommandsAreNoClicks DEF Issue, NoClicksInv
      <4>. QED
        BY <3>1, <4>1 DEF Issue, OpenFile, OwnClick
    <3>2. CASE Written
      BY <3>2 DEF Written, CloseFile
    <3>3. CASE UNCHANGED vars
      BY <3>3 DEF vars, mailVars
    <3>4. CASE FormNext /\ ~Issue /\ ~Written
      BY <3>4 DEF mailVars, FormNext, Library, Attach, Detach, Poll,
         Process, PreflightFails, AttachFails,
         UnresolvedHandle, UnresolvedPath, Fails, Attached, SkipEvent, Unmapped, Pause,
         PairMatched, PairMissing, InvokeDone, ClearCommand, UnlinkSentinel, UnlinkDirective,
         Again, WriteDirective, NotParsed, DirectiveFails, WriteSentinel, Matches, Handoff
    <3>. QED
      BY <1>4, <3>1, <3>2, <3>3, <3>4 DEF Next
  <2>3. lastSeen' \in {lastSeen, file, None}
    BY <1>4 DEF Next, vars, mailVars, FormNext, Library, Attach, Detach, Poll,
       Process, OpenFile, CloseFile, PreflightFails, AttachFails,
       UnresolvedHandle, UnresolvedPath, Fails, Attached, SkipEvent, Unmapped, Pause,
       PairMatched, PairMissing, InvokeDone, ClearCommand, UnlinkSentinel, UnlinkDirective,
       Again, WriteDirective, NotParsed, DirectiveFails, WriteSentinel, Issue, Written, Matches,
       Handoff
  <2>4. {done'[k] : k \in 1..Len(done')} \subseteq {done[k] : k \in 1..Len(done)} \cup {lastSeen}
    <3>1. CASE UNCHANGED done
      BY <3>1
    <3>2. CASE done' = Append(done, lastSeen)
      <4>1. /\ Len(done) \in Nat /\ Len(done') = Len(done) + 1 /\ done'[Len(done) + 1] = lastSeen
            /\ \A i \in 1..Len(done) : done'[i] = done[i]
        BY <3>2, AppendAny DEF MailInv, MailTypeOK
      <4>2. \A k \in 1..Len(done') : k \in 1..Len(done) \/ k = Len(done) + 1
        BY <4>1
      <4>. QED
        BY <4>1, <4>2
    <3>. QED
      BY <1>2, <3>1, <3>2
  <2>5. \A x \in {file, lastSeen, writing} \cup {done[k] : k \in 1..Len(done)} :
          x # None => ~OwnClick(x)
    BY <1>4 DEF NoClicksInv, Held
  <2>6. \A x \in {file', lastSeen', writing'} \cup {done'[k] : k \in 1..Len(done')} :
          x # None => ~OwnClick(x)
    BY <2>2, <2>3, <2>4, <2>5
  <2>. QED
    BY <1>4, <2>1, <2>6 DEF Held, NoClicksInv
<1>. QED
  BY <1>1, <1>4, FormStep DEF NoClicksInv

-----------------------------------------------------------------------------
LEMMA FormInit0 == Init => FormInv
<1>. SUFFICES ASSUME Init PROVE FormInv
  OBVIOUS
<1>1. FormTypes
  BY EmptyIsSeq DEF Init, FormInit, FormTypes
<1>2. EventInv /\ MarkerInv /\ HandoffInv /\ FileInv
  BY DEF Init, FormInit, EventInv, MarkerInv, HandoffInv, FreshHandoff, FileInv, NoRun
<1>3. IssuedInv
  BY EmptyIsSeq DEF Init, FormInit, IssuedInv, PickBeforeClose
<1>4. MailInv
  <2>1. \A x : IsSeq(<<x>>)
    <3>. TAKE x
    <3> DEFINE t == <<x>>
    <3>1. t \in Seq({x}) /\ Len(t) = 1 /\ t[1] = x
      OBVIOUS
    <3>2. DOMAIN t = {1}
      BY <3>1
    <3>. HIDE DEF t
    <3>3. {t[i] : i \in DOMAIN t} = {x}
      BY <3>1, <3>2
    <3>4. IsSeq(t)
      BY <3>1, <3>3 DEF IsSeq
    <3>. QED
      BY <3>4 DEF t
  <2>2. IsSeq(dlog)
    BY <2>1, EmptyIsSeq, Zenon DEF Init, MailInit
  <2>3. dll = "off" /\ canvas = FALSE /\ attaches = 0 /\ done = <<>> /\ IsSeq(done) /\ Len(done) = 0
    BY EmptyIsSeq DEF Init, MailInit
  <2>. QED
    <3>1. attaches \in 0..MaxAttaches
      BY <2>3, MailAssumption
    <3>2. canvas \in BOOLEAN
      BY <2>3, Zenon
    <3>. QED
      BY <2>2, <2>3, <3>1, <3>2 DEF MailInv, MailTypeOK
<1>5. NoClicksInv
  <2>1. 1..Len(done) = {}
    BY EmptyIsSeq DEF Init, MailInit
  <2>2. Held \cup {writing} \subseteq Leftovers \cup {None}
    BY <2>1 DEF Init, MailInit, Held, Lines
  <2>. QED
    BY <2>1, <2>2 DEF Init, FormInit, DomInit, NoClicksInv, OwnClick
<1>. QED
  BY <1>1, <1>2, <1>3, <1>4, <1>5 DEF FormInv

THEOREM FormInvariant == Spec => []FormInv
<1>1. FormInv /\ [Next]_vars => FormInv'
  BY FormTypesStep, EventStepInv, MarkerStep, HandoffStep, FileStep, IssuedStep, MailStep,
     NoClicksStep
     DEF FormInv
<1>. QED
  BY <1>1, FormInit0, PTL DEF Spec

(* Whenever a run is killed, and whichever file it fails to write, the     *)
(* pair matcher never takes over with the directive of another run.        *)
THEOREM HandoffIsFresh == Spec => []FreshHandoff
<1>1. FormInv => FreshHandoff
  BY DEF FormInv, HandoffInv
<1>. QED
  BY <1>1, FormInvariant, PTL

(* Of the changes recorded in one poll the slot pick is replayed before    *)
(* the form that reads it is closed, and no change before an earlier one.  *)
THEOREM PicksComeFirst == Spec => []PickBeforeClose
<1>1. FormInv => PickBeforeClose
  BY DEF FormInv, IssuedInv
<1>. QED
  BY <1>1, FormInvariant, PTL

(* What the dry run accepts the live run does not stop at. *)
THEOREM DryRunIsRight == Spec => []DryRunPredicts
<1>1. FormInv => DryRunPredicts
  <2>. SUFFICES ASSUME FormInv, DryRun(script), fpc = "await", want <= Len(Now.expect)
                PROVE  Expected \in Reachable
    BY DEF FormInv, EventInv, DryRunPredicts
  <2>1. ev \in 1..Len(Events) /\ Now.action = "invoke" /\ want \in Nat \ {0}
    BY EventIsLine DEF FormInv, FormTypes, EventInv, Events
  <2>2. \E i \in FormEvents(script) : Now = script[i]
    BY <2>1, EventIsLine DEF FormInv, FormTypes, Events, Now
  <2>3. Feasible(Now)
    BY <2>1, <2>2 DEF DryRun
  <2>. QED
    BY <2>1, <2>3 DEF Feasible, Expected
<1>. QED
  BY <1>1, FormInvariant, PTL

(* After the preflight the library takes only what this run has written.   *)
THEOREM OnlyOwnCommands == Spec => NoLeftover
<1> DEFINE Taken == who = "form" /\ fpc \notin {"begin", "failed"} /\ dll = "idle" /\ dll' = "busy"
                      => \E k \in 1..Len(issued) : issued[k].line = lastSeen' /\ issued[k].run = run
<1>1. FormInv /\ [Next]_vars => Taken
  <2>. SUFFICES ASSUME FormInv, [Next]_vars, who = "form", fpc \notin {"begin", "failed"},
                       dll = "idle", dll' = "busy"
                PROVE  Wrote(lastSeen')
    BY DEF Wrote
  <2>1. Poll
    BY DEF Next, vars, mailVars, FormNext, Library, Attach, Detach,
       Process, OpenFile, CloseFile, PreflightFails, AttachFails,
       UnresolvedHandle, UnresolvedPath, Fails, Attached, SkipEvent, Unmapped, Pause,
       PairMatched, PairMissing, InvokeDone, ClearCommand, UnlinkSentinel, UnlinkDirective,
       Again, WriteDirective, NotParsed, DirectiveFails, WriteSentinel, Issue, Written, Matches,
       Handoff
  <2>. QED
    BY <2>1 DEF Poll, FormInv, FileInv
<1>. QED
  BY <1>1, FormInvariant, PTL DEF Spec, NoLeftover

(* No match logged before the marker was taken counts for an invocation,   *)
(* although the marker counts lines of the log's end only.                 *)
THEOREM AnswersAreNew == Spec => InvokeAnswered
<1> DEFINE New == fpc = "await" /\ want' = want + 1 /\ fpc' = "await"
                    => \E k \in (fired + 1)..Len(plog) : plog[k] = Expected
<1>1. FormInv /\ [Next]_vars => New
  <2>. SUFFICES ASSUME FormInv, [Next]_vars, fpc = "await", want' = want + 1, fpc' = "await"
                PROVE  \E k \in (fired + 1)..Len(plog) : plog[k] = Expected
    OBVIOUS
  <2>0. want \in Nat
    BY DEF FormInv, FormTypes
  <2>1. PairMatched
    BY <2>0, FormStep DEF formVars, FormNext, Library, PreflightFails, AttachFails,
       UnresolvedHandle, UnresolvedPath, Fails, Attached, SkipEvent, Unmapped, Pause,
       PairMissing, InvokeDone, ClearCommand, UnlinkSentinel, UnlinkDirective,
       Again, WriteDirective, NotParsed, DirectiveFails, WriteSentinel, Issue, Written, Matches,
       Handoff, eventVars
  <2>2. PICK i \in (marker + 1)..Len(Visible) : Visible[i] = Expected
    BY <2>1 DEF PairMatched, Seen
  <2> DEFINE v  == Len(Visible)
             n0 == Len(plog)
  <2>3. /\ fired \in 0..n0 /\ marker \in {fired, LogTail} /\ n0 \in Nat /\ LogTail \in Nat
        /\ v = IF n0 <= LogTail THEN n0 ELSE LogTail
        /\ \A j \in 1..v : Visible[j] = plog[j + (n0 - v)]
    BY VisibleParts, FormAssumption DEF FormInv, FormTypes, MarkerInv
  <2>4. i \in (marker + 1)..v
    OBVIOUS
  <2>. HIDE DEF v, n0
  <2>5. i \in 1..v /\ i + (n0 - v) \in (fired + 1)..n0
    BY <2>3, <2>4
  <2>6. plog[i + (n0 - v)] = Expected
    BY <2>2, <2>3, <2>5
  <2>. QED
    BY <2>5, <2>6 DEF n0
<1>. QED
  BY <1>1, FormInvariant, PTL DEF Spec, InvokeAnswered

-----------------------------------------------------------------------------
(* Induction over the numbers, for a set.                                  *)
LEMMA NatSetInduction ==
  ASSUME NEW P, 0 \in P, \A k \in Nat : k \in P => k + 1 \in P
  PROVE  Nat \subseteq P
<1> DEFINE Bad == Nat \ P
<1>1. SUFFICES ASSUME Bad # {} PROVE FALSE
  OBVIOUS
<1>2. PICK m \in Bad : \A j \in Bad : ~(<<j, m>> \in OpToRel(<, Nat))
  <2>1. Bad \subseteq Nat
    OBVIOUS
  <2>. HIDE DEF Bad
  <2>. QED
    BY <1>1, <2>1, WFMin, NatLessThanWellFounded, Zenon
<1>3. m \in Nat /\ m # 0
  OBVIOUS
<1>4. m - 1 \in Nat /\ m - 1 < m /\ (m - 1) + 1 = m
  BY <1>3
<1>5. <<m - 1, m>> \in OpToRel(<, Nat)
  BY <1>3, <1>4 DEF OpToRel
<1>. QED
  BY <1>2, <1>4, <1>5

(* What Kept computes, line by line.                                       *)
Runs(g, lines, len, dropped) ==
  /\ g = [k \in 0..len |-> g[k]]
  /\ g[0] = <<>>
  /\ \A k \in 1..len : g[k] = Keeps(g[k - 1], lines[k], dropped)

(* The recursion has a value, whatever is kept.                            *)
LEMMA KeptRuns ==
  ASSUME NEW lines, NEW len \in Nat, NEW dropped
  PROVE  \E g : Runs(g, lines, len, dropped)
<1> DEFINE Good == {m \in Nat : \E g : Runs(g, lines, m, dropped)}
<1>1. 0 \in Good
  <2> DEFINE g == [k \in 0..0 |-> <<>>]
  <2>1. Runs(g, lines, 0, dropped)
    BY DEF Runs
  <2>. QED
    BY <2>1
<1>2. ASSUME NEW m \in Nat, m \in Good PROVE m + 1 \in Good
  <2>1. PICK g : Runs(g, lines, m, dropped)
    BY <1>2
  <2> DEFINE new == Keeps(g[m], lines[m + 1], dropped)
             h == [k \in 0..(m + 1) |-> IF k = m + 1 THEN new ELSE g[k]]
  <2>. HIDE DEF new
  <2>2. h = [k \in 0..(m + 1) |-> h[k]] /\ h[m + 1] = new /\ \A k \in 0..m : h[k] = g[k]
    OBVIOUS
  <2>. HIDE DEF h
  <2>3. h[0] = <<>>
    BY <2>1, <2>2 DEF Runs
  <2>4. ASSUME NEW k \in 1..(m + 1) PROVE h[k] = Keeps(h[k - 1], lines[k], dropped)
    <3>1. CASE k = m + 1
      <4>1. k - 1 = m /\ m \in 0..m
        BY <3>1
      <4>. QED
        BY <2>2, <3>1, <4>1 DEF new
    <3>2. CASE k # m + 1
      <4>1. k \in 1..m /\ k \in 0..m /\ k - 1 \in 0..m
        BY <3>2
      <4>2. g[k] = Keeps(g[k - 1], lines[k], dropped)
        BY <2>1, <4>1 DEF Runs
      <4>. QED
        BY <2>2, <4>1, <4>2
    <3>. QED
      BY <3>1, <3>2
  <2>5. Runs(h, lines, m + 1, dropped) /\ m + 1 \in Nat
    BY <2>2, <2>3, <2>4 DEF Runs
  <2>. QED
    BY <2>5
<1>3. Nat \subseteq Good
  <2>. HIDE DEF Good
  <2>. QED
    BY <1>1, <1>2, NatSetInduction
<1>. QED
  BY <1>3

LEMMA KeptIsRun ==
  ASSUME NEW lines, Len(lines) \in Nat, NEW dropped
  PROVE  \E g : Runs(g, lines, Len(lines), dropped) /\ Kept(lines, dropped) = g[Len(lines)]
<1> DEFINE len == Len(lines)
           kept[k \in 0..len] == IF k = 0 THEN <<>> ELSE Keeps(kept[k - 1], lines[k], dropped)
<1>1. PICK g : Runs(g, lines, len, dropped)
  BY KeptRuns
<1>2. \A k \in 0..len : g[k] = IF k = 0 THEN <<>> ELSE Keeps(g[k - 1], lines[k], dropped)
  <2>1. \A k \in 0..len : k = 0 \/ k \in 1..len
    OBVIOUS
  <2>. QED
    BY <1>1, <2>1 DEF Runs
<1>3. g = [k \in 0..len |-> IF k = 0 THEN <<>> ELSE Keeps(g[k - 1], lines[k], dropped)]
  <2>1. g = [k \in 0..len |-> g[k]]
    BY <1>1 DEF Runs
  <2>. QED
    BY <1>2, <2>1, ZenonT(60)
<1>4. \E f : f = [k \in 0..len |-> IF k = 0 THEN <<>> ELSE Keeps(f[k - 1], lines[k], dropped)]
  BY <1>3
<1>5. kept = [k \in 0..len |-> IF k = 0 THEN <<>> ELSE Keeps(kept[k - 1], lines[k], dropped)]
  BY <1>4, ZenonT(60)
<1>6. Kept(lines, dropped) = kept[len]
  BY DEF Kept
<1>. HIDE DEF kept
<1>7. /\ kept = [k \in 0..len |-> kept[k]] /\ kept[0] = <<>>
      /\ \A k \in 1..len : kept[k] = Keeps(kept[k - 1], lines[k], dropped)
  <2>1. \A k \in 0..len : kept[k] = IF k = 0 THEN <<>> ELSE Keeps(kept[k - 1], lines[k], dropped)
    BY <1>5
  <2>2. kept = [k \in 0..len |-> kept[k]]
    BY <1>5
  <2>3. 0 \in 0..len /\ \A k \in 1..len : k # 0 /\ k \in 0..len
    OBVIOUS
  <2>. QED
    BY <2>1, <2>2, <2>3
<1>8. Runs(kept, lines, len, dropped)
  BY <1>7 DEF Runs
<1>. QED
  BY <1>6, <1>8

LEMMA KeepsSeq ==
  ASSUME NEW kept, IsSeq(kept), NEW line, NEW dropped
  PROVE  /\ IsSeq(Keeps(kept, line, dropped))
         /\ Keeps(Keeps(kept, line, dropped), line, dropped) = Keeps(kept, line, dropped)
<1>1. CASE Keeps(kept, line, dropped) = kept
  BY <1>1
<1>2. CASE Keeps(kept, line, dropped) # kept
  <2> DEFINE t == Append(kept, line)
  <2>1. Keeps(kept, line, dropped) = t /\ line \notin dropped
    BY <1>2 DEF Keeps
  <2>2. IsSeq(t) /\ Len(kept) \in Nat /\ Len(t) = Len(kept) + 1 /\ t[Len(kept) + 1] = line
    BY AppendAny
  <2>. HIDE DEF t
  <2>3. t # <<>>
    <3>1. Len(t) # 0
      BY <2>2
    <3>. QED
      BY <3>1, EmptyIsSeq
  <2>4. Last(t) = line
    BY <2>2 DEF Last
  <2>5. Keeps(t, line, dropped) = t
    BY <2>3, <2>4 DEF Keeps
  <2>. QED
    BY <2>1, <2>2, <2>5
<1>. QED
  BY <1>1, <1>2

(* A sequence and the one with one more line at its end.                   *)
Longer(t, s, line) ==
  /\ Len(s) \in Nat /\ Len(t) = Len(s) + 1 /\ t[Len(s) + 1] = line
  /\ \A k \in 1..Len(s) : t[k] = s[k]

LEMMA KeptGrows ==
  ASSUME NEW s, NEW t, NEW line, Longer(t, s, line), NEW dropped
  PROVE  Kept(t, dropped) = Keeps(Kept(s, dropped), line, dropped)
<1> DEFINE len == Len(s)
<1>1. len \in Nat /\ Len(t) = len + 1 /\ t[len + 1] = line /\ \A k \in 1..len : t[k] = s[k]
  BY DEF Longer
<1>2. PICK g : Runs(g, s, len, dropped) /\ Kept(s, dropped) = g[len]
  BY <1>1, KeptIsRun
<1>3. PICK h : Runs(h, t, len + 1, dropped) /\ Kept(t, dropped) = h[len + 1]
  <2>1. Len(t) \in Nat
    BY <1>1
  <2>. QED
    BY <1>1, <2>1, KeptIsRun
<1>. HIDE DEF len
<1>4. /\ g[0] = <<>> /\ h[0] = <<>>
      /\ \A k \in 1..len : g[k] = Keeps(g[k - 1], s[k], dropped)
      /\ \A k \in 1..(len + 1) : h[k] = Keeps(h[k - 1], t[k], dropped)
  BY <1>2, <1>3 DEF Runs
<1> DEFINE Same == {k \in Nat : k <= len => g[k] = h[k]}
<1>5. 0 \in Same
  BY <1>4
<1>6. ASSUME NEW k \in Nat, k \in Same PROVE k + 1 \in Same
  <2>. SUFFICES ASSUME k + 1 <= len PROVE g[k + 1] = h[k + 1]
    OBVIOUS
  <2>1. k <= len /\ k + 1 \in 1..len /\ k + 1 \in 1..(len + 1) /\ (k + 1) - 1 = k
    BY <1>1
  <2>2. g[k] = h[k]
    BY <1>6, <2>1
  <2>3. g[k + 1] = Keeps(g[k], s[k + 1], dropped) /\ h[k + 1] = Keeps(h[k], t[k + 1], dropped)
    BY <1>4, <2>1
  <2>4. t[k + 1] = s[k + 1]
    BY <1>1, <2>1
  <2>. QED
    BY <2>2, <2>3, <2>4
<1>7. Nat \subseteq Same
  <2>. HIDE DEF Same
  <2>. QED
    BY <1>5, <1>6, NatSetInduction
<1>8. g[len] = h[len]
  BY <1>1, <1>7
<1>9. len + 1 \in 1..(len + 1) /\ (len + 1) - 1 = len
  BY <1>1
<1>10. h[len + 1] = Keeps(h[len], t[len + 1], dropped)
  BY <1>4, <1>9
<1>. QED
  BY <1>1, <1>2, <1>3, <1>8, <1>10

LEMMA KeptIsSeq ==
  ASSUME NEW s, Len(s) \in Nat, NEW dropped
  PROVE  IsSeq(Kept(s, dropped))
<1>1. PICK g : Runs(g, s, Len(s), dropped) /\ Kept(s, dropped) = g[Len(s)]
  BY KeptIsRun
<1> DEFINE len == Len(s)
           Fine == {k \in Nat : k <= len => IsSeq(g[k])}
<1>2. /\ len \in Nat /\ g[0] = <<>>
      /\ \A k \in 1..len : g[k] = Keeps(g[k - 1], s[k], dropped)
  BY <1>1 DEF Runs
<1>3. 0 \in Fine
  BY <1>2, EmptyIsSeq
<1>. HIDE DEF len
<1>4. ASSUME NEW k \in Nat, k \in Fine PROVE k + 1 \in Fine
  <2>. SUFFICES ASSUME k + 1 <= len PROVE IsSeq(g[k + 1])
    OBVIOUS
  <2>1. k <= len /\ k + 1 \in 1..len /\ (k + 1) - 1 = k
    BY <1>2
  <2>2. IsSeq(g[k])
    BY <1>4, <2>1
  <2>3. g[k + 1] = Keeps(g[k], s[k + 1], dropped)
    BY <1>2, <2>1
  <2>. QED
    BY <2>2, <2>3, KeepsSeq
<1>5. Nat \subseteq Fine
  <2>. HIDE DEF Fine
  <2>. QED
    BY <1>3, <1>4, NatSetInduction
<1>6. IsSeq(g[len])
  BY <1>2, <1>5
<1>. QED
  BY <1>1, <1>6 DEF len

LEMMA NothingKept ==
  ASSUME NEW s, Len(s) = 0, NEW dropped
  PROVE  Kept(s, dropped) = <<>>
<1>1. PICK g : Runs(g, s, 0, dropped) /\ Kept(s, dropped) = g[0]
  BY KeptIsRun
<1>. QED
  BY <1>1 DEF Runs

-----------------------------------------------------------------------------
(* The form replayer and the library, as long as that keeps up. What it    *)
(* has carried out or is at, and that with what the file holds; both are   *)
(* compared whatever else than what is not waited for is left out.         *)
Begun(dropped) ==
  IF dll = "busy" THEN Keeps(Kept(done, dropped), lastSeen, dropped) ELSE Kept(done, dropped)
Ahead(dropped) ==
  IF file \in {None, lastSeen} THEN Begun(dropped) ELSE Keeps(Begun(dropped), file, dropped)

(* No line of a form needs the window. *)
WindowInv ==
  \A x \in {file, lastSeen, writing} : x \in Leftovers \cup {None} \/ ~NeedsCanvas(x)

(* Nothing is issued before there is a game to attach to. *)
Preflight == {"begin", "unlink_sentinel", "unlink_directive", "attach", "failed"}
BeforeInv ==
  /\ fpc = "close" => file = None /\ writing # None
  /\ attaches = 0 =>
       /\ fpc \in Preflight /\ issued = <<>> /\ file \in Leftovers \cup {None}
       /\ dll = "off" /\ lastSeen = None

(* What the file holds is waited for, or need not be. *)
Waiting == fpc \in {"await", "pause"}
PendingInv ==
  IF Waiting
  THEN /\ Len(issued) \in Nat \ {0}
       /\ issued[Len(issued)].line = file /\ issued[Len(issued)].event = Now
       /\ file # None /\ (dll = "busy" => lastSeen \in Unawaited \cup {file})
  ELSE file \in Unawaited \cup {None, lastSeen} /\ (dll = "busy" => lastSeen \in Unawaited)

SameInv ==
  \A dropped : Unawaited \subseteq dropped =>
    /\ lastSeen # None => Keeps(Begun(dropped), lastSeen, dropped) = Begun(dropped)
    /\ Ahead(dropped) = Kept(IssuedLines, dropped)

KeptUp == ~hurried /\ (OneGame \/ attaches = 0)
CarryInv == who = "form" => WindowInv /\ BeforeInv /\ (KeptUp => PendingInv /\ SameInv)

(* The steps of the form replayer that leave the mailbox and what was      *)
(* issued: some wait for nothing, the others end a wait.                   *)
Stays ==
  \/ UNCHANGED <<fpc, ev, script, hurried>>
  \/ ~Waiting /\ fpc # "close" /\ ~Waiting' /\ fpc' # "close" /\ hurried' = hurried
EndsWait ==
  /\ Waiting /\ ~Waiting' /\ fpc' # "close"
  /\ hurried => hurried'
  /\ Quiet \/ hurried' \/ (fpc = "await" /\ Now.expect = <<>>)

LEMMA FormKinds ==
  ASSUME who = "form", [Next]_vars
  PROVE  \/ (Attach \/ Detach \/ Poll \/ Process) /\ UNCHANGED formVars
         \/ Issue \/ Written \/ ClearCommand \/ Again
         \/ UNCHANGED <<mailVars, issued>> /\ (Stays \/ EndsWait)
<1>1. CASE UNCHANGED vars
  BY <1>1 DEF vars, formVars, Stays
<1>2. CASE Pause \/ PairMissing \/ InvokeDone
  <2>1. UNCHANGED <<mailVars, issued>>
    BY <1>2 DEF Pause, PairMissing, InvokeDone, Stay
  <2>2. EndsWait
    <3>1. Waiting /\ ~Waiting' /\ fpc' # "close"
      BY <1>2 DEF Pause, PairMissing, InvokeDone, Waiting
    <3>2. (hurried => hurried') /\ (Quiet \/ hurried' \/ (fpc = "await" /\ Now.expect = <<>>))
      BY <1>2, Zenon DEF Pause, PairMissing, InvokeDone
    <3>. QED
      BY <3>1, <3>2 DEF EndsWait
  <2>. QED
    BY <2>1, <2>2
<1>3. CASE PairMatched \/ Matches \/ Handoff
  BY <1>3 DEF PairMatched, Matches, Handoff, Stay, eventVars, Stays
<1>4. CASE PreflightFails \/ AttachFails \/ UnlinkSentinel \/ UnlinkDirective \/ Attached
             \/ SkipEvent \/ Unmapped \/ UnresolvedHandle \/ UnresolvedPath
  BY <1>4 DEF PreflightFails, AttachFails, UnlinkSentinel, UnlinkDirective, Attached, SkipEvent,
     Unmapped, UnresolvedHandle, UnresolvedPath, Fails, Stay, Stays, Waiting
<1>5. CASE WriteDirective \/ NotParsed \/ DirectiveFails \/ WriteSentinel
  BY <1>5 DEF WriteDirective, NotParsed, DirectiveFails, WriteSentinel, Stay, Stays, Waiting
<1>. QED
  BY <1>1, <1>2, <1>3, <1>4, <1>5 DEF Next, FormNext, Library

(* A line of a form asks for no window.                                    *)
LEMMA CommandsNeedNoCanvas ==
  ASSUME NEW e, NEW number, NEW k \in {1, 2}, k = 2 => e.action = "open_modal",
         e.action \in Known \ {"skip"}
  PROVE  ~NeedsCanvas(Commands(e, number)[k]) /\ Commands(e, number)[k] # None
<1>1. \A op, salt : Command(op, e, salt).op = op /\ Command(op, e, salt) # None
  BY DEF Command, None
<1>2. \E op \in {"pick_slot", "set_byte", "call_vmt", "invoke"} : \E salt :
        Commands(e, number)[k] = Command(op, e, salt)
  BY DEF Known, Commands
<1>. QED
  BY <1>1, <1>2 DEF NeedsCanvas, ClickOps

LEMMA WindowStep ==
  ASSUME who = "form", FormTypes, NoClicksInv, WindowInv, [Next]_vars
  PROVE  WindowInv'
<1>1. CASE (Attach \/ Detach \/ Poll \/ Process) \/ Written \/ ClearCommand \/ Again
  BY <1>1 DEF Attach, Detach, Poll, Process, Written, CloseFile, ClearCommand, Again, WindowInv,
     NeedsCanvas
<1>2. CASE Issue
  <2>1. ~NeedsCanvas(Commands(Now, seqNo)[part])
    BY <1>2, CommandsNeedNoCanvas DEF Issue, NoClicksInv
  <2>. QED
    BY <1>2, <2>1 DEF Issue, OpenFile, WindowInv, NeedsCanvas
<1>3. CASE UNCHANGED <<mailVars, issued>>
  BY <1>3 DEF mailVars, WindowInv, NeedsCanvas
<1>. QED
  BY <1>1, <1>2, <1>3, FormKinds

LEMMA BeforeStep ==
  ASSUME who = "form", FormTypes, MailInv, NoClicksInv, BeforeInv, [Next]_vars
  PROVE  BeforeInv'
<1>0. attaches \in Nat
  BY DEF MailInv, MailTypeOK
<1>1. CASE (Attach \/ Detach \/ Poll \/ Process) /\ UNCHANGED formVars
  BY <1>0, <1>1 DEF Attach, Detach, Poll, Process, formVars, BeforeInv
<1>2. CASE Issue
  <2>1. Commands(Now, seqNo)[part] # None
    BY <1>2, CommandsNeedNoCanvas DEF Issue, NoClicksInv
  <2>. QED
    BY <1>2, <2>1 DEF Issue, OpenFile, BeforeInv, Preflight
<1>3. CASE Written \/ ClearCommand \/ Again
  BY <1>3 DEF Written, ClearCommand, Again, Stay, BeforeInv, Preflight, CloseFile
<1>4. CASE UNCHANGED <<mailVars, issued>> /\ (Stays \/ EndsWait)
  <2>1. fpc' = "close" => fpc = "close"
    BY <1>4 DEF Stays, EndsWait
  <2>2. fpc \in Preflight /\ dll = "off" /\ UNCHANGED mailVars => fpc' \in Preflight
    BY DEF Next, vars, formVars, FormNext, Library, Attach, Detach, Poll, Process, PreflightFails,
       AttachFails, UnresolvedHandle, UnresolvedPath, Fails, Attached, SkipEvent, Unmapped, Pause,
       PairMatched, PairMissing, InvokeDone, ClearCommand, UnlinkSentinel, UnlinkDirective, Again,
       WriteDirective, NotParsed, DirectiveFails, WriteSentinel, Issue, Written, Matches, Handoff,
       Preflight, mailVars
  <2>. QED
    BY <1>4, <2>1, <2>2 DEF BeforeInv, mailVars
<1>. QED
  BY <1>1, <1>2, <1>3, <1>4, FormKinds

LEMMA KeptUpBefore ==
  ASSUME who = "form", MailInv, BeforeInv, [Next]_vars, KeptUp'
  PROVE  KeptUp /\ ~Detach /\ (Attach => attaches = 0)
<1>1. attaches \in Nat
  BY DEF MailInv, MailTypeOK
<1>2. ~hurried
  <2>1. CASE Issue \/ Written \/ ClearCommand \/ Again
    BY <2>1, Zenon DEF Issue, Written, ClearCommand, Again, KeptUp
  <2>2. CASE UNCHANGED formVars
    BY <2>2 DEF formVars, KeptUp
  <2>3. CASE Stays \/ EndsWait
    BY <2>3, Zenon DEF Stays, EndsWait, KeptUp
  <2>. QED
    BY <2>1, <2>2, <2>3, FormKinds
<1>3. CASE Attach
  <2>1. attaches' = attaches + 1
    BY <1>3 DEF Attach
  <2>2. attaches = 0
    BY <1>1, <2>1 DEF KeptUp, OneGame
  <2>. QED
    BY <1>2, <1>3, <2>2 DEF KeptUp, Attach, Detach
<1>4. CASE Detach
  BY <1>1, <1>4 DEF Detach, KeptUp, OneGame, BeforeInv
<1>5. CASE Poll \/ Process
  BY <1>2, <1>5 DEF Poll, Process, KeptUp, OneGame, Attach, Detach
<1>6. CASE UNCHANGED <<lastSeen, dll, canvas, dlog, done, attaches>>
  BY <1>1, <1>2, <1>6 DEF Attach, Detach, KeptUp, OneGame
<1>7. CASE CanvasAppears
  BY <1>2, <1>7 DEF CanvasAppears, KeptUp, OneGame, Attach, Detach
<1>. QED
  BY <1>3, <1>4, <1>5, <1>6, <1>7, MailKinds

(* What is not waited for.                                                 *)
LEMMA SameUnawaited ==
  ASSUME UNCHANGED issued
  PROVE  Unawaited' = Unawaited /\ IssuedLines' = IssuedLines
BY DEF Unawaited, IssuedLines, Awaits

LEMMA DoneCounts ==
  ASSUME MailInv
  PROVE  Len(done) \in Nat /\ \A dropped : IsSeq(Kept(done, dropped))
<1>1. Len(done) \in Nat
  BY LenProperties DEF MailInv, IsSeq
<1>. QED
  BY <1>1, KeptIsSeq

(* Not to carry out a line is to drop it: that needs the window.           *)
LEMMA ProcessKeeps ==
  ASSUME who = "form", MailInv, WindowInv, [Next]_vars, Process,
         NEW dropped, Leftovers \subseteq dropped
  PROVE  Begun(dropped)' = Begun(dropped)
<1>1. dll = "busy" /\ lastSeen # None /\ dll' = "idle"
  BY DEF Process, MailInv, MailTypeOK
<1>2. Kept(done', dropped) = Keeps(Kept(done, dropped), lastSeen, dropped)
  <2>1. CASE canvas \/ ~NeedsCanvas(lastSeen)
    <3>1. done' = Append(done, lastSeen) /\ IsSeq(done)
      BY <2>1 DEF Process, MailInv, MailTypeOK
    <3>2. Longer(done', done, lastSeen)
      BY <3>1, AppendAny DEF Longer
    <3>. QED
      BY <3>2, KeptGrows
  <2>2. CASE ~(canvas \/ ~NeedsCanvas(lastSeen))
    <3>1. done' = done
      BY <2>2 DEF Process
    <3>2. lastSeen \in dropped
      BY <1>1, <2>2 DEF WindowInv
    <3>. QED
      BY <3>1, <3>2 DEF Keeps
  <2>. QED
    BY <2>1, <2>2
<1>. QED
  BY <1>1, <1>2 DEF Begun

LEMMA AttachCarry ==
  ASSUME who = "form", BeforeInv, Attach, attaches = 0, UNCHANGED formVars,
         MailInv
  PROVE  PendingInv' /\ SameInv'
<1>1. /\ fpc' \in Preflight /\ issued' = <<>> /\ file' \in Leftovers \cup {None}
      /\ dll' = "idle" /\ lastSeen' = None /\ done' = <<>>
  BY DEF BeforeInv, Attach, formVars, MailInv
<1>2. Len(done') = 0 /\ Len(IssuedLines') = 0
  <2>1. Len(<<>>) = 0 /\ 1..0 = {}
    BY EmptyIsSeq
  <2>2. IssuedLines' = <<>>
    <3>1. IssuedLines' = [k \in 1..0 |-> issued'[k].line]
      BY <1>1, <2>1 DEF IssuedLines
    <3>. QED
      BY <3>1
  <2>. QED
    BY <1>1, <2>1, <2>2
<1>3. ASSUME NEW dropped, Unawaited' \subseteq dropped
      PROVE  Ahead(dropped)' = Kept(IssuedLines', dropped)
  <2>1. Begun(dropped)' = <<>> /\ Kept(IssuedLines', dropped) = <<>>
    BY <1>1, <1>2, NothingKept DEF Begun
  <2>2. file' = None \/ file' \in dropped
    BY <1>1, <1>3 DEF Unawaited
  <2>. QED
    BY <2>1, <2>2 DEF Ahead, Keeps
<1>4. SameInv'
  BY <1>1, <1>3 DEF SameInv
<1>5. PendingInv'
  BY <1>1 DEF PendingInv, Waiting, Preflight, Unawaited
<1>. QED
  BY <1>4, <1>5

LEMMA PollCarry ==
  ASSUME Poll, UNCHANGED formVars, MailInv, PendingInv, SameInv
  PROVE  PendingInv' /\ SameInv'
<1>1. /\ dll = "idle" /\ file # None /\ file # lastSeen /\ UNCHANGED <<file, done, issued>>
      /\ dll' = "busy" /\ lastSeen' = file
  BY DEF Poll, formVars
<1>2. Unawaited' = Unawaited /\ IssuedLines' = IssuedLines
  BY <1>1, SameUnawaited
<1>3. ASSUME NEW dropped, Unawaited' \subseteq dropped
      PROVE  /\ Keeps(Begun(dropped)', lastSeen', dropped) = Begun(dropped)'
             /\ Ahead(dropped)' = Kept(IssuedLines', dropped)
  <2>1. Begun(dropped)' = Keeps(Kept(done, dropped), file, dropped)
    BY <1>1 DEF Begun
  <2>2. Ahead(dropped) = Keeps(Kept(done, dropped), file, dropped)
    BY <1>1 DEF Ahead, Begun
  <2>3. Ahead(dropped)' = Begun(dropped)'
    BY <1>1 DEF Ahead
  <2>4. Ahead(dropped) = Kept(IssuedLines, dropped)
    BY <1>2, <1>3 DEF SameInv
  <2>5. IsSeq(Kept(done, dropped))
    BY DoneCounts
  <2>6. Keeps(Begun(dropped)', file, dropped) = Begun(dropped)'
    BY <2>1, <2>5, KeepsSeq
  <2>7. Ahead(dropped)' = Kept(IssuedLines, dropped)
    BY <2>1, <2>2, <2>3, <2>4
  <2>. QED
    BY <1>1, <1>2, <2>6, <2>7
<1>4. SameInv'
  BY <1>3 DEF SameInv
<1>5. PendingInv'
  BY <1>1, <1>2 DEF PendingInv, Waiting, formVars, Now, Events
<1>. QED
  BY <1>4, <1>5

LEMMA ProcessCarry ==
  ASSUME who = "form", [Next]_vars, Process, UNCHANGED formVars, MailInv, WindowInv,
         PendingInv, SameInv
  PROVE  PendingInv' /\ SameInv'
<1>1. UNCHANGED <<file, lastSeen, issued>> /\ dll' = "idle"
  BY DEF Process, formVars
<1>2. Unawaited' = Unawaited /\ IssuedLines' = IssuedLines
  BY <1>1, SameUnawaited
<1>3. ASSUME NEW dropped, Unawaited' \subseteq dropped
      PROVE  /\ lastSeen' # None => Keeps(Begun(dropped)', lastSeen', dropped) = Begun(dropped)'
             /\ Ahead(dropped)' = Kept(IssuedLines', dropped)
  <2>1. Begun(dropped)' = Begun(dropped)
    BY <1>3, ProcessKeeps DEF Unawaited
  <2>2. Ahead(dropped)' = Ahead(dropped)
    BY <1>1, <2>1 DEF Ahead
  <2>. QED
    BY <1>1, <1>2, <1>3, <2>1, <2>2 DEF SameInv
<1>4. SameInv'
  BY <1>3 DEF SameInv
<1>5. PendingInv'
  BY <1>1, <1>2 DEF PendingInv, Waiting, formVars, Now, Events
<1>. QED
  BY <1>4, <1>5

(* A file is emptied only when what it holds is not waited for any more.   *)
LEMMA EmptiedCarry ==
  ASSUME file' = None, ~Waiting, ~Waiting', UNCHANGED <<lastSeen, dll, done, issued>>,
         PendingInv, SameInv
  PROVE  PendingInv' /\ SameInv'
<1>1. Unawaited' = Unawaited /\ IssuedLines' = IssuedLines
  BY SameUnawaited
<1>2. ASSUME NEW dropped, Unawaited' \subseteq dropped
      PROVE  /\ lastSeen' # None => Keeps(Begun(dropped)', lastSeen', dropped) = Begun(dropped)'
             /\ Ahead(dropped)' = Kept(IssuedLines', dropped)
  <2>1. Begun(dropped)' = Begun(dropped)
    BY DEF Begun
  <2>2. Ahead(dropped)' = Begun(dropped)
    BY <2>1 DEF Ahead
  <2>3. file \in dropped \cup {None, lastSeen}
    BY <1>1, <1>2 DEF PendingInv
  <2>4. Ahead(dropped) = Begun(dropped)
    BY <2>3 DEF Ahead, Keeps
  <2>. QED
    BY <1>1, <1>2, <2>1, <2>2, <2>4 DEF SameInv
<1>3. SameInv'
  BY <1>2 DEF SameInv
<1>4. PendingInv'
  BY <1>1 DEF PendingInv
<1>. QED
  BY <1>3, <1>4

LEMMA WrittenCarry ==
  ASSUME who = "form", [Next]_vars, Written, FormTypes, BeforeInv, PendingInv, SameInv
  PROVE  PendingInv' /\ SameInv'
<1>1. /\ fpc = "close" /\ Waiting' /\ ~Waiting /\ file = None /\ writing # None /\ file' = writing
      /\ UNCHANGED <<lastSeen, dll, done>> /\ Now' = Now
  BY DEF Written, CloseFile, Waiting, BeforeInv, eventVars, Now, Events
<1>2. /\ Len(issued) \in Nat /\ Len(issued') = Len(issued) + 1
      /\ issued'[Len(issued) + 1] = [line |-> writing, event |-> Now, run |-> run]
      /\ \A i \in 1..Len(issued) : issued'[i] = issued[i]
  BY AppendAny DEF Written, FormTypes
<1>3. Longer(IssuedLines', IssuedLines, writing)
  <2>1. /\ IssuedLines = [k \in 1..Len(issued) |-> issued[k].line]
        /\ IssuedLines' = [k \in 1..Len(issued') |-> issued'[k].line]
    BY DEF IssuedLines
  <2>2. /\ Len(issued) + 1 \in 1..Len(issued')
        /\ \A i \in 1..Len(issued) : i \in 1..Len(issued')
    BY <1>2
  <2>3. Len(IssuedLines) = Len(issued) /\ Len(IssuedLines') = Len(issued')
    BY <1>2, <2>1
  <2>. QED
    BY <1>2, <2>1, <2>2, <2>3 DEF Longer
<1>4. Unawaited \subseteq Unawaited'
  <2>1. \A i \in 1..Len(issued) : i \in 1..Len(issued')
    BY <1>2
  <2>. QED
    BY <1>2, <2>1 DEF Unawaited, Awaits
<1>5. ASSUME NEW dropped, Unawaited' \subseteq dropped
      PROVE  /\ lastSeen' # None => Keeps(Begun(dropped)', lastSeen', dropped) = Begun(dropped)'
             /\ Ahead(dropped)' = Kept(IssuedLines', dropped)
  <2>1. Begun(dropped)' = Begun(dropped)
    BY <1>1 DEF Begun
  <2>2. /\ lastSeen # None => Keeps(Begun(dropped), lastSeen, dropped) = Begun(dropped)
        /\ Ahead(dropped) = Kept(IssuedLines, dropped)
    BY <1>4, <1>5 DEF SameInv
  <2>3. Ahead(dropped) = Begun(dropped)
    BY <1>1 DEF Ahead
  <2>4. Ahead(dropped)' = Keeps(Begun(dropped), writing, dropped)
    BY <1>1, <2>1, <2>2 DEF Ahead
  <2>5. Kept(IssuedLines', dropped) = Keeps(Kept(IssuedLines, dropped), writing, dropped)
    BY <1>3, KeptGrows
  <2>. QED
    BY <1>1, <2>1, <2>2, <2>3, <2>4, <2>5
<1>6. SameInv'
  BY <1>5 DEF SameInv
<1>7. PendingInv'
  <2>1. Len(issued') \in Nat \ {0} /\ issued'[Len(issued')].line = file'
        /\ issued'[Len(issued')].event = Now'
    BY <1>1, <1>2
  <2>2. dll' = "busy" => lastSeen' \in Unawaited'
    BY <1>1, <1>4 DEF PendingInv
  <2>. QED
    BY <1>1, <2>1, <2>2 DEF PendingInv
<1>. QED
  BY <1>6, <1>7

(* A wait ends when the library has nothing left to do, or was none.       *)
LEMMA EndsCarry ==
  ASSUME who = "form", [Next]_vars, EndsWait, UNCHANGED <<mailVars, issued>>, EventInv, BeforeInv,
         OneGame \/ attaches = 0, ~hurried', PendingInv, SameInv
  PROVE  PendingInv' /\ SameInv'
<1>1. Unawaited' = Unawaited /\ IssuedLines' = IssuedLines
  BY SameUnawaited
<1>2. SameInv'
  <2>1. \A dropped : Begun(dropped)' = Begun(dropped) /\ Ahead(dropped)' = Ahead(dropped)
    BY DEF Begun, Ahead, mailVars
  <2>. QED
    BY <1>1, <2>1 DEF SameInv, mailVars
<1>3. Waiting /\ ~Waiting' /\ UNCHANGED <<file, lastSeen, dll>>
  BY DEF EndsWait, mailVars
<1>4. CASE Quiet
  <2>1. dll # "off"
    BY <1>3 DEF OneGame, BeforeInv, Waiting, Preflight
  <2>2. dll = "idle" /\ file \in {None, lastSeen}
    BY <1>4, <2>1 DEF Quiet
  <2>. QED
    BY <1>2, <1>3, <2>2 DEF PendingInv
<1>5. CASE fpc = "await" /\ Now.expect = <<>>
  <2>1. Len(issued) \in 1..Len(issued) /\ ~Awaits(issued[Len(issued)].event)
    BY <1>3, <1>5 DEF PendingInv, EventInv, Awaits
  <2>2. file \in Unawaited
    BY <1>3, <2>1 DEF PendingInv, Unawaited
  <2>. QED
    BY <1>1, <1>2, <1>3, <2>2 DEF PendingInv
<1>. QED
  BY <1>4, <1>5 DEF EndsWait

LEMMA StaysCarry ==
  ASSUME Stays, UNCHANGED <<mailVars, issued>>, PendingInv, SameInv
  PROVE  PendingInv' /\ SameInv'
<1>1. Unawaited' = Unawaited /\ IssuedLines' = IssuedLines
  BY SameUnawaited
<1>2. SameInv'
  <2>1. \A dropped : Begun(dropped)' = Begun(dropped) /\ Ahead(dropped)' = Ahead(dropped)
    BY DEF Begun, Ahead, mailVars
  <2>. QED
    BY <1>1, <2>1 DEF SameInv, mailVars
<1>3. PendingInv'
  BY <1>1 DEF Stays, PendingInv, Waiting, mailVars, Now, Events
<1>. QED
  BY <1>2, <1>3

(* A run that is killed has ended its wait.                                *)
LEMMA AgainCarry ==
  ASSUME who = "form", Again, BeforeInv, KeptUp, KeptUp', PendingInv, SameInv
  PROVE  PendingInv' /\ SameInv'
<1>1. UNCHANGED <<file, lastSeen, dll, done, attaches, issued>> /\ ~Waiting' /\ Quiet
  BY DEF Again, Waiting, KeptUp
<1>2. Unawaited' = Unawaited /\ IssuedLines' = IssuedLines
  BY <1>1, SameUnawaited
<1>3. SameInv'
  <2>1. \A dropped : Begun(dropped)' = Begun(dropped) /\ Ahead(dropped)' = Ahead(dropped)
    BY <1>1 DEF Begun, Ahead
  <2>. QED
    BY <1>1, <1>2, <2>1 DEF SameInv
<1>4. PendingInv'
  <2>1. file \in Unawaited \cup {None, lastSeen} /\ dll # "busy"
    BY <1>1 DEF Quiet, PendingInv, KeptUp, OneGame, BeforeInv, Unawaited
  <2>. QED
    BY <1>1, <1>2, <2>1 DEF PendingInv
<1>. QED
  BY <1>3, <1>4

LEMMA CarryStep ==
  ASSUME FormInv, CarryInv, [Next]_vars
  PROVE  CarryInv'
<1>. SUFFICES ASSUME who = "form"
              PROVE  (WindowInv /\ BeforeInv /\ (KeptUp => PendingInv /\ SameInv))'
  BY FormStep DEF CarryInv
<1>1. FormTypes /\ EventInv /\ MailInv /\ NoClicksInv /\ WindowInv /\ BeforeInv
  BY DEF FormInv, CarryInv
<1>2. WindowInv' /\ BeforeInv'
  BY <1>1, WindowStep, BeforeStep
<1>3. ASSUME KeptUp' PROVE PendingInv' /\ SameInv'
  <2>1. KeptUp /\ ~Detach /\ (Attach => attaches = 0)
    BY <1>1, <1>3, KeptUpBefore
  <2>2. PendingInv /\ SameInv
    BY <2>1 DEF CarryInv
  <2>3. CASE (Attach \/ Detach \/ Poll \/ Process) /\ UNCHANGED formVars
    BY <1>1, <2>1, <2>2, <2>3, AttachCarry, PollCarry, ProcessCarry
  <2>4. CASE Issue \/ ClearCommand
    <3>1. /\ file' = None /\ ~Waiting /\ ~Waiting' /\ UNCHANGED <<lastSeen, dll, done, issued>>
      BY <2>4 DEF Issue, ClearCommand, OpenFile, Waiting, Stay
    <3>. QED
      BY <2>2, <3>1, EmptiedCarry
  <2>5. CASE Written
    BY <1>1, <2>2, <2>5, WrittenCarry
  <2>6. CASE Again
    BY <1>1, <1>3, <2>1, <2>2, <2>6, AgainCarry
  <2>7. CASE UNCHANGED <<mailVars, issued>> /\ (Stays \/ EndsWait)
    BY <1>1, <1>3, <2>1, <2>2, <2>7, StaysCarry, EndsCarry DEF KeptUp
  <2>. QED
    BY <2>3, <2>4, <2>5, <2>6, <2>7, FormKinds
<1>. QED
  BY <1>2, <1>3

LEMMA CarryInit == Init => CarryInv
<1>. SUFFICES ASSUME Init PROVE WindowInv /\ BeforeInv /\ PendingInv /\ SameInv
  BY DEF CarryInv
<1>1. /\ fpc = "begin" /\ issued = <<>> /\ file \in Leftovers \cup {None} /\ writing = None
      /\ dll = "off" /\ lastSeen = None /\ done = <<>>
  BY DEF Init, FormInit, MailInit, Lines
<1>2. Len(done) = 0 /\ Len(IssuedLines) = 0
  <2>1. Len(<<>>) = 0 /\ 1..0 = {}
    BY EmptyIsSeq
  <2>2. IssuedLines = <<>>
    <3>1. IssuedLines = [k \in 1..0 |-> issued[k].line]
      BY <1>1, <2>1 DEF IssuedLines
    <3>. QED
      BY <3>1
  <2>. QED
    BY <1>1, <2>1, <2>2
<1>3. ASSUME NEW dropped, Unawaited \subseteq dropped
      PROVE  Ahead(dropped) = Kept(IssuedLines, dropped)
  <2>1. Begun(dropped) = <<>> /\ Kept(IssuedLines, dropped) = <<>>
    BY <1>1, <1>2, NothingKept DEF Begun
  <2>2. file = None \/ file \in dropped
    BY <1>1, <1>3 DEF Unawaited
  <2>. QED
    BY <2>1, <2>2 DEF Ahead, Keeps
<1>4. SameInv
  BY <1>1, <1>3 DEF SameInv
<1>5. PendingInv
  BY <1>1 DEF PendingInv, Waiting, Unawaited
<1>. QED
  BY <1>1, <1>4, <1>5 DEF WindowInv, BeforeInv, Preflight

(* A library that keeps up carries out every line that is waited for, in   *)
(* order, and none twice that was not written twice, however often the     *)
(* replayer is killed and started anew.                                    *)
THEOREM CommandsAreCarriedOut == Spec => []CarriedOut
<1>1. FormInv /\ CarryInv => CarriedOut
  <2>. SUFFICES ASSUME FormInv, CarryInv, who = "form", fpc = "done", OneGame, ~hurried
                PROVE  Kept(done, Unawaited) = Kept(IssuedLines, Unawaited)
    BY DEF CarriedOut
  <2>1. PendingInv /\ SameInv
    BY DEF CarryInv, KeptUp
  <2>2. file \in Unawaited \cup {None, lastSeen} /\ (dll = "busy" => lastSeen \in Unawaited)
    BY <2>1 DEF PendingInv, Waiting
  <2>3. Begun(Unawaited) = Kept(done, Unawaited)
    BY <2>2 DEF Begun, Keeps
  <2>4. Ahead(Unawaited) = Begun(Unawaited)
    BY <2>2 DEF Ahead, Keeps
  <2>5. Ahead(Unawaited) = Kept(IssuedLines, Unawaited)
    BY <2>1 DEF SameInv
  <2>. QED
    BY <2>3, <2>4, <2>5
<1>2. FormInv /\ CarryInv /\ [Next]_vars => CarryInv'
  BY CarryStep
<1>. QED
  BY <1>1, <1>2, CarryInit, FormInvariant, PTL DEF Spec

-----------------------------------------------------------------------------
(* The driver of clicks.                                                   *)

LEMMA ClicksAreCounted == Len(Clicks) \in Nat
  BY DomAssumption, LenProperties

LEMMA LineIsOwn ==
  ASSUME NEW i \in 1..Len(Clicks), NEW at
  PROVE  /\ OwnClick(ClickLine(i, at)) /\ ClickLine(i, at) # None
         /\ ClickLine(i, at).salt = i
         /\ ClickLine(i, at).op = IF IsDbl(i) THEN "click_dbl" ELSE "click_post"
<1>1. ClickLine(i, at).salt = i
      /\ ClickLine(i, at).op = IF IsDbl(i) THEN "click_dbl" ELSE "click_post"
  BY DEF ClickLine
<1>2. ClickLine(i, at) \notin Leftovers
  BY <1>1, TokenAssumption
<1>3. ClickLine(i, at) # None
  BY DEF ClickLine, None
<1>. QED
  BY <1>1, <1>2, <1>3 DEF OwnClick, ClickOps

(* The steps the library and the game take, and those of the driver.       *)
GameStep == (Attach \/ Detach \/ CanvasAppears \/ Poll \/ Process) /\ UNCHANGED domVars
Quietly  == ResizeAcked \/ ResizeAgain \/ StartTail \/ ClickAcked \/ Synced \/ NotSynced
              \/ DriverEnds \/ ServerMatches
Passes   == /\ pc = "click" /\ n <= Len(Clicks) /\ Absorbed(n)
            /\ n' = n + 1 /\ UNCHANGED <<mailVars, pc, tail, slow, resized>>
Sends    == /\ pc = "click" /\ n <= Len(Clicks) /\ ~Absorbed(n)
            /\ \E at : OpenFile(ClickLine(n, at))
            /\ pc' = "click_close" /\ UNCHANGED <<n, tail, slow, resized>>

LEMMA DomKinds ==
  ASSUME who = "dom", [Next]_vars
  PROVE  /\ who' = "dom"
         /\ \/ GameStep \/ Resize \/ Close \/ Passes \/ Sends
            \/ (Quietly /\ UNCHANGED mailVars)
            \/ UNCHANGED <<mailVars, domVars>>
<1>1. ASSUME NEW pic \in Pictures, Resolve(pic) PROVE Passes \/ Sends
  <2>1. CASE Absorbed(n)
    BY <1>1, <2>1 DEF Resolve, Passes
  <2>2. CASE ~Absorbed(n)
    BY <1>1, <2>2 DEF Resolve, Sends
  <2>. QED
    BY <2>1, <2>2
<1>2. Quietly => UNCHANGED mailVars
  BY DEF Quietly, ResizeAcked, ResizeAgain, StartTail, ClickAcked, Synced, NotSynced, DriverEnds,
     ServerMatches
<1>. QED
  BY <1>1, <1>2 DEF Next, vars, DomNext, Library, GameStep, Quietly

LEMMA DriverTypesStep ==
  ASSUME who = "dom", MailInv, DriverTypes, [Next]_vars
  PROVE  DriverTypes'
<1>1. Len(dlog) \in Nat
  BY LenProperties DEF MailInv, MailTypeOK, IsSeq
<1>2. CASE GameStep \/ Resize \/ Close \/ Passes \/ Sends \/ UNCHANGED <<mailVars, domVars>>
  BY <1>2 DEF GameStep, Resize, Close, Passes, Sends, domVars, DriverTypes
<1>3. CASE Quietly
  BY <1>1, <1>3 DEF Quietly, ResizeAcked, ResizeAgain, StartTail, ClickAcked, Synced, NotSynced,
     DriverEnds, ServerMatches, DriverTypes
<1>. QED
  BY <1>2, <1>3, DomKinds

LEMMA PlaceStep ==
  ASSUME who = "dom", DriverTypes, PlaceInv, [Next]_vars
  PROVE  PlaceInv'
<1>1. Len(Clicks) \in Nat /\ n \in Nat \ {0}
  BY ClicksAreCounted DEF DriverTypes
<1>2. CASE GameStep
  BY <1>2 DEF GameStep, Attach, Detach, CanvasAppears, Poll, Process, domVars, PlaceInv, Resizing
<1>3. CASE Resize
  <2>1. [op |-> "resize", at |-> Client, salt |-> -n] # None
    BY DEF None
  <2>. QED
    BY <1>3, <2>1 DEF Resize, OpenFile, PlaceInv, Resizing
<1>4. CASE Close
  BY <1>1, <1>4 DEF Close, CloseFile, PlaceInv, Resizing
<1>5. CASE Passes
  BY <1>1, <1>5 DEF Passes, mailVars, PlaceInv, Resizing
<1>6. CASE Sends
  <2>1. n \in 1..Len(Clicks)
    BY <1>1, <1>6 DEF Sends
  <2>2. PICK at : OpenFile(ClickLine(n, at))
    BY <1>6 DEF Sends
  <2>. QED
    BY <1>1, <1>6, <2>1, <2>2, LineIsOwn DEF Sends, OpenFile, PlaceInv, Resizing
<1>7. CASE Quietly /\ UNCHANGED mailVars
  BY <1>1, <1>7 DEF Quietly, ResizeAcked, ResizeAgain, StartTail, ClickAcked, Synced, NotSynced,
     DriverEnds, ServerMatches, mailVars, PlaceInv, Resizing
<1>8. CASE UNCHANGED <<mailVars, domVars>>
  BY <1>8 DEF mailVars, domVars, PlaceInv, Resizing
<1>. QED
  BY <1>2, <1>3, <1>4, <1>5, <1>6, <1>7, <1>8, DomKinds

(* The clicks carried out stay, and grow by the click that was seen.       *)
LEMMA ClicksGrow ==
  ASSUME MailInv, [Next]_vars
  PROVE  /\ \A k \in ClicksDone : k \in 1..Len(done) /\ OwnClick(done[k]) /\ done[k] \in Held
         /\ \/ UNCHANGED done /\ ClicksDone' = ClicksDone
            \/ /\ Process
               /\ Len(done) \in Nat
               /\ \A k \in ClicksDone : k \in ClicksDone' /\ done'[k] = done[k]
               /\ \A k \in ClicksDone' :
                    k \in ClicksDone \/ (k = Len(done) + 1 /\ OwnClick(lastSeen))
               /\ Len(done') = Len(done) + 1
               /\ done'[Len(done) + 1] = lastSeen
               /\ OwnClick(lastSeen) => Len(done) + 1 \in ClicksDone'
<1>1. \A k \in ClicksDone : k \in 1..Len(done) /\ OwnClick(done[k]) /\ done[k] \in Held
  BY DEF ClicksDone, Held, MailInv, MailTypeOK
<1>2. CASE UNCHANGED done
  BY <1>1, <1>2 DEF ClicksDone
<1>3. CASE /\ Process /\ Len(done) \in Nat
           /\ Len(done') = Len(done) + 1 /\ done'[Len(done) + 1] = lastSeen
           /\ \A i \in 1..Len(done) : done'[i] = done[i]
  <2>1. \A k \in 1..Len(done') : k \in 1..Len(done) \/ k = Len(done) + 1
    BY <1>3
  <2>2. \A k \in 1..Len(done) : k \in 1..Len(done')
    BY <1>3
  <2>3. Len(done) + 1 \in 1..Len(done')
    BY <1>3
  <2>. QED
    BY <1>1, <1>3, <2>1, <2>2, <2>3 DEF ClicksDone
<1>. QED
  BY <1>1, <1>2, <1>3, DoneGrows

LEMMA HeldStep ==
  ASSUME who = "dom", MailInv, [Next]_vars
  PROVE  \/ ~Close /\ Held' \subseteq Held
         \/ Close /\ Held' \subseteq Held \cup {writing}
<1>1. CASE GameStep
  <2>1. /\ {file', lastSeen'} \subseteq {file, lastSeen, None} /\ ~Close
    BY <1>1 DEF GameStep, Attach, Detach, CanvasAppears, Poll, Process, Close, CloseFile, domVars
  <2>2. \A k \in 1..Len(done') : done'[k] \in {done[i] : i \in 1..Len(done)} \cup {lastSeen}
    <3>1. \A k \in 1..Len(done') : k \in 1..Len(done) \/ k = Len(done) + 1 \/ UNCHANGED done
      BY DoneGrows
    <3>. QED
      BY <3>1, DoneGrows
  <2>. QED
    BY <2>1, <2>2 DEF Held
<1>2. CASE Close
  BY <1>2 DEF Close, CloseFile, Held
<1>3. CASE Resize \/ Passes \/ Sends \/ (Quietly /\ UNCHANGED mailVars)
             \/ UNCHANGED <<mailVars, domVars>>
  <2>1. file' \in {None, file} /\ UNCHANGED <<lastSeen, done>>
    BY <1>3 DEF Resize, Sends, Passes, OpenFile, mailVars
  <2>. QED
    BY <1>2, <2>1 DEF Held
<1>. QED
  BY <1>1, <1>2, <1>3, DomKinds

(* The clicks sent are counted upwards, and by the writes.                 *)
LEMMA SentGrows ==
  ASSUME who = "dom", DriverTypes, PlaceInv, [Next]_vars
  PROVE  /\ Sent \in Nat /\ Sent' \in Nat /\ Sent <= Sent'
         /\ Close => Sent' = IF pc = "click_close" THEN n ELSE 0
         /\ pc = "click_close" => Sent = n - 1
         /\ Resizing => Sent = 0
<1>1. n \in Nat \ {0}
  BY DEF DriverTypes
<1>2. CASE GameStep \/ Resize \/ Close \/ Passes \/ Sends \/ UNCHANGED <<mailVars, domVars>>
  BY <1>1, <1>2 DEF GameStep, domVars, Resize, Close, Passes, Sends, Sent, Resizing
<1>3. CASE Quietly
  BY <1>1, <1>3 DEF Quietly, ResizeAcked, ResizeAgain, StartTail, ClickAcked, Synced, NotSynced,
     DriverEnds, ServerMatches, Sent, Resizing, Close
<1>. QED
  BY <1>2, <1>3, DomKinds

(* What is about to be written is a new click, or the resize.              *)
LEMMA NewLine ==
  ASSUME DriverTypes, PlaceInv, pc \in {"resize_close", "click_close"}
  PROVE  /\ writing # None
         /\ pc = "resize_close" => writing.op = "resize" /\ ~OwnClick(writing)
         /\ pc = "click_close" => OwnClick(writing) /\ writing.salt = n /\ n \in 1..Len(Clicks)
<1>1. CASE pc = "resize_close"
  BY <1>1 DEF PlaceInv, OwnClick, ClickOps
<1>2. CASE pc = "click_close"
  <2>1. n \in 1..Len(Clicks)
    BY <1>2, ClicksAreCounted DEF PlaceInv, DriverTypes
  <2>. QED
    BY <1>2, <2>1, LineIsOwn DEF PlaceInv
<1>. QED
  BY <1>1, <1>2

LEMMA TokenStep ==
  ASSUME who = "dom", MailInv, DriverTypes, PlaceInv, TokenInv, [Next]_vars
  PROVE  TokenInv'
<1>0. /\ \A x \in Held : OwnClick(x) => x.salt \in 1..Sent
      /\ \A x, y \in Held : OwnClick(x) /\ OwnClick(y) /\ x.salt = y.salt => x = y
  BY DEF TokenInv
<1>1. /\ Sent \in Nat /\ Sent' \in Nat /\ Sent <= Sent'
      /\ \A x \in Held : OwnClick(x) => x.salt \in Nat /\ x.salt \in 1..Sent'
  BY <1>0, SentGrows
<1>2. /\ \A x \in Held' : OwnClick(x) => x.salt \in 1..Sent'
      /\ \A x, y \in Held' : OwnClick(x) /\ OwnClick(y) /\ x.salt = y.salt => x = y
  <2>1. CASE Held' \subseteq Held
    BY <1>0, <1>1, <2>1
  <2>2. CASE Close /\ Held' \subseteq Held \cup {writing}
    <3>1. CASE pc = "resize_close"
      BY <1>0, <1>1, <2>2, <3>1, NewLine
    <3>2. CASE pc = "click_close"
      <4>1. OwnClick(writing) /\ writing.salt = n /\ n \in 1..Sent' /\ Sent = n - 1 /\ n \in Nat
        BY <1>1, <2>2, <3>2, NewLine, SentGrows
      <4>2. \A x \in Held : OwnClick(x) => x.salt # n
        BY <1>0, <4>1
      <4>. QED
        BY <1>0, <1>1, <2>2, <4>1, <4>2
    <3>. QED
      BY <2>2, <3>1, <3>2 DEF Close
  <2>. QED
    BY <2>1, <2>2, HeldStep
<1>3. /\ \A k \in ClicksDone' :
           /\ file' # None => OwnClick(file') /\ done'[k].salt <= file'.salt
           /\ dll' = "busy" => OwnClick(lastSeen') /\ done'[k].salt <= lastSeen'.salt
           /\ \A i \in ClicksDone' : i < k => done'[i].salt <= done'[k].salt
      /\ lastSeen' # None /\ OwnClick(lastSeen') /\ file' # None =>
           OwnClick(file') /\ lastSeen'.salt <= file'.salt
  <2>1. CASE Process
    <3>1. dll = "busy" /\ lastSeen # None /\ UNCHANGED <<file, lastSeen>> /\ dll' = "idle"
      BY <2>1 DEF Process, MailInv, MailTypeOK
    <3>2. OwnClick(lastSeen) => lastSeen.salt \in Nat
      BY <1>1, <3>1 DEF Held
    <3>3. CASE UNCHANGED done /\ ClicksDone' = ClicksDone
      BY <3>1, <3>3 DEF TokenInv
    <3>4. CASE ~(UNCHANGED done /\ ClicksDone' = ClicksDone)
      BY <3>1, <3>2, <3>4, ClicksGrow DEF TokenInv
    <3>. QED
      BY <3>3, <3>4
  <2>2. CASE ~Process
    <3>1. UNCHANGED done /\ ClicksDone' = ClicksDone
      BY <2>2, ClicksGrow
    <3>2. CASE Poll
      <4>1. file # None /\ file' = file /\ lastSeen' = file
        BY <3>2 DEF Poll
      <4>2. OwnClick(file) => file.salt \in Nat
        BY <1>1, <4>1 DEF Held
      <4>. QED
        BY <3>1, <3>2, <4>1, <4>2 DEF Poll, TokenInv
    <3>3. CASE Close
      <4>1. file' = writing /\ UNCHANGED <<lastSeen, dll>>
        BY <3>3 DEF Close, CloseFile
      <4>2. CASE pc = "resize_close"
        <5>1. Sent = 0
          BY <4>2, SentGrows DEF Resizing
        <5>2. \A x \in Held : ~OwnClick(x)
          BY <1>0, <5>1
        <5>3. ClicksDone' = {} /\ (lastSeen' # None => ~OwnClick(lastSeen'))
          BY <3>1, <4>1, <5>2, ClicksGrow DEF Held
        <5>. QED
          BY <5>3
      <4>3. CASE pc = "click_close"
        <5>1. OwnClick(writing) /\ writing.salt = n /\ Sent = n - 1 /\ n \in Nat
          BY <1>1, <4>3, NewLine, SentGrows
        <5>2. \A x \in Held : OwnClick(x) => x.salt <= n
          BY <1>0, <5>1
        <5>3. \A k \in ClicksDone : done[k] \in Held /\ OwnClick(done[k])
          BY ClicksGrow
        <5>4. lastSeen # None => lastSeen \in Held
          BY DEF Held
        <5>. QED
          BY <3>1, <4>1, <5>1, <5>2, <5>3, <5>4 DEF TokenInv
      <4>. QED
        BY <3>3, <4>2, <4>3 DEF Close
    <3>4. CASE ~Poll /\ ~Close
      <4>1. /\ file' \in {file, None} /\ lastSeen' \in {lastSeen, None}
            /\ dll' = "busy" => dll = "busy" /\ lastSeen' = lastSeen
        <5>1. CASE GameStep
          BY <2>2, <3>4, <5>1 DEF GameStep, Attach, Detach, CanvasAppears
        <5>2. CASE Resize \/ Passes \/ Sends \/ (Quietly /\ UNCHANGED mailVars)
                     \/ UNCHANGED <<mailVars, domVars>>
          BY <5>2 DEF Resize, Sends, Passes, OpenFile, mailVars
        <5>. QED
          BY <3>4, <5>1, <5>2, DomKinds
      <4>. QED
        BY <3>1, <4>1 DEF TokenInv
    <3>. QED
      BY <3>2, <3>3, <3>4
  <2>. QED
    BY <2>1, <2>2
<1>. QED
  BY <1>2, <1>3 DEF TokenInv

(* How often a line is in a sequence. *)
LEMMA RepeatsCount ==
  ASSUME NEW s, IsSeq(s), NEW line
  PROVE  /\ Repeats(s, line) \in Nat
         /\ (\A k \in 1..Len(s) : s[k] # line) => Repeats(s, line) = 0
<1> DEFINE S == {k \in 1..Len(s) : s[k] = line}
<1>1. Len(s) \in Nat
  BY LenProperties DEF IsSeq
<1>2. IsFiniteSet(1..Len(s))
  <2>1. 1 \in Int /\ Len(s) \in Int
    BY <1>1
  <2>. QED
    BY <2>1, FS_Interval
<1>3. IsFiniteSet(S)
  BY <1>2, FS_Subset
<1>4. Cardinality(S) \in Nat
  BY <1>3, FS_CardinalityType
<1>5. ASSUME \A k \in 1..Len(s) : s[k] # line PROVE Cardinality(S) = 0
  <2>1. S = {}
    BY <1>5
  <2>. QED
    BY <2>1, FS_EmptySet
<1>. QED
  BY <1>4, <1>5 DEF Repeats

LEMMA RepeatsGrow ==
  ASSUME NEW s, Len(s) \in Nat, NEW t, Len(t) = Len(s) + 1,
         \A i \in 1..Len(s) : t[i] = s[i], NEW x, t[Len(s) + 1] = x, NEW line
  PROVE  Repeats(t, line) = IF line = x THEN Repeats(s, line) + 1 ELSE Repeats(s, line)
<1> DEFINE S == {k \in 1..Len(s) : s[k] = line}
           T == {k \in 1..Len(t) : t[k] = line}
<1>1. /\ \A k \in 1..Len(t) : k \in 1..Len(s) \/ k = Len(s) + 1
      /\ \A k \in 1..Len(s) : k \in 1..Len(t)
      /\ Len(s) + 1 \in 1..Len(t)
  OBVIOUS
<1>2. T = IF line = x THEN S \cup {Len(s) + 1} ELSE S
  BY <1>1
<1>3. Len(s) + 1 \notin S
  OBVIOUS
<1>4. IsFiniteSet(1..Len(s))
  <2>1. 1 \in Int /\ Len(s) \in Int
    OBVIOUS
  <2>. QED
    BY <2>1, FS_Interval
<1>5. IsFiniteSet(S)
  BY <1>4, FS_Subset
<1>. HIDE DEF S, T
<1>6. Cardinality(T) = IF line = x THEN Cardinality(S) + 1 ELSE Cardinality(S)
  BY <1>2, <1>3, <1>5, FS_AddElement
<1>. QED
  BY <1>6 DEF S, T, Repeats

LEMMA RepeatStep ==
  ASSUME who = "dom", MailInv, DriverTypes, PlaceInv, TokenInv, RepeatInv, [Next]_vars
  PROVE  RepeatInv'
<1>0. IsSeq(done) /\ attaches \in Nat /\ \A line : Repeats(done, line) \in Nat
  BY RepeatsCount DEF MailInv, MailTypeOK
<1>1. CASE Attach
  <2>1. /\ dll' = "idle" /\ lastSeen' = None /\ attaches' = attaches + 1 /\ UNCHANGED <<done, file>>
        /\ ClicksDone' = ClicksDone
    BY <1>1 DEF Attach, ClicksDone
  <2>2. \A k \in ClicksDone : Repeats(done, done[k]) < attaches'
    BY <1>0, <2>1 DEF RepeatInv
  <2>3. OwnClick(file) => Repeats(done, file) < attaches'
    <3>1. CASE \E k \in ClicksDone : done[k] = file
      BY <2>2, <3>1
    <3>2. CASE OwnClick(file) /\ ~(\E k \in ClicksDone : done[k] = file)
      <4>1. \A k \in 1..Len(done) : done[k] # file
        BY <3>2 DEF ClicksDone
      <4>2. Repeats(done, file) = 0
        BY <1>0, <4>1, RepeatsCount
      <4>. QED
        BY <1>0, <2>1, <4>2
    <3>. QED
      BY <3>1, <3>2
  <2>. QED
    BY <1>0, <2>1, <2>2, <2>3 DEF RepeatInv
<1>2. CASE Poll
  <2>1. ClicksDone' = ClicksDone
    BY <1>2 DEF Poll, ClicksDone
  <2>. QED
    BY <1>2, <2>1 DEF Poll, RepeatInv
<1>3. CASE Process
  <2>1. /\ dll = "busy" /\ dll' = "idle" /\ lastSeen # None
        /\ UNCHANGED <<file, lastSeen, attaches>>
    BY <1>3 DEF Process, MailInv, MailTypeOK
  <2>2. CASE UNCHANGED done
    <3>1. ClicksDone' = ClicksDone
      BY <2>2 DEF ClicksDone
    <3>. QED
      BY <2>1, <2>2, <3>1 DEF RepeatInv
  <2>3. CASE ~UNCHANGED done
    <3>1. \A line : Repeats(done', line)
                      = IF line = lastSeen THEN Repeats(done, line) + 1 ELSE Repeats(done, line)
      BY <2>3, DoneGrows, RepeatsGrow
    <3>2. \A k \in ClicksDone' :
             \/ k \in ClicksDone /\ done'[k] = done[k]
             \/ done'[k] = lastSeen /\ OwnClick(lastSeen)
      BY ClicksGrow DEF ClicksDone
    <3>3. \A k \in ClicksDone' : Repeats(done', done'[k]) <= attaches
      <4>. TAKE k \in ClicksDone'
      <4>1. CASE done'[k] = lastSeen /\ OwnClick(lastSeen)
        <5>1. Repeats(done, lastSeen) < attaches
          BY <2>1, <4>1 DEF RepeatInv
        <5>. QED
          BY <1>0, <3>1, <4>1, <5>1
      <4>2. CASE done'[k] # lastSeen /\ k \in ClicksDone /\ done'[k] = done[k]
        BY <3>1, <4>2 DEF RepeatInv
      <4>3. done'[k] = lastSeen => OwnClick(lastSeen)
        BY <3>2, ClicksGrow
      <4>. QED
        BY <3>2, <4>1, <4>2, <4>3
    <3>4. dll # "off" /\ file \notin {None, lastSeen} /\ OwnClick(file) =>
            Repeats(done', file) < attaches
      BY <3>1 DEF RepeatInv
    <3>. QED
      BY <2>1, <3>3, <3>4 DEF RepeatInv
  <2>. QED
    BY <2>2, <2>3
<1>4. CASE Close
  <2>1. /\ file' = writing /\ UNCHANGED <<lastSeen, dll, done, attaches>>
        /\ pc \in {"resize_close", "click_close"} /\ ClicksDone' = ClicksDone
    BY <1>4 DEF Close, CloseFile, ClicksDone
  <2>2. dll # "off" /\ OwnClick(writing) => Repeats(done, writing) < attaches
    <3>. SUFFICES ASSUME dll # "off", OwnClick(writing) PROVE Repeats(done, writing) < attaches
      OBVIOUS
    <3>1. writing.salt = n /\ Sent = n - 1 /\ Sent \in Nat /\ n \in Nat
      BY <2>1, NewLine, SentGrows DEF DriverTypes
    <3>2. \A x \in Held : OwnClick(x) => x.salt # n
      BY <3>1 DEF TokenInv
    <3>3. \A k \in 1..Len(done) : done[k] # writing
      BY <3>1, <3>2 DEF Held, MailInv, MailTypeOK
    <3>4. Repeats(done, writing) = 0
      BY <1>0, <3>3, RepeatsCount
    <3>5. attaches # 0
      BY DEF MailInv, MailTypeOK
    <3>. QED
      BY <1>0, <3>4, <3>5
  <2>. QED
    BY <2>1, <2>2 DEF RepeatInv
<1>5. CASE Detach \/ CanvasAppears
  <2>1. ClicksDone' = ClicksDone
    BY <1>5 DEF Detach, CanvasAppears, ClicksDone
  <2>. QED
    BY <1>5, <2>1 DEF Detach, CanvasAppears, RepeatInv
<1>6. CASE Resize \/ Passes \/ Sends \/ (Quietly /\ UNCHANGED mailVars)
             \/ UNCHANGED <<mailVars, domVars>>
  <2>1. file' \in {None, file} /\ UNCHANGED <<lastSeen, dll, done, attaches>>
    BY <1>6 DEF Resize, Sends, Passes, OpenFile, mailVars
  <2>2. ClicksDone' = ClicksDone
    BY <2>1 DEF ClicksDone
  <2>. QED
    BY <2>1, <2>2 DEF RepeatInv
<1>. QED
  BY <1>1, <1>2, <1>3, <1>4, <1>5, <1>6, DomKinds DEF GameStep

(* The window is there as long as the game has been resized by the         *)
(* library, and the driver does not take another line for its answer.      *)
LEMMA ResizeStep ==
  ASSUME who = "dom", MailInv, DriverTypes, PlaceInv, TokenInv, ResizeInv, [Next]_vars
  PROVE  ResizeInv'
<1>0. Len(done) \in Nat /\ Len(dlog) \in Nat /\ attaches \in Nat /\ tail \in Nat
  BY LenProperties DEF MailInv, MailTypeOK, IsSeq, DriverTypes
<1>1. CASE Process
  <2>1. /\ dll = "busy" /\ dll' = "idle" /\ lastSeen # None
        /\ UNCHANGED <<lastSeen, canvas, attaches, pc, tail, resized>>
    BY <1>1, DomKinds DEF GameStep, Process, Resize, Close, OpenFile, CloseFile, Passes, Sends, mailVars,
       domVars, MailInv, MailTypeOK
  <2> DEFINE ok == canvas \/ ~NeedsCanvas(lastSeen)
  <2>2. /\ dlog' = Append(dlog, [op |-> lastSeen.op, ok |-> ok])
        /\ done' = IF ok THEN Append(done, lastSeen) ELSE done
    BY <1>1 DEF Process
  <2>3. lastSeen.op = "resize" /\ ok => canvas
    BY DEF NeedsCanvas
  <2>. HIDE DEF ok
  <2>4. /\ Len(dlog') = Len(dlog) + 1 /\ dlog'[Len(dlog) + 1] = [op |-> lastSeen.op, ok |-> ok]
        /\ \A i \in 1..Len(dlog) : dlog'[i] = dlog[i]
    <3>1. IsSeq(dlog)
      BY DEF MailInv, MailTypeOK
    <3>. QED
      BY <2>2, <3>1, AppendAny
  <2>5. /\ ok => Len(done') = Len(done) + 1 /\ done'[Len(done) + 1] = lastSeen
        /\ Len(done) <= Len(done')
        /\ \A i \in 1..Len(done) : done'[i] = done[i]
    <3>1. IsSeq(done)
      BY DEF MailInv, MailTypeOK
    <3>2. CASE ok
      BY <1>0, <2>2, <3>1, <3>2, AppendAny
    <3>. QED
      BY <1>0, <2>2, <3>2
  <2>6. HasResized => HasResized'
    BY <1>0, <2>5 DEF HasResized
  <2>7. HasResized' => HasResized \/ (ok /\ lastSeen.op = "resize")
    <3>1. CASE ok
      BY <1>0, <2>5, <3>1 DEF HasResized
    <3>2. CASE ~ok
      BY <2>2, <3>2 DEF HasResized
    <3>. QED
      BY <3>1, <3>2
  <2>8. ~HasResized' => ~(ok /\ lastSeen.op = "resize")
    <3>. SUFFICES ASSUME ok, lastSeen.op = "resize" PROVE HasResized'
      OBVIOUS
    <3>1. Len(done) + 1 \in 1..Len(done') /\ done'[Len(done) + 1].op = "resize"
      BY <1>0, <2>5
    <3>. QED
      BY <3>1 DEF HasResized
  <2>9. ~HasResized' => \A k \in 1..Len(dlog') :
          dlog'[k].op = "resize" /\ dlog'[k].ok => (k = 1 /\ (pc' = "resize_ack" => tail' >= 1))
    <3>. SUFFICES ASSUME ~HasResized', NEW k \in 1..Len(dlog'), dlog'[k].op = "resize", dlog'[k].ok
                  PROVE  k = 1 /\ (pc' = "resize_ack" => tail' >= 1)
      OBVIOUS
    <3>1. CASE k \in 1..Len(dlog)
      BY <2>1, <2>4, <2>6, <3>1 DEF ResizeInv
    <3>2. CASE k = Len(dlog) + 1
      BY <2>4, <2>8, <3>2
    <3>. QED
      BY <1>0, <2>4, <3>1, <3>2
  <2>10. ResizedFirst'
    <3>. SUFFICES ASSUME resized', NEW k \in ClicksDone'
                  PROVE  \E i \in 1..(k - 1) : done'[i].op = "resize"
      BY DEF ResizedFirst
    <3>1. CASE k \in ClicksDone
      <4>1. PICK i \in 1..(k - 1) : done[i].op = "resize"
        BY <2>1, <3>1 DEF ResizeInv, ResizedFirst
      <4>2. i \in 1..Len(done)
        BY <1>0, <3>1 DEF ClicksDone
      <4>. QED
        BY <2>5, <4>1, <4>2
    <3>2. CASE k = Len(done) + 1
      <4>1. PICK i \in 1..Len(done) : done[i].op = "resize"
        BY <2>1 DEF ResizeInv, HasResized
      <4>. QED
        BY <1>0, <2>5, <3>2, <4>1
    <3>. QED
      BY <3>1, <3>2, ClicksGrow
  <2>11. OneGame' /\ HasResized' => canvas'
    BY <2>1, <2>3, <2>7 DEF ResizeInv, OneGame
  <2>. QED
    BY <2>1, <2>6, <2>9, <2>10, <2>11 DEF ResizeInv
<1>2. CASE ~Process
  <2>1. UNCHANGED done /\ ClicksDone' = ClicksDone /\ HasResized' = HasResized
        /\ (resized' = resized => ResizedFirst')
    <3>1. UNCHANGED done /\ ClicksDone' = ClicksDone
      BY <1>2, ClicksGrow
    <3>. QED
      BY <3>1 DEF HasResized, ResizedFirst, ResizeInv
  <2>2. CASE Attach
    <3>1. /\ dll' = "idle" /\ attaches' = attaches + 1 /\ UNCHANGED <<dlog, domVars>>
      BY <1>2, <2>2, DomKinds DEF Attach, GameStep, Detach, CanvasAppears, Poll, Resize, Close,
         OpenFile, CloseFile, Passes, Sends, mailVars, domVars
    <3>2. OneGame' => ~HasResized
      BY <1>0, <3>1, EmptyIsSeq DEF OneGame, MailInv, MailTypeOK, HasResized
    <3>. QED
      BY <2>1, <3>1, <3>2 DEF ResizeInv, domVars
  <2>3. CASE GameStep /\ (Detach \/ CanvasAppears)
    BY <2>1, <2>3 DEF GameStep, Detach, CanvasAppears, ResizeInv, domVars, OneGame
  <2>4. CASE GameStep /\ Poll
    <3>1. pc = "resize_ack" => file.op \notin ClickOps
      BY DEF PlaceInv, ClickOps
    <3>. QED
      BY <2>1, <2>4, <3>1 DEF GameStep, Poll, ResizeInv, domVars, OneGame
  <2>5. CASE Resize \/ Close \/ Passes \/ Sends \/ UNCHANGED <<mailVars, domVars>>
    BY <2>1, <2>5 DEF Resize, Close, Passes, Sends, OpenFile, CloseFile, mailVars, domVars,
       ResizeInv, OneGame
  <2>6. CASE ResizeAcked
    <3>1. PICK k \in (tail + 1)..Len(dlog) : dlog[k].op = "resize" /\ dlog[k].ok
      BY <2>6 DEF ResizeAcked, Logged
    <3>2. HasResized
      BY <1>0, <2>6, <3>1 DEF ResizeAcked, ResizeInv
    <3>3. ClicksDone = {}
      <4>1. Sent = 0
        BY <2>6, SentGrows DEF ResizeAcked, Resizing
      <4>. QED
        BY <4>1, ClicksGrow DEF TokenInv
    <3>. QED
      BY <2>1, <2>6, <3>2, <3>3 DEF ResizeAcked, ResizeInv, ResizedFirst, mailVars, OneGame
  <2>7. CASE StartTail
    <3>1. UNCHANGED <<mailVars, resized>> /\ tail' = Len(dlog)
      BY <2>7 DEF StartTail
    <3>. QED
      BY <1>0, <2>1, <3>1 DEF ResizeInv, mailVars, OneGame
  <2>8. CASE ResizeAgain \/ ClickAcked \/ Synced \/ NotSynced \/ DriverEnds \/ ServerMatches
    BY <2>1, <2>8 DEF ResizeAgain, ClickAcked, Synced, NotSynced, DriverEnds, ServerMatches,
       ResizeInv, mailVars, OneGame
  <2>. QED
    BY <1>2, <2>2, <2>3, <2>4, <2>5, <2>6, <2>7, <2>8, DomKinds DEF GameStep, Quietly
<1>. QED
  BY <1>1, <1>2

-----------------------------------------------------------------------------
(* A click settled stays so: by what was carried out, or by the presses    *)
(* that follow at its place.                                               *)
LEMMA LandedStays ==
  ASSUME MailInv, [Next]_vars, NEW i
  PROVE  Landed(i) => Landed(i)'
BY ClicksGrow DEF Landed

LEMMA SettledStays ==
  ASSUME MailInv, [Next]_vars, n' = n, NEW i
  PROVE  Settled(i) => Settled(i)'
BY LandedStays DEF Settled

(* The press after an absorbed one is at its place. *)
LEMMA AbsorbedFollows ==
  ASSUME n \in Nat \ {0}, NEW i \in 1..(n - 1),
         Absorbed(n - 1), \A m \in i..(n - 1) : Clicks[m].place = Clicks[i].place
  PROVE  Follows(n) /\ \A m \in i..n : Clicks[m].place = Clicks[i].place
<1>1. Follows(n)
  BY DEF Absorbed
<1>2. Clicks[n].place = Clicks[n - 1].place
  BY <1>1 DEF Follows
<1>3. n - 1 \in i..(n - 1) /\ \A m \in i..n : m \in i..(n - 1) \/ m = n
  OBVIOUS
<1>. QED
  BY <1>1, <1>2, <1>3

LEMMA NextSettled ==
  ASSUME n \in Nat \ {0}, \A i \in 1..(n - 1) : Settled(i), Absorbed(n),
         n' = n + 1, MailInv, [Next]_vars
  PROVE  \A i \in 1..(n' - 1) : Settled(i)'
<1>. SUFFICES ASSUME NEW i \in 1..n PROVE Settled(i)'
  OBVIOUS
<1>1. n' - 1 = n
  OBVIOUS
<1>2. CASE i = n
  <2>1. \A m \in i..n : Clicks[m].place = Clicks[i].place
    BY <1>2
  <2>. QED
    BY <1>1, <2>1 DEF Settled
<1>3. CASE i \in 1..(n - 1)
  <2>1. CASE Landed(i)
    BY <2>1, LandedStays DEF Settled
  <2>2. CASE Absorbed(n - 1) /\ \A m \in i..(n - 1) : Clicks[m].place = Clicks[i].place
    BY <1>1, <1>3, <2>2, AbsorbedFollows DEF Settled
  <2>. QED
    BY <1>3, <2>1, <2>2 DEF Settled
<1>. QED
  BY <1>2, <1>3

(* The click carried out settles those it absorbs and itself. *)
LEMMA AllLanded ==
  ASSUME n \in 1..Len(Clicks), ~Absorbed(n), \A i \in 1..(n - 1) : Settled(i),
         CarriedClick, \E at : file = ClickLine(n, at)
  PROVE  \A i \in 1..n : Landed(i)
<1>0. n \in Nat \ {0}
  BY ClicksAreCounted
<1>1. PICK k \in ClicksDone :
         done[k].salt = n /\ done[k].op = IF IsDbl(n) THEN "click_dbl" ELSE "click_post"
  BY LineIsOwn DEF CarriedClick
<1>. SUFFICES ASSUME NEW i \in 1..n PROVE Landed(i)
  OBVIOUS
<1>2. CASE i = n
  <2>1. n >= i /\ ~(n > i) /\ \A m \in i..n : Clicks[m].place = Clicks[i].place
    BY <1>0, <1>2
  <2>. QED
    BY <1>1, <2>1 DEF Landed
<1>3. CASE i \in 1..(n - 1) /\ ~Landed(i)
  <2>1. Absorbed(n - 1) /\ \A m \in i..(n - 1) : Clicks[m].place = Clicks[i].place
    BY <1>3 DEF Settled
  <2>2. Follows(n) /\ \A m \in i..n : Clicks[m].place = Clicks[i].place
    BY <1>0, <1>3, <2>1, AbsorbedFollows
  <2>3. done[k].op = "click_dbl" /\ n >= i
    BY <1>0, <1>1, <1>3, <2>2 DEF IsDbl
  <2>. QED
    BY <1>1, <2>2, <2>3 DEF Landed
<1>. QED
  BY <1>0, <1>2, <1>3

LEMMA GoesOn ==
  ASSUME who = "dom", MailInv, PlaceInv, ResizeInv, [Next]_vars, Going'
  PROVE  /\ Going \/ ResizeAcked
         /\ ~Attach /\ ~Detach
<1>1. ~Detach
  BY DEF Detach, Going, OneGame
<1>2. ~Attach
  <2>. SUFFICES ASSUME Attach PROVE FALSE
    OBVIOUS
  <2>1. attaches = 0 /\ attaches' # attaches
    BY DEF Attach, MailInv, MailTypeOK, Going, OneGame
  <2>2. resized = resized'
    BY <2>1, DomKinds DEF GameStep, domVars, Resize, Close, OpenFile, CloseFile, Passes, Sends,
       mailVars
  <2>3. ~HasResized
    BY <2>1, EmptyIsSeq DEF MailInv, MailTypeOK, HasResized
  <2>. QED
    BY <2>2, <2>3 DEF ResizeInv, Going
<1>3. OneGame
  BY <1>1, <1>2, MailKinds DEF Going, OneGame, CanvasAppears, Poll, Process
<1>4. resized \/ ResizeAcked
  BY DomKinds DEF Going, GameStep, domVars, Resize, Close, Passes, Sends, Quietly, ResizeAgain,
     StartTail, ClickAcked, Synced, NotSynced, DriverEnds, ServerMatches
<1>5. ~slow
  <2>1. slow' = slow \/ slow' = (slow \/ ~Quiet)
    BY DomKinds DEF GameStep, domVars, Resize, Close, Passes, Sends, Quietly, ResizeAgain, TimesOut,
       StartTail, ClickAcked, Synced, NotSynced, DriverEnds, ServerMatches, ResizeAcked
  <2>. QED
    BY <2>1 DEF Going
<1>. QED
  BY <1>1, <1>2, <1>3, <1>4, <1>5 DEF Going

LEMMA LandStep ==
  ASSUME who = "dom", MailInv, DriverTypes, PlaceInv, TokenInv, ResizeInv, LandInv, [Next]_vars
  PROVE  LandInv'
<1>. SUFFICES ASSUME Going'
              PROVE  /\ \A i \in 1..(n' - 1) : Settled(i)'
                     /\ pc' = "click" => NotAtClick' /\ file' # None
                                         /\ (file' = lastSeen' \/ file'.op \notin ClickOps)
                     /\ pc' = "click_close" => NotAtClick'
                     /\ pc' \in {"click_tail", "click_ack", "sync"} =>
                          \E at : file' = ClickLine(n', at)
                     /\ pc' \in {"click_tail", "click_ack"} => CarriesOut'
                     /\ pc' = "click_ack" /\ Logged(ClickOp, BOOLEAN)' => CarriedClick'
                     /\ pc' = "sync" => CarriedClick'
  BY DEF LandInv
<1>0. /\ n \in Nat \ {0} /\ Len(done) \in Nat /\ Len(dlog) \in Nat /\ Len(Clicks) \in Nat
      /\ tail \in Nat
  BY ClicksAreCounted, LenProperties DEF DriverTypes, MailInv, MailTypeOK, IsSeq
<1>0b. \A at : pc \in {"click_close", "click_tail", "click_ack", "sync"} =>
         /\ ClickLine(n, at) # None /\ OwnClick(ClickLine(n, at)) /\ n \in 1..Len(Clicks)
         /\ ClickLine(n, at).op = ClickOp
  BY <1>0, LineIsOwn DEF PlaceInv, ClickOp
<1>1. CASE ResizeAcked
  <2>1. NotAtClick /\ file # None /\ file.op = "resize"
    <3>1. Len(dlog) > tail
      BY <1>0, <1>1 DEF ResizeAcked, Logged
    <3>. QED
      BY <1>1, <3>1 DEF ResizeAcked, ResizeInv, PlaceInv, NotAtClick
  <2>2. n' = 1 /\ pc' = "click" /\ UNCHANGED mailVars
    BY <1>1 DEF ResizeAcked
  <2>. QED
    BY <2>1, <2>2 DEF mailVars, NotAtClick, ClickOps
<1>2. CASE Going /\ Process /\ UNCHANGED domVars
  <2>1. \A i \in 1..(n' - 1) : Settled(i)'
    BY <1>2, SettledStays DEF LandInv, domVars
  <2>2. dll = "busy" /\ dll' = "idle" /\ UNCHANGED <<file, lastSeen, pc, n, tail>>
    BY <1>2 DEF Process, domVars
  <2>3. ASSUME pc \in {"click_tail", "click_ack"}, lastSeen = file
        PROVE  CarriedClick'
    <3>1. OwnClick(file) /\ file # None
      BY <1>0b, <1>2, <2>3 DEF LandInv
    <3>2. canvas
      BY <1>2 DEF ResizeInv, Going
    <3>3. done' = Append(done, lastSeen)
      BY <1>2, <3>2 DEF Process
    <3>4. done' # done
      <4>1. IsSeq(done)
        BY DEF MailInv, MailTypeOK
      <4>. QED
        BY <1>0, <3>3, <4>1, AppendAny
    <3>5. Len(done) + 1 \in ClicksDone' /\ done'[Len(done) + 1] = lastSeen
      BY <2>3, <3>1, <3>4, ClicksGrow
    <3>. QED
      BY <2>2, <2>3, <3>5 DEF CarriedClick
  <2>4. ASSUME pc = "click_ack", Logged(ClickOp, BOOLEAN)', lastSeen # file
        PROVE  FALSE
    <3>1. NotAtClick /\ lastSeen.op \notin ClickOps
      BY <1>2, <2>2, <2>4 DEF LandInv, CarriesOut, NotAtClick
    <3>2. ~Logged(ClickOp, BOOLEAN)
      BY <1>2, <2>2, <2>4 DEF LandInv, CarriedClick
    <3>3. \E x : dlog' = Append(dlog, x) /\ x.op = lastSeen.op
      BY <1>2 DEF Process
    <3>4. /\ Len(dlog') = Len(dlog) + 1 /\ dlog'[Len(dlog) + 1].op = lastSeen.op
          /\ \A k \in 1..Len(dlog) : dlog'[k] = dlog[k]
      <4>1. IsSeq(dlog)
        BY DEF MailInv, MailTypeOK
      <4>. QED
        BY <3>3, <4>1, AppendAny
    <3>5. PICK k \in (tail + 1)..Len(dlog') : dlog'[k].op = ClickOp /\ dlog'[k].ok \in BOOLEAN
      BY <2>2, <2>4 DEF Logged, ClickOp
    <3>6. ClickOp \in ClickOps
      BY DEF ClickOp, ClickOps
    <3>7. k \in 1..Len(dlog) /\ k \in (tail + 1)..Len(dlog)
      BY <1>0, <3>1, <3>4, <3>5, <3>6
    <3>. QED
      BY <3>2, <3>4, <3>5, <3>7 DEF Logged
  <2>5. pc \in {"click_tail", "click_ack"} => CarriesOut'
    <3>1. CASE pc \in {"click_tail", "click_ack"} /\ lastSeen # file
      BY <2>2, <3>1 DEF CarriesOut, NotAtClick
    <3>. QED
      BY <2>3, <3>1 DEF CarriesOut, CarriedClick
  <2>6. pc # "sync"
    BY <1>2, <2>2 DEF LandInv, CarriedClick
  <2>. QED
    BY <1>2, <2>1, <2>2, <2>3, <2>4, <2>5, <2>6 DEF LandInv, NotAtClick
<1>3. CASE Going /\ (Poll \/ CanvasAppears) /\ UNCHANGED domVars
  <2>1. \A i \in 1..(n' - 1) : Settled(i)'
    BY <1>3, SettledStays DEF LandInv, domVars
  <2>2. UNCHANGED <<file, done, dlog, pc, n, tail>> /\ ClicksDone' = ClicksDone
        /\ Logged(ClickOp, BOOLEAN)' = Logged(ClickOp, BOOLEAN)
    BY <1>3 DEF Poll, CanvasAppears, domVars, ClicksDone, Logged, ClickOp
  <2>3. CASE CanvasAppears
    BY <1>3, <2>1, <2>2, <2>3 DEF CanvasAppears, LandInv, NotAtClick, CarriesOut, CarriedClick
  <2>4. CASE Poll
    <3>1. dll = "idle" /\ dll' = "busy" /\ file # lastSeen /\ lastSeen' = file /\ file # None
      BY <2>4 DEF Poll
    <3>2. pc # "sync" /\ ~(pc = "click_ack" /\ Logged(ClickOp, BOOLEAN)) /\ pc # "click_close"
      BY <1>3, <3>1 DEF LandInv, CarriedClick, PlaceInv
    <3>. QED
      BY <1>3, <2>1, <2>2, <3>1, <3>2 DEF LandInv, NotAtClick, CarriesOut
  <2>. QED
    BY <1>3, <2>3, <2>4
<1>4. CASE Going /\ Close
  <2>1. pc = "click_close" /\ pc' = "click_tail" /\ n' = n
        /\ file' = writing /\ UNCHANGED <<lastSeen, dll, done>>
    BY <1>4 DEF Close, CloseFile, PlaceInv, Resizing, Going
  <2>2. \A i \in 1..(n' - 1) : Settled(i)'
    BY <1>4, <2>1, SettledStays DEF LandInv
  <2>3. PICK at : writing = ClickLine(n, at)
    BY <2>1 DEF PlaceInv
  <2>4. lastSeen # writing
    <3>1. Sent = n - 1 /\ (lastSeen # None /\ OwnClick(lastSeen) => lastSeen.salt \in 1..Sent)
      BY <2>1, SentGrows DEF TokenInv, Held
    <3>2. OwnClick(writing) /\ writing # None /\ writing.salt = n
      BY <2>1, NewLine
    <3>. QED
      BY <1>0, <3>1, <3>2
  <2>5. NotAtClick'
    BY <1>4, <2>1 DEF LandInv, NotAtClick
  <2>. QED
    BY <2>1, <2>2, <2>3, <2>4, <2>5 DEF CarriesOut
<1>5. CASE Going /\ (Passes \/ Sends \/ Resize)
  <2>1. ~Resize
    BY <1>5 DEF Resize, Going, PlaceInv, Resizing
  <2>2. CASE Passes
    <3>1. \A i \in 1..(n' - 1) : Settled(i)'
      BY <1>0, <1>5, <2>2, NextSettled DEF LandInv, Passes
    <3>. QED
      BY <1>5, <2>2, <3>1 DEF Passes, mailVars, LandInv, NotAtClick
  <2>3. CASE Sends
    <3>1. \A i \in 1..(n' - 1) : Settled(i)'
      BY <1>5, <2>3, SettledStays DEF LandInv, Sends
    <3>2. pc = "click" /\ pc' = "click_close" /\ UNCHANGED <<lastSeen, dll>>
      BY <2>3 DEF Sends, OpenFile
    <3>. QED
      BY <1>5, <3>1, <3>2 DEF LandInv, NotAtClick
  <2>. QED
    BY <1>5, <2>1, <2>2, <2>3
<1>6. CASE Going /\ UNCHANGED mailVars /\ (StartTail \/ ResizeAgain)
  <2>1. pc = "click_tail" /\ StartTail
    BY <1>6 DEF StartTail, ResizeAgain, PlaceInv, Resizing, Going
  <2>2. pc' = "click_ack" /\ n' = n /\ tail' = Len(dlog) /\ UNCHANGED mailVars
    BY <2>1 DEF StartTail
  <2>3. \A i \in 1..(n' - 1) : Settled(i)'
    BY <1>6, <2>2, SettledStays DEF LandInv
  <2>4. ~Logged(ClickOp, BOOLEAN)'
    BY <1>0, <2>2 DEF Logged, mailVars
  <2>5. CarriesOut'
    BY <1>6, <2>1, <2>2 DEF LandInv, CarriesOut, NotAtClick, ClicksDone, mailVars
  <2>. QED
    BY <1>6, <2>1, <2>2, <2>3, <2>4, <2>5 DEF LandInv, mailVars
<1>7. CASE Going /\ ClickAcked
  <2>1. pc = "click_ack" /\ pc' = "sync" /\ n' = n /\ UNCHANGED mailVars
    BY <1>7 DEF ClickAcked
  <2>2. \A i \in 1..(n' - 1) : Settled(i)'
    BY <1>7, <2>1, SettledStays DEF LandInv
  <2>3. CarriedClick
    <3>1. CASE Logged(ClickOp, BOOLEAN)
      BY <1>7, <2>1, <3>1 DEF LandInv
    <3>2. CASE ~Logged(ClickOp, BOOLEAN)
      <4>1. Quiet
        BY <1>7, <3>2 DEF ClickAcked, TimesOut, Going
      <4>2. file # None
        BY <1>0b, <1>7, <2>1 DEF LandInv
      <4>3. dll = "idle" /\ lastSeen = file
        BY <1>7, <4>1, <4>2 DEF Quiet, Going, OneGame
      <4>. QED
        BY <1>7, <2>1, <4>3 DEF LandInv, CarriesOut, CarriedClick
    <3>. QED
      BY <3>1, <3>2
  <2>4. CarriedClick'
    BY <2>1, <2>3 DEF CarriedClick, ClicksDone, mailVars
  <2>. QED
    BY <1>7, <2>1, <2>2, <2>4 DEF LandInv, mailVars
<1>8. CASE Going /\ (Synced \/ NotSynced)
  <2>1. pc = "sync" /\ pc' = "click" /\ n' = n + 1 /\ UNCHANGED mailVars
    BY <1>8 DEF Synced, NotSynced
  <2>2. \A i \in 1..n : Landed(i)
    BY <1>0b, <1>8, <2>1, AllLanded DEF LandInv, PlaceInv
  <2>3. \A i \in 1..(n' - 1) : Settled(i)'
    <3>1. n' - 1 = n
      BY <1>0, <2>1
    <3>. QED
      BY <2>2, <3>1, LandedStays DEF Settled
  <2>4. dll = "idle" /\ lastSeen = file /\ file # None
    BY <1>0b, <1>8, <2>1 DEF LandInv, CarriedClick
  <2>. QED
    BY <2>1, <2>3, <2>4 DEF mailVars, NotAtClick
<1>9. CASE Going /\ UNCHANGED mailVars /\ (DriverEnds \/ ServerMatches)
  <2>1. UNCHANGED <<n, tail>> /\ pc' \in {pc, "end"}
    BY <1>9 DEF DriverEnds, ServerMatches
  <2>2. \A i \in 1..(n' - 1) : Settled(i)'
    BY <1>9, <2>1, SettledStays DEF LandInv
  <2>. QED
    BY <1>9, <2>1, <2>2 DEF LandInv, mailVars, NotAtClick, CarriesOut, CarriedClick, ClicksDone,
       Logged, ClickOp
<1>10. CASE Going /\ UNCHANGED <<mailVars, domVars>>
  <2>1. \A i \in 1..(n' - 1) : Settled(i)'
    BY <1>10, SettledStays DEF LandInv, domVars
  <2>. QED
    BY <1>10, <2>1 DEF LandInv, mailVars, domVars, NotAtClick, CarriesOut, CarriedClick, ClicksDone,
       Logged, ClickOp
<1>. QED
  BY <1>1, <1>2, <1>3, <1>4, <1>5, <1>6, <1>7, <1>8, <1>9, <1>10, DomKinds, GoesOn
     DEF GameStep, Quietly

LEMMA DriverInit0 == Init => DriverInv
<1>. SUFFICES ASSUME Init, who = "dom" PROVE DriverInv
  BY DEF DriverInv
<1>1. /\ pc = "resize" /\ n = 1 /\ tail = 0 /\ ~slow /\ ~resized
      /\ writing = None /\ lastSeen = None /\ dll = "off" /\ done = <<>> /\ attaches = 0
      /\ file \in Leftovers \cup {None}
  BY DEF Init, DomInit, MailInit, Lines
<1>2. 1..Len(done) = {} /\ ClicksDone = {} /\ Held \subseteq Leftovers
  <2>1. 1..Len(done) = {}
    BY <1>1, EmptyIsSeq
  <2>. QED
    BY <1>1, <2>1 DEF ClicksDone, Held
<1>3. DriverTypes /\ PlaceInv
  BY <1>1 DEF DriverTypes, PlaceInv, Resizing
<1>4. TokenInv /\ RepeatInv
  BY <1>1, <1>2 DEF TokenInv, RepeatInv, OwnClick
<1>5. ResizeInv
  <2>1. 1..Len(dlog) \subseteq {1}
    <3>1. \A x : Len(<<x>>) = 1
      OBVIOUS
    <3>2. Len(dlog) = 0 \/ \E x : dlog = <<x>>
      BY EmptyIsSeq DEF Init, MailInit
    <3>3. Len(dlog) \in {0, 1}
      BY <3>1, <3>2, Zenon
    <3>4. \A c \in {0, 1} : 1..c \subseteq {1}
      OBVIOUS
    <3>. QED
      BY <3>3, <3>4, Zenon
  <2>. QED
    BY <1>1, <1>2, <2>1 DEF ResizeInv, ResizedFirst, HasResized, OneGame
<1>6. LandInv
  BY <1>1 DEF LandInv, Going
<1>. QED
  BY <1>3, <1>4, <1>5, <1>6 DEF DriverInv

THEOREM DriverInvariant == Spec => []DriverInv
<1>1. FormInv /\ DriverInv /\ [Next]_vars => DriverInv'
  <2>. SUFFICES ASSUME FormInv, DriverInv, [Next]_vars, who = "dom" PROVE DriverInv'
    BY FormStep DEF DriverInv
  <2>. QED
    BY DriverTypesStep, PlaceStep, TokenStep, RepeatStep, ResizeStep, LandStep DEF DriverInv, FormInv
<1>. QED
  BY <1>1, DriverInit0, FormInvariant, PTL DEF Spec

(* However often the game is started, and whatever line a wait was ended   *)
(* by, the clicks reach it in recorded order; a start repeats only the     *)
(* last of them, and once.                                                 *)
THEOREM ClicksLandOnce == Spec => []ClicksOnce
<1>1. FormInv /\ DriverInv => ClicksOnce
  <2>. SUFFICES ASSUME FormInv, DriverInv, NEW i \in ClicksDone, NEW j \in ClicksDone, i < j,
                       ~(done[i].salt < done[j].salt)
                PROVE  done[i] = done[j] /\ Cardinality({k \in ClicksDone : i < k /\ k <= j}) < attaches
    BY DEF ClicksOnce
  <2>1. \A k \in ClicksDone : k \in 1..Len(done) /\ OwnClick(done[k]) /\ done[k] \in Held
    BY DEF ClicksDone, Held, FormInv, MailInv, MailTypeOK
  <2>2. who = "dom"
    BY <2>1 DEF FormInv, FormTypes, NoClicksInv, Held
  <2>3. TokenInv /\ RepeatInv /\ IsSeq(done) /\ Len(done) \in Nat /\ attaches \in Nat
    BY <2>2, LenProperties DEF DriverInv, FormInv, MailInv, MailTypeOK, IsSeq
  <2>4. \A k \in ClicksDone : done[k].salt \in Int
    BY <2>1, <2>3 DEF TokenInv
  <2>5. \A k \in ClicksDone : i < k /\ k <= j => done[k] = done[i]
    <3>. SUFFICES ASSUME NEW k \in ClicksDone, i < k, k <= j PROVE done[k] = done[i]
      OBVIOUS
    <3>1. done[i].salt <= done[k].salt /\ (k = j \/ done[k].salt <= done[j].salt)
      BY <2>1, <2>3 DEF TokenInv
    <3>2. done[k].salt = done[i].salt
      BY <2>4, <3>1
    <3>. QED
      BY <2>1, <2>3, <3>2 DEF TokenInv
  <2> DEFINE S == {k \in ClicksDone : i < k /\ k <= j}
             T == {k \in 1..Len(done) : done[k] = done[i]}
  <2>6. S \cup {i} \in SUBSET T /\ i \notin S /\ j \in S
    BY <2>1, <2>5
  <2>7. IsFiniteSet(T) /\ IsFiniteSet(S)
    <3>0. 1 \in Int /\ Len(done) \in Int
      BY <2>3
    <3>1. IsFiniteSet(1..Len(done))
      BY <3>0, FS_Interval
    <3>2. T \in SUBSET (1..Len(done)) /\ S \in SUBSET (1..Len(done))
      BY <2>1
    <3>. QED
      BY <3>1, <3>2, FS_Subset
  <2>8. Cardinality(T) <= attaches
    BY <2>3 DEF RepeatInv, Repeats
  <2>9. done[i] = done[j]
    BY <2>5, <2>6
  <2>. HIDE DEF S, T
  <2>10. /\ Cardinality(S) + 1 <= Cardinality(T)
         /\ Cardinality(S) \in Nat /\ Cardinality(T) \in Nat
    BY <2>6, <2>7, FS_AddElement, FS_Subset, FS_CardinalityType
  <2>11. Cardinality(S) < attaches
    BY <2>3, <2>8, <2>10
  <2>. QED
    BY <2>9, <2>11 DEF S
<1>. QED
  BY <1>1, FormInvariant, DriverInvariant, PTL

(* Unless the driver gave up waiting, the game has been resized before any *)
(* click gets there.                                                       *)
THEOREM ResizeComesFirst == Spec => []ResizedFirst
<1>1. FormInv /\ DriverInv => ResizedFirst
  BY DEF FormInv, FormTypes, NoClicksInv, DriverInv, ResizeInv, ResizedFirst
<1>. QED
  BY <1>1, FormInvariant, DriverInvariant, PTL

(* A library that keeps up misses no click, although the driver reads no   *)
(* answer for the lines it writes but a kind of line in a log.             *)
THEOREM ClicksLand == Spec => []EveryClickLands
<1>1. DriverInv => EveryClickLands
  <2>. SUFFICES ASSUME DriverInv, who = "dom", pc = "end", OneGame, resized, ~slow,
                       NEW i \in 1..Len(Clicks)
                PROVE  Landed(i)
    BY DEF EveryClickLands, Landed
  <2>1. DriverTypes /\ PlaceInv /\ LandInv /\ Going
    BY DEF DriverInv, Going
  <2>2. n - 1 = Len(Clicks)
    BY <2>1, ClicksAreCounted DEF PlaceInv, DriverTypes
  <2>3. Settled(i)
    BY <2>1, <2>2 DEF LandInv
  <2>4. ~Absorbed(n - 1)
    BY <2>2, ClicksAreCounted DEF Absorbed
  <2>. QED
    BY <2>3, <2>4 DEF Settled
<1>. QED
  BY <1>1, DriverInvariant, PTL

-----------------------------------------------------------------------------
(* The driver and the log of the server.                                   *)

LEMMA MinIsIn ==
  ASSUME NEW S, S \subseteq Nat, S # {}
  PROVE  Min(S) \in S
<1>1. PICK m \in S : \A j \in S : ~(<<j, m>> \in OpToRel(<, Nat))
  BY WFMin, NatLessThanWellFounded, Zenon
<1>2. ASSUME NEW j \in S PROVE m <= j
  <2>1. j \in Nat /\ m \in Nat /\ ~(<<j, m>> \in OpToRel(<, Nat))
    BY <1>1
  <2>2. ASSUME j < m PROVE FALSE
    <3>1. <<j, m>> \in OpToRel(<, Nat)
      BY <2>1, <2>2 DEF OpToRel
    <3>. QED
      BY <2>1, <3>1, Zenon
  <2>3. j \in Nat /\ m \in Nat
    BY <2>1
  <2>. QED
    BY <2>2, <2>3
<1>. QED
  BY <1>1, <1>2 DEF Min

LEMMA AwaitedIsRecorded ==
  ASSUME NEW i, Awaited(i) # NoFrame
  PROVE  \E k \in 1..Len(Frames) :
           Frames[k].kind # "keepalive" /\ Frames[k].seq = Awaited(i)
<1> DEFINE later == {k \in 1..Len(Frames) : Frames[k].kind # "keepalive"
                                            /\ Frames[k].seq > Clicks[i].seq}
<1>1. later # {} /\ Awaited(i) = Frames[Min(later)].seq
  BY DEF Awaited
<1>2. later \subseteq Nat
  OBVIOUS
<1>3. Min(later) \in later
  <2>. HIDE DEF later
  <2>. QED
    BY <1>1, <1>2, MinIsIn
<1>. QED
  BY <1>1, <1>3

(* The frames of the login are told apart by how many come before them.    *)
LEMMA ReportsAreCounted ==
  /\ \A j \in Reported : j \in 1..Len(Frames) /\ Frames[j].kind = "login" /\ Frames[j].seq \in Nat
  /\ \A k : IsFiniteSet({j \in Reported : j < k}) /\ Before(k) \in Nat
<1>1. Len(Frames) \in Nat
  BY FramesAssumption, LenProperties
<1>2. IsFiniteSet(1..Len(Frames))
  BY <1>1, FS_Interval
<1>3. \A k : {j \in Reported : j < k} \in SUBSET (1..Len(Frames))
  BY DEF Reported
<1>4. \A k : IsFiniteSet({j \in Reported : j < k})
  BY <1>2, <1>3, FS_Subset, Zenon
<1>5. \A j \in Reported : j \in 1..Len(Frames) /\ Frames[j].kind = "login"
  BY DEF Reported
<1>. QED
  BY <1>4, <1>5, FS_CardinalityType, FramesAssumption DEF Before

LEMMA EarlierIsBefore ==
  ASSUME NEW j \in Reported, NEW k \in Reported, j < k
  PROVE  Before(j) < Before(k)
<1> DEFINE D(m) == {i \in Reported : i < m}
<1>1. IsFiniteSet(D(j)) /\ IsFiniteSet(D(k))
  BY ReportsAreCounted
<1>2. j \notin D(j) /\ D(j) \cup {j} \in SUBSET D(k)
  <2>1. j \in Nat /\ k \in Nat /\ \A i \in Reported : i \in Nat
    BY ReportsAreCounted
  <2>2. ~(j < j) /\ \A i \in Reported : i < j => i < k
    BY <2>1
  <2>. QED
    BY <2>2
<1>3. Before(j) = Cardinality(D(j)) /\ Before(k) = Cardinality(D(k))
  BY DEF Before
<1>. HIDE DEF D
<1>4. Cardinality(D(j) \cup {j}) = Cardinality(D(j)) + 1
  BY <1>1, <1>2, FS_AddElement
<1>5. Cardinality(D(j) \cup {j}) <= Cardinality(D(k))
  BY <1>1, <1>2, FS_Subset
<1>6. Before(j) \in Nat /\ Before(k) \in Nat
  BY ReportsAreCounted
<1>. QED
  BY <1>3, <1>4, <1>5, <1>6

(* What the server has reported is the beginning of the login's frames,    *)
(* and the driver looks at what came after a place of its log.             *)
ReportInv ==
  /\ IsSeq(slog) /\ offset \in Nat
  /\ \A k \in 1..Len(slog) : \E j \in Reported : Before(j) = k - 1 /\ slog[k] = Frames[j].seq
  /\ \A j \in Reported : Before(j) < Len(slog) => slog[Before(j) + 1] = Frames[j].seq

LEMMA ReportStep ==
  ASSUME ReportInv, [Next]_vars
  PROVE  ReportInv'
<1>1. Len(slog) \in Nat
  BY LenProperties DEF ReportInv, IsSeq
<1>2. CASE UNCHANGED slog
  <2>1. offset' \in {offset, Len(slog)}
    BY DEF Next, vars, DomNext, domVars, Resize, Close, StartTail, ResizeAcked, ResizeAgain,
       Resolve, ClickAcked, Synced, NotSynced, DriverEnds, ServerMatches
  <2>2. offset' \in Nat
    BY <1>1, <2>1 DEF ReportInv
  <2>. QED
    BY <1>2, <2>2 DEF ReportInv
<1>3. CASE ServerMatches
  <2>1. PICK k \in Reported : Before(k) = Len(slog) /\ slog' = Append(slog, Frames[k].seq)
    BY <1>3 DEF ServerMatches
  <2>2. /\ IsSeq(slog') /\ Len(slog') = Len(slog) + 1 /\ slog'[Len(slog) + 1] = Frames[k].seq
        /\ \A i \in 1..Len(slog) : slog'[i] = slog[i]
    <3>1. IsSeq(slog) /\ slog' = Append(slog, Frames[k].seq)
      BY <2>1 DEF ReportInv
    <3>2. IsSeq(slog')
      BY <3>1, AppendAny
    <3>3. /\ Len(slog') = Len(slog) + 1 /\ slog'[Len(slog) + 1] = Frames[k].seq
          /\ \A i \in 1..Len(slog) : slog'[i] = slog[i]
      BY <3>1, AppendAny
    <3>. QED
      BY <3>2, <3>3
  <2>3. offset' \in Nat
    BY <1>3 DEF ReportInv, ServerMatches
  <2>4. ASSUME NEW i \in 1..Len(slog')
        PROVE  \E j \in Reported : Before(j) = i - 1 /\ slog'[i] = Frames[j].seq
    <3>1. CASE i \in 1..Len(slog)
      BY <2>2, <3>1 DEF ReportInv
    <3>2. CASE i \notin 1..Len(slog)
      <4>1. i = Len(slog) + 1 /\ i - 1 = Len(slog)
        BY <1>1, <2>2, <3>2
      <4>. QED
        BY <2>1, <2>2, <4>1
    <3>. QED
      BY <3>1, <3>2
  <2>5. ASSUME NEW j \in Reported, Before(j) < Len(slog')
        PROVE  slog'[Before(j) + 1] = Frames[j].seq
    <3>0. Before(j) \in Nat
      BY ReportsAreCounted
    <3>1. CASE Before(j) < Len(slog)
      <4>1. Before(j) + 1 \in 1..Len(slog)
        BY <1>1, <3>0, <3>1
      <4>. QED
        BY <2>2, <3>1, <4>1 DEF ReportInv
    <3>2. CASE ~(Before(j) < Len(slog))
      <4>1. Before(j) = Len(slog)
        BY <1>1, <2>2, <2>5, <3>0, <3>2
      <4>2. j = k
        <5>1. j \in Nat /\ k \in Nat /\ Before(k) \in Nat /\ Before(j) = Before(k)
          BY <2>1, <4>1, ReportsAreCounted
        <5>. QED
          BY <3>0, <5>1, EarlierIsBefore
      <4>. QED
        BY <2>2, <4>1, <4>2
    <3>. QED
      BY <3>1, <3>2
  <2>. QED
    BY <2>2, <2>3, <2>4, <2>5 DEF ReportInv
<1>4. UNCHANGED slog \/ ServerMatches
  BY DEF Next, vars, DomNext, domVars, Resize, Close, StartTail, ResizeAcked, ResizeAgain,
     Resolve, ClickAcked, Synced, NotSynced, DriverEnds
<1>. QED
  BY <1>2, <1>3, <1>4

(* A line shows no number greater than its own.                            *)
LEMMA ShownIsSmaller ==
  ASSUME NEW line \in Nat, NEW seq \in Nat, Shows(line, seq)
  PROVE  seq <= line
<1>1. /\ line \div 1 <= line /\ line \div 10 <= line /\ line \div 100 <= line
      /\ line \div 1000 <= line /\ line \div 10000 <= line
  OBVIOUS
<1>. QED
  BY <1>1 DEF Shows

(* The driver takes any line in which it finds the awaited number, and the *)
(* number of a later frame may begin with it. By then the awaited frame,   *)
(* if it is of the login, has been matched all the same: the server        *)
(* matches in recorded order. That of a world frame must not be found.     *)
THEOREM SyncsAreMatched == Spec => SyncedIsMatched
<1>1. Init => ReportInv
  <2>. SUFFICES ASSUME Init PROVE ReportInv
    OBVIOUS
  <2>1. slog = <<>> /\ offset = 0
    BY DEF Init, DomInit
  <2>2. IsSeq(slog) /\ Len(slog) = 0
    BY <2>1, EmptyIsSeq
  <2>3. 1..Len(slog) = {} /\ offset \in Nat
    BY <2>1, <2>2
  <2>4. \A j \in Reported : ~(Before(j) < Len(slog))
    <3>1. \A j : Before(j) \in Nat
      BY ReportsAreCounted
    <3>. QED
      BY <2>2, <3>1
  <2>. QED
    BY <2>2, <2>3, <2>4 DEF ReportInv
<1>2. ReportInv /\ [Next]_vars =>
        (NumbersApart /\ pc = "sync" /\ pc' = "click" /\ n \notin unsynced'
           => /\ \E k \in 1..Len(slog) : slog[k] = Awaited(n)
              /\ Len(slog) > offset)
  <2>. SUFFICES ASSUME ReportInv, [Next]_vars, NumbersApart,
                       pc = "sync", pc' = "click", n \notin unsynced'
                PROVE  /\ \E k \in 1..Len(slog) : slog[k] = Awaited(n)
                       /\ Len(slog) > offset
    OBVIOUS
  <2>1. Awaited(n) # NoFrame /\ Matched(n)
    BY DEF Next, vars, DomNext, domVars, Resize, Close, StartTail, ResizeAcked, ResizeAgain,
       Resolve, ClickAcked, Synced, NotSynced, DriverEnds, ServerMatches
  <2>2. Len(slog) \in Nat /\ offset \in Nat
    BY LenProperties DEF ReportInv, IsSeq
  <2>3. PICK k \in (offset + 1)..Len(slog) : Shows(slog[k], Awaited(n))
    BY <2>1 DEF Matched
  <2>4. k \in 1..Len(slog) /\ Len(slog) > offset /\ k \in Nat
    BY <2>2, <2>3
  <2>5. PICK j \in Reported : Before(j) = k - 1 /\ slog[k] = Frames[j].seq
    BY <2>4 DEF ReportInv
  <2>6. PICK m \in 1..Len(Frames) :
          Frames[m].kind # "keepalive" /\ Frames[m].seq = Awaited(n)
    BY <2>1, AwaitedIsRecorded
  <2>7. j \in 1..Len(Frames) /\ Frames[j].kind = "login"
    BY ReportsAreCounted
  <2>8. m \in Reported
    BY <2>3, <2>5, <2>6, <2>7 DEF NumbersApart, Reported
  <2>9. m <= j
    <3>1. Frames[m].seq <= Frames[j].seq
      BY <2>3, <2>5, <2>6, <2>7, FramesAssumption, ShownIsSmaller
    <3>2. j < m => Frames[j].seq < Frames[m].seq
      BY <2>7, FramesAssumption
    <3>3. Frames[j].seq \in Nat /\ Frames[m].seq \in Nat /\ j \in Nat /\ m \in Nat
      BY <2>7, FramesAssumption
    <3>. QED
      BY <3>1, <3>2, <3>3
  <2>10. Before(m) \in Nat /\ Before(j) \in Nat /\ Before(m) <= Before(j)
    <3>0. \A i : Before(i) \in Nat
      BY ReportsAreCounted
    <3>1. j \in Nat /\ m \in Nat /\ Before(m) \in Nat /\ Before(j) \in Nat
      BY <2>7, <3>0
    <3>2. m < j => Before(m) < Before(j)
      BY <2>8, EarlierIsBefore
    <3>. QED
      BY <2>9, <3>1, <3>2
  <2>11. Before(m) < Len(slog) /\ Before(m) + 1 \in 1..Len(slog)
    BY <2>2, <2>4, <2>5, <2>10
  <2>12. slog[Before(m) + 1] = Awaited(n)
    BY <2>6, <2>8, <2>11 DEF ReportInv
  <2>. QED
    BY <2>4, <2>11, <2>12
<1>3. Spec => []ReportInv
  BY <1>1, ReportStep, PTL DEF Spec
<1>. QED
  BY <1>2, <1>3, PTL DEF Spec, SyncedIsMatched
=============================================================================
