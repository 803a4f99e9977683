---------------------------- MODULE DomSession ----------------------------
(***************************************************************************)
(* The game under Wine, driven through the mailbox by one of the two       *)
(* programs written for it: DomDriver or FormReplayer.                     *)
(***************************************************************************)
EXTENDS DomDriver, FormReplayer

VARIABLE who      \* the program that runs

vars == <<mailVars, domVars, formVars, who>>

Init ==
  /\ who \in {"dom", "form"}
  /\ MailInit /\ DomInit /\ FormInit
  /\ who = "dom" => script = <<>>
  /\ who = "form" => dlog = <<>>

Next ==
  \/ who = "dom" /\ DomNext /\ UNCHANGED <<formVars, who>>
  \/ who = "form" /\ FormNext /\ UNCHANGED <<domVars, who>>

Spec == Init /\ [][Next]_vars

-----------------------------------------------------------------------------
(* The library was injected once and the game has not ended since. *)
OneGame == attaches = 1 /\ dll # "off"

(* The clicks of this run that reached the game, by their places in done.  *)
OwnClick(line) == line.op \in ClickOps /\ line \notin Leftovers
ClicksDone     == {k \in 1..Len(done) : OwnClick(done[k])}

(* The game gets the recorded clicks in order and each once. Only a game   *)
(* started anew carries out the last one again.                            *)
ClicksOnce ==
  \A i, j \in ClicksDone : i < j =>
    \/ done[i].salt < done[j].salt
    \/ /\ done[i] = done[j]
       /\ Cardinality({k \in ClicksDone : i < k /\ k <= j}) < attaches

(* Unless the driver has given up, the window has the recorded size before *)
(* the first click gets there: no log line of an earlier session, and no   *)
(* resize overtaken by a click, passes for the acknowledgement.            *)
ResizedFirst ==
  resized => \A k \in ClicksDone : \E i \in 1..(k - 1) : done[i].op = "resize"

(* With a library that keeps up and a window that is there, every recorded *)
(* click reaches the game, by itself or in the double click that ends a    *)
(* row of presses at its place.                                            *)
EveryClickLands ==
  /\ who = "dom" /\ pc = "end" /\ OneGame /\ resized /\ ~slow
  => \A i \in 1..Len(Clicks) : \E k \in ClicksDone :
       LET j == done[k].salt
       IN  /\ j >= i /\ \A m \in i..j : Clicks[m].place = Clicks[i].place
           /\ j > i => done[k].op = "click_dbl"

(* No frame of the login has a number that begins with that of a frame of  *)
(* the world, which the server does not report.                            *)
NumbersApart ==
  \A j, k \in 1..Len(Frames) :
    Frames[j].kind = "login" /\ Shows(Frames[j].seq, Frames[k].seq)
      => Frames[k].kind \in {"login", "keepalive"}

(* In such a recording a click counts as synced only when the server has   *)
(* matched the frame recorded after it, and has matched some frame since   *)
(* the click was sent.                                                     *)
SyncedIsMatched ==
  [][NumbersApart /\ pc = "sync" /\ pc' = "click" /\ n \notin unsynced' =>
       /\ \E k \in 1..Len(slog) : slog[k] = Awaited(n)
       /\ Len(slog) > offset]_vars

(* A sequence without the dropped lines and those that repeat the one      *)
(* before them.                                                            *)
Keeps(kept, line, dropped) ==
  IF line \in dropped \/ (kept # <<>> /\ Last(kept) = line) THEN kept ELSE Append(kept, line)
Kept(lines, dropped) ==
  LET kept[k \in 0..Len(lines)] ==
        IF k = 0 THEN <<>> ELSE Keeps(kept[k - 1], lines[k], dropped)
  IN  kept[Len(lines)]

(* What an earlier session has left, and what is written for an invocation *)
(* that leads to no frame, which is not waited for.                        *)
Awaits(e)   == e.action # "invoke" \/ e.expect # <<>>
Unawaited   == Leftovers \cup {issued[k].line : k \in {i \in 1..Len(issued) : ~Awaits(issued[i].event)}}
IssuedLines == [k \in 1..Len(issued) |-> issued[k].line]

(* With a library that keeps up, what the form replayer writes is carried  *)
(* out, all of it and in order, but for those and for a line like the one  *)
(* before it.                                                              *)
CarriedOut ==
  who = "form" /\ fpc = "done" /\ OneGame /\ ~hurried =>
    Kept(done, Unawaited) = Kept(IssuedLines, Unawaited)

(* Within a run events are replayed in recorded time order, and of two of  *)
(* the same poll the slot pick before the form that reads it is closed.    *)
PickBeforeClose ==
  \A j, k \in 1..Len(issued) : j < k /\ issued[j].run = issued[k].run =>
    LET a == issued[j].event
        b == issued[k].event
    IN  /\ a.t <= b.t
        /\ ~(a.t = b.t /\ a.off = "0x18" /\ b.off = "0x7d")

(* After the preflight the library takes no command but those this run     *)
(* has written: none of an earlier session, and none of a run killed       *)
(* between the two halves of a write.                                      *)
NoLeftover ==
  [][who = "form" /\ fpc \notin {"begin", "failed"} /\ dll = "idle" /\ dll' = "busy"
       => \E k \in 1..Len(issued) : issued[k].line = lastSeen' /\ issued[k].run = run]_vars

(* The pair matcher never takes over with the directive of another run     *)
(* than the one that wrote the sentinel, though a run may be killed        *)
(* between the two files or fail to write one.                             *)
FreshHandoff == handed[2] \in {handed[1], NoRun}

(* A match is taken for an invocation only if the pair matcher logged it   *)
(* after the marker was taken, however long the log has grown.             *)
InvokeAnswered ==
  [][fpc = "await" /\ want' = want + 1 /\ fpc' = "await" =>
       \E k \in (fired + 1)..Len(plog) : plog[k] = Expected]_vars

(* A recording that passes the dry run is stopped neither by an event      *)
(* without an entry in the action map nor by waiting for a frame that is   *)
(* nowhere in the recording.                                               *)
DryRunPredicts ==
  DryRun(script) =>
    /\ fpc # "unmapped"
    /\ fpc = "await" /\ want <= Len(Now.expect) => Expected \in Reachable
=============================================================================
