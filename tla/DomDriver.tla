----------------------------- MODULE DomDriver -----------------------------
(***************************************************************************)
(* dom_driver.py: it resizes the game's window until the library says it   *)
(* has, then sends the recorded clicks one by one. After each it waits for *)
(* the library's log line, then for the server's log to say that the C2S   *)
(* frame recorded after the click was matched; either wait may time out.   *)
(* The server's log is external.                                           *)
(***************************************************************************)
EXTENDS DomMailbox

CONSTANTS
  Clicks,         \* the recorded presses of the left button, in order
  Frames,         \* the recorded C2S frames, in order, as [seq, kind]
  Attempts,       \* attempts
  ShiftMax,       \* SHIFT_HISTORY_MAX
  DoubleClick,    \* DOUBLE_CLICK_NS
  Client,         \* <<win_w, win_h>>
  PatchHalf,      \* half the size of a patch
  Pictures        \* bound: what the screen may show near a recorded place

ASSUME DomAssumption ==
  /\ Attempts \in Nat \ {0} /\ PatchHalf \in Nat /\ ShiftMax \in Nat \ {0}
  /\ Clicks \in Seq(Range(Clicks))

(* The serial token of write_cmd is a time: no line of an earlier session  *)
(* has that of a click of this one. An empty file holds no line.           *)
ASSUME TokenAssumption ==
  /\ None \notin Leftovers
  /\ \A line \in Leftovers, i \in 1..Len(Clicks) : line.salt # i

(* The recorder numbers the lines in the order in which it writes them.    *)
ASSUME FramesAssumption ==
  /\ Frames \in Seq(Range(Frames))
  /\ \A j, k \in 1..Len(Frames) :
       Frames[j].seq \in Nat /\ (j < k => Frames[j].seq < Frames[k].seq)

VARIABLES
  pc,             \* where main is
  n,              \* the attempt, then the click
  tail,           \* the size of the library's log when the wait began
  shiftHistory,   \* shift_history
  offset,         \* the size of the server's log before the click
  slog,           \* the "matched" lines of the server's log
  \* Kept for the properties only:
  slow,           \* whether a wait ended with the library at work
  resized,        \* whether the library has acknowledged the resize
  unsynced        \* the clicks the server's match was not awaited for, or in vain

domVars == <<pc, n, tail, shiftHistory, offset, slog, slow, resized, unsynced>>

DomInit ==
  /\ pc = "resize" /\ n = 1 /\ tail = 0 /\ shiftHistory = <<>> /\ offset = 0
  /\ slog = <<>> /\ slow = FALSE /\ resized = FALSE /\ unsynced = {}

-----------------------------------------------------------------------------
Places(c) == <<Clamp(c.place[1], 0, Client[1] - 1), Clamp(c.place[2], 0, Client[2] - 1)>>

(* Click i is the second at its place within the time of a double click. *)
Follows(i) ==
  /\ i > 1
  /\ Clicks[i].place = Clicks[i - 1].place
  /\ Clicks[i].t - Clicks[i - 1].t <= DoubleClick

(* is_dbl: what follows marks its predecessor as absorbed, even one that   *)
(* was marked as a double click itself.                                    *)
Absorbed(i) == i < Len(Clicks) /\ Follows(i + 1)
IsDbl(i)    == Follows(i) /\ ~Absorbed(i)

(* next_c2s_seq_after: keep-alives are passed over. *)
NoFrame == -1
Awaited(i) ==
  LET later == {k \in 1..Len(Frames) : Frames[k].kind # "keepalive"
                                       /\ Frames[k].seq > Clicks[i].seq}
  IN  IF later = {} THEN NoFrame ELSE Frames[Min(later)].seq

(* "matched seq=12" is a part of "matched seq=120". *)
Shows(line, seq) == \E d \in {1, 10, 100, 1000, 10000} : line \div d = seq

(* Mutant: the line has no serial token. *)
ClickLineBare(i, at) ==
  [op |-> IF IsDbl(i) THEN "click_dbl" ELSE "click_post", at |-> at, salt |-> 0]

(* The line for click i: the serial token makes it unlike any other. *)
ClickLine(i, at) ==
  [op |-> IF IsDbl(i) THEN "click_dbl" ELSE "click_post", at |-> at, salt |-> i]

-----------------------------------------------------------------------------
(* A wait runs out: the library has nothing left to do, or is slower.      *)
TimesOut == slow' = (slow \/ ~Quiet)

Resize ==
  /\ pc = "resize"
  /\ OpenFile([op |-> "resize", at |-> Client, salt |-> -n])
  /\ pc' = "resize_close"
  /\ UNCHANGED <<n, tail, shiftHistory, offset, slog, slow, resized, unsynced>>

Close ==
  /\ pc \in {"resize_close", "click_close"}
  /\ CloseFile
  /\ pc' = IF pc = "resize_close" THEN "resize_tail" ELSE "click_tail"
  /\ UNCHANGED <<n, tail, shiftHistory, offset, slog, slow, resized, unsynced>>

(* Mutant: lines of an earlier session count. *)
StartTailAtOnce ==
  /\ pc \in {"resize_tail", "click_tail"}
  /\ tail' = 0
  /\ pc' = IF pc = "resize_tail" THEN "resize_ack" ELSE "click_ack"
  /\ UNCHANGED <<mailVars, n, shiftHistory, offset, slog, slow, resized, unsynced>>

(* tail_log_for_marker starts where the log ends now. *)
StartTail ==
  /\ pc \in {"resize_tail", "click_tail"}
  /\ tail' = Len(dlog)
  /\ pc' = IF pc = "resize_tail" THEN "resize_ack" ELSE "click_ack"
  /\ UNCHANGED <<mailVars, n, shiftHistory, offset, slog, slow, resized, unsynced>>

Logged(op, ok) == \E k \in (tail + 1)..Len(dlog) : dlog[k].op = op /\ dlog[k].ok \in ok

ResizeAcked ==
  /\ pc = "resize_ack" /\ Logged("resize", {TRUE})
  /\ pc' = "click" /\ n' = 1 /\ resized' = TRUE
  /\ UNCHANGED <<mailVars, tail, shiftHistory, offset, slog, slow, unsynced>>

(* No window yet, or no line at all: the next attempt, or on without. *)
ResizeAgain ==
  /\ pc = "resize_ack" /\ ~Logged("resize", {TRUE})
  /\ TimesOut
  /\ IF n < Attempts THEN n' = n + 1 /\ pc' = "resize" ELSE n' = 1 /\ pc' = "click"
  /\ UNCHANGED <<mailVars, tail, shiftHistory, offset, slog, resized, unsynced>>

(* cv_resolve_click: where the patch of a click is found. A missing file   *)
(* or screenshot is a picture in which nothing matches.                    *)
Finds(c, pic) ==
  IF c.patch THEN BestMatch(Cells(pic, Places(c), Client, PatchHalf)) ELSE None

(* The place of click n: where its patch is found, else the recorded place *)
(* and the learned shift. A click absorbed teaches its shift all the same. *)
Resolve(pic) ==
  /\ pc = "click" /\ n <= Len(Clicks)
  /\ LET found == Finds(Clicks[n], pic)
     IN  /\ shiftHistory' = IF found # None THEN Learn(shiftHistory, found, ShiftMax)
                                            ELSE shiftHistory
         /\ IF Absorbed(n)
            THEN n' = n + 1 /\ UNCHANGED <<mailVars, pc, offset>>
            ELSE /\ OpenFile(ClickLine(n, Plus(Places(Clicks[n]),
                              IF found # None THEN found ELSE Median(shiftHistory))))
                 /\ offset' = Len(slog)
                 /\ pc' = "click_close"
                 /\ UNCHANGED n
  /\ UNCHANGED <<tail, slog, slow, resized, unsynced>>

(* Any line of the kind ends the wait, and so does its timeout. *)
ClickOp == IF IsDbl(n) THEN "click_dbl" ELSE "click_post"
ClickAcked ==
  /\ pc = "click_ack"
  /\ \/ Logged(ClickOp, BOOLEAN) /\ UNCHANGED slow
     \/ ~Logged(ClickOp, BOOLEAN) /\ TimesOut
  /\ pc' = "sync"
  /\ UNCHANGED <<mailVars, n, tail, shiftHistory, offset, slog, resized, unsynced>>

(* Mutant: lines from before the click count. *)
MatchedEver(i) == \E k \in 1..Len(slog) : Shows(slog[k], Awaited(i))

Matched(i) == \E k \in (offset + 1)..Len(slog) : Shows(slog[k], Awaited(i))

Synced ==
  /\ pc = "sync" /\ Awaited(n) # NoFrame /\ Matched(n)
  /\ pc' = "click" /\ n' = n + 1
  /\ UNCHANGED <<mailVars, tail, shiftHistory, offset, slog, slow, resized, unsynced>>

NotSynced ==
  /\ pc = "sync"
  /\ Awaited(n) = NoFrame \/ ~Matched(n)
  /\ unsynced' = unsynced \cup {n}
  /\ pc' = "click" /\ n' = n + 1
  /\ UNCHANGED <<mailVars, tail, shiftHistory, offset, slog, slow, resized>>

DriverEnds ==
  /\ pc = "click" /\ n > Len(Clicks)
  /\ pc' = "end"
  /\ UNCHANGED <<mailVars, n, tail, shiftHistory, offset, slog, slow, resized, unsynced>>

(* The server matches the frames of the login in order; those of the world *)
(* it never reports. The game sends one by itself or because of a click.   *)
Reported  == {k \in 1..Len(Frames) : Frames[k].kind = "login"}
Before(k) == Cardinality({j \in Reported : j < k})
ServerMatches ==
  /\ \E k \in Reported : Before(k) = Len(slog) /\ slog' = Append(slog, Frames[k].seq)
  /\ UNCHANGED <<mailVars, pc, n, tail, shiftHistory, offset, slow, resized, unsynced>>

DomNext ==
  \/ (Library \/ CanvasAppears) /\ UNCHANGED domVars
  \/ Resize \/ Close \/ StartTail \/ ResizeAcked \/ ResizeAgain
  \/ \E pic \in Pictures : Resolve(pic)
  \/ ClickAcked \/ Synced \/ NotSynced \/ DriverEnds \/ ServerMatches
=============================================================================
