--------------------------- MODULE ClickResolver ---------------------------
(***************************************************************************)
(* Where the input replayer puts the mouse (replay of input_replayer.py,   *)
(* the branches of the mouse events): a recorded place is mapped to the    *)
(* live window, a press with a recorded patch is moved to where the patch  *)
(* is found on the screen, a release follows its press unless it ends a    *)
(* drag, and a second press at the same place becomes a double click. The  *)
(* timeline, its waiting and its end are in InputReplayer; the window and  *)
(* its picture are external. Points are pairs of pixels, and events carry  *)
(* the pixel fx * cw, fy * ch.                                             *)
(***************************************************************************)
EXTENDS ShiftHistory

CONSTANTS
  Recorded,       \* <<cw, ch>>: the recorded client area
  Game,           \* <<vm_w, vm_h>>: the game inside it
  Offset,         \* <<left_offset, top_offset>>
  Correction,     \* <<x_correction, y_correction>>
  Screen,         \* the virtual screen, as [at, size]
  PatchHalf,      \* half of PATCH_SIZE
  ShiftHistoryMax,  \* SHIFT_HISTORY_MAX
  DoubleTime,     \* dblclk_ns
  Windows,        \* bound: the rectangles the window may take
  Buttons,        \* bound: the buttons of the events
  Places,         \* bound: the recorded pixels of the events
  Pictures,       \* bound: what the screen may show near a recorded place
  Gaps,           \* bound: the recorded time between two presses
  MaxEvents,      \* bound: the number of events
  MaxWindowMoves  \* bound: how often the window moves

ASSUME ClickAssumption ==
  /\ Recorded \in (Nat \ {0}) \X (Nat \ {0}) /\ Game \in (Nat \ {0}) \X (Nat \ {0})
  /\ PatchHalf \in Nat /\ ShiftHistoryMax \in Nat \ {0} /\ DoubleTime \in Nat
  /\ MaxEvents \in Nat /\ MaxWindowMoves \in Nat /\ Gaps \subseteq Nat

Points == Int \X Int
Areas  == [at : Points, size : (Nat \ {0}) \X (Nat \ {0})]

(* A window without area ends the replay before the first click.           *)
ASSUME PixelAssumption ==
  /\ Offset \in Points /\ Correction \in Points /\ Places \subseteq Points
  /\ Screen \in Areas /\ Windows \subseteq Areas
  /\ \A pic \in Pictures :
       /\ IsFiniteSet(DOMAIN pic) /\ DOMAIN pic \subseteq Points
       /\ \A s \in DOMAIN pic : pic[s] \in Int

VARIABLES
  mode,           \* --click-mode
  live,           \* where the window is
  moves,          \* how often it has moved
  rect,           \* win_x, win_y, win_w, win_h
  refreshed,      \* _rect_refreshed
  halted,         \* whether the replay has returned
  lastCv,         \* last_cv_xy_by_btn
  lastDownRec,    \* last_down_rec_xy_by_btn
  shifts,         \* shift_history
  lastDown,       \* last_down_ns_by_btn and last_down_xy_by_btn
  now,            \* the recorded time of the last press
  events,         \* how many events have been taken
  posted,         \* what the last event delivered
  \* Kept for the properties only:
  taken,          \* the last event
  press,          \* per button, the last press: its place, target and means
  matches,        \* the shifts of all confident matches
  downs,          \* per button, the presses delivered
  doubles         \* per button, the double clicks posted

windowVars == <<mode, live, moves>>
resolveVars == <<lastCv, lastDownRec, shifts>>
pairVars == <<lastDown, doubles>>
vars == <<windowVars, rect, refreshed, halted, resolveVars, pairVars, now, events,
          posted, taken, press, matches, downs>>

-----------------------------------------------------------------------------
Far(p, q)           == \E i \in {1, 2} : Minus(p, q)[i] \notin -4..4

(* map_client: the point of the client area. *)
MapClient(p, r) ==
  LET axis(i) == Round(Clamp(p[i] - Offset[i], 0, Game[i]) * r.size[i], Game[i])
  IN  <<axis(1), axis(2)>>

(* map_coords: the point of the screen. *)
MapCoords(p, r) == Plus(Plus(r.at, MapClient(p, r)), Correction)

(* What a click without a match uses in postmessage mode. *)
Scaled(p, r) ==
  Plus(<<Round(p[1] * r.size[1], Recorded[1]), Round(p[2] * r.size[2], Recorded[2])>>,
       Correction)

(* screen_to_abs *)
ScreenToAbs(p) ==
  LET axis(i) == Clamp(Round((p[i] - Screen.at[i]) * 65535, Screen.size[i]), 0, 65535)
  IN  <<axis(1), axis(2)>>

-----------------------------------------------------------------------------
Init ==
  /\ mode \in {"sendinput", "postmessage"}
  /\ live \in Windows /\ rect = live
  /\ moves = 0 /\ refreshed = FALSE /\ halted = FALSE
  /\ lastCv = [b \in Buttons |-> None] /\ lastDownRec = [b \in Buttons |-> None]
  /\ shifts = <<>> /\ matches = <<>>
  /\ lastDown = [b \in Buttons |-> None]
  /\ now = 1 /\ events = 0 /\ posted = <<>> /\ taken = None
  /\ press = [b \in Buttons |-> None]
  /\ downs = [b \in Buttons |-> 0] /\ doubles = [b \in Buttons |-> 0]

Taken(what, b, p, gap) ==
  /\ ~halted /\ events < MaxEvents
  /\ taken' = [what |-> what, btn |-> b, place |-> p]
  /\ events' = events + 1
  /\ now' = now + gap

(* The time of other events than presses is never looked at. *)
TakenOther(what, b, p) == Taken(what, b, p, 0)

(* The window moves or changes its size. *)
WindowMoves ==
  /\ moves < MaxWindowMoves
  /\ live' \in Windows \ {live}
  /\ moves' = moves + 1
  /\ UNCHANGED <<mode, rect, refreshed, halted, resolveVars, pairVars, now, events,
                 posted, taken, press, matches, downs>>

(* Mutant: the rectangle of the start is kept. *)
RefreshNever == rect' = rect /\ refreshed' = TRUE

(* get_window_client_rect_screen *)
ClientRect == live

(* Before the first button event the rectangle is read again. *)
Refresh ==
  /\ rect' = IF refreshed THEN rect ELSE ClientRect
  /\ refreshed' = TRUE

(* The window is gone, minimised or without area before the first click. *)
RefreshFails ==
  /\ ~refreshed /\ ~halted /\ events < MaxEvents
  /\ halted' = TRUE
  /\ posted' = <<>>
  /\ UNCHANGED <<windowVars, rect, refreshed, resolveVars, pairVars, now, events,
                 taken, press, matches, downs>>

(* What is delivered for an event of button b resolved to the client point *)
(* c, or to none: the screen point, or the client point of the message. A  *)
(* press is announced by a move in postmessage mode.                       *)
Target(c, p) ==
  IF mode = "postmessage" THEN IF c # None THEN c ELSE Scaled(p, rect')
  ELSE ScreenToAbs(IF c # None THEN Plus(rect'.at, c) ELSE MapCoords(p, rect'))

Sent(b, what, at) == <<[what |-> what, btn |-> b, at |-> at]>>

Posted(b, what, at) ==
  (IF what = "down" THEN Sent(b, "move", at) ELSE <<>>) \o Sent(b, what, at)

Click(b, what, at) ==
  IF mode = "postmessage" THEN Posted(b, what, at) ELSE Sent(b, what, at)

(* The client point the double-click bridge compares. *)
Pressed(c, p) ==
  IF c # None THEN c ELSE Minus(MapCoords(p, rect'), rect'.at)

IsDouble(b, at) ==
  /\ lastDown[b] # None
  /\ ~Far(at, lastDown[b].at)
  /\ now' - lastDown[b].t \in 1..DoubleTime

(* Mutant: the second press of a double click may be the first of another. *)
BridgeKeeps(b, at) ==
  /\ lastDown' = [lastDown EXCEPT ![b] = [t |-> now', at |-> at]]
  /\ doubles' = [doubles EXCEPT ![b] = IF IsDouble(b, at) THEN @ + 1 ELSE @]

Bridge(b, at) ==
  /\ lastDown' = [lastDown EXCEPT ![b] = IF IsDouble(b, at) THEN None
                                         ELSE [t |-> now', at |-> at]]
  /\ doubles' = [doubles EXCEPT ![b] = IF IsDouble(b, at) THEN @ + 1 ELSE @]

(* The press is delivered at the client point c, or at its own place. *)
Deliver(b, p, c) ==
  /\ IF mode = "postmessage"
     THEN posted' = Click(b, "down", Target(c, p)) /\ UNCHANGED pairVars
     ELSE /\ Bridge(b, Pressed(c, p))
          /\ posted' = Click(b, "down", Target(c, p)) \o
                       (IF IsDouble(b, Pressed(c, p))
                        THEN Sent(b, "double", Pressed(c, p)) ELSE <<>>)
  /\ downs' = [downs EXCEPT ![b] = @ + 1]

(* A press with no patch, or whose patch file is missing. *)
PressPlain(b, p, gap) ==
  /\ Taken("down", b, p, gap) /\ Refresh
  /\ Deliver(b, p, None)
  /\ press' = [press EXCEPT ![b] = [rec |-> MapClient(p, rect'), at |-> Target(None, p),
                                    patch |-> FALSE]]
  /\ UNCHANGED <<windowVars, halted, resolveVars, matches>>

(* A press with a patch, which is looked for in the picture pic of the     *)
(* window as it is now.                                                    *)
PressPatch(b, p, gap, pic) ==
  /\ Taken("down", b, p, gap) /\ Refresh
  /\ \E rec \in {MapClient(p, rect')} :
     \E found \in {BestMatch(Cells(pic, rec, ClientRect.size, PatchHalf))} :
       LET c == Plus(rec, IF found # None THEN found ELSE Median(shifts))
       IN  /\ lastDownRec' = [lastDownRec EXCEPT ![b] = rec]
           /\ lastCv' = [lastCv EXCEPT ![b] = c]
           /\ IF found # None
              THEN /\ shifts' = Learn(shifts, found, ShiftHistoryMax)
                   /\ matches' = Append(matches, found)
              ELSE UNCHANGED <<shifts, matches>>
           /\ Deliver(b, p, c)
           /\ press' = [press EXCEPT ![b] = [rec |-> rec, at |-> Target(c, p), patch |-> TRUE]]
  /\ UNCHANGED <<windowVars, halted>>

(* Where a release goes: a drag's to its own place, another's to the last  *)
(* matched press of the button.                                            *)
IsDrag(b, rec) == lastDownRec[b] # None /\ Far(rec, lastDownRec[b])

(* Mutant: a drag is not told from a click. *)
ReleasePointOwn(b, rec) == Plus(rec, Median(shifts))

ReleasePoint(b, rec) ==
  IF IsDrag(b, rec) THEN Plus(rec, Median(shifts)) ELSE lastCv[b]

Release(b, p) ==
  /\ TakenOther("up", b, p) /\ Refresh
  /\ posted' = Click(b, "up", Target(ReleasePoint(b, MapClient(p, rect')), p))
  /\ UNCHANGED <<windowVars, halted, resolveVars, pairVars, press, matches, downs>>

Move(p) ==
  /\ TakenOther("move", "none", p)
  /\ posted' = Sent("none", "move", ScreenToAbs(MapCoords(p, rect)))
  /\ UNCHANGED <<windowVars, rect, refreshed, halted, resolveVars, pairVars, press,
                 matches, downs>>

(* Either wheel, or both, the upright one first. *)
Wheel(turned, p) ==
  /\ TakenOther("wheel", "none", p)
  /\ posted' = LET at == ScreenToAbs(MapCoords(p, rect))
               IN  (IF "dy" \in turned THEN Sent("none", "wheel", at) ELSE <<>>)
                   \o (IF "dx" \in turned THEN Sent("none", "hwheel", at) ELSE <<>>)
  /\ UNCHANGED <<windowVars, rect, refreshed, halted, resolveVars, pairVars, press,
                 matches, downs>>

(* A key whose code cannot be resolved is passed over. *)
Key(state) ==
  /\ TakenOther("key", "none", None)
  /\ posted' \in {<<>>, Sent("none", state, None)}
  /\ UNCHANGED <<windowVars, rect, refreshed, halted, resolveVars, pairVars, press,
                 matches, downs>>

Next ==
  \/ WindowMoves
  \/ RefreshFails
  \/ \E state \in {"key_down", "key_up"} : Key(state)
  \/ \E p \in Places :
       \/ Move(p)
       \/ \E turned \in SUBSET {"dx", "dy"} : Wheel(turned, p)
       \/ \E b \in Buttons :
            \/ Release(b, p)
            \/ \E gap \in Gaps :
                 \/ PressPlain(b, p, gap)
                 \/ \E pic \in Pictures : PressPatch(b, p, gap, pic)

Spec == Init /\ [][Next]_vars

-----------------------------------------------------------------------------
TypeOK ==
  /\ mode \in {"sendinput", "postmessage"} /\ live \in Windows /\ rect \in Windows
  /\ refreshed \in BOOLEAN /\ halted \in BOOLEAN
  /\ lastCv \in [Buttons -> Points \cup {None}]
  /\ lastDownRec \in [Buttons -> Points \cup {None}]
  /\ shifts \in Seq(Points) /\ Len(shifts) <= ShiftHistoryMax
  /\ \A b \in Buttons : lastDown[b] # None => lastDown[b].at \in Points

(* A click whose press had a patch is delivered at one pixel, whatever was *)
(* matched, learned or pressed in between with other buttons.              *)
MeetsPress ==
  events' # events /\ taken'.what = "up" =>
    LET was == press[taken'.btn]
    IN  was # None /\ was.patch /\ ~Far(MapClient(taken'.place, rect'), was.rec)
          => Last(posted').at = was.at

ReleaseMeetsPress == [][MeetsPress]_vars

(* A press whose patch is not found is moved by the median of the latest   *)
(* confident matches, on each axis: half of them lie on either side.       *)
MovedByMedian ==
  events' # events /\ taken'.what = "down" =>
    LET b      == taken'.btn
        n      == Min({Len(matches), ShiftHistoryMax})
        recent == SubSeq(matches, Len(matches) - n + 1, Len(matches))
        moved  == Minus(lastCv'[b], press'[b].rec)
    IN  press'[b].patch /\ matches' = matches =>
          \A i \in {1, 2} :
            IF n = 0 THEN moved[i] = 0
            ELSE /\ 2 * Cardinality({k \in 1..n : recent[k][i] <= moved[i]}) >= n
                 /\ 2 * Cardinality({k \in 1..n : recent[k][i] >= moved[i]}) >= n

FallbackIsMedian == [][MovedByMedian]_vars

(* No press takes part in two double clicks. *)
DoublesArePairs == \A b \in Buttons : 2 * doubles[b] <= downs[b]

(* The first click lands in the window where it is then, but for the fixed *)
(* correction, even when it has moved since the start of the replay.       *)
LandsInWindow ==
  mode = "sendinput" /\ ~refreshed /\ refreshed' =>
    LET before == <<Min({0, Correction[1]}), Min({0, Correction[2]})>>
        after  == <<Max({0, Correction[1]}), Max({0, Correction[2]})>>
        low    == ScreenToAbs(Plus(live.at, before))
        high   == ScreenToAbs(Plus(Plus(live.at, live.size), after))
    IN  \A i \in {1, 2} : posted'[1].at[i] \in low[i]..high[i]

FirstClickFresh == [][LandsInWindow]_vars
=============================================================================
