---------------------------- MODULE ShiftHistory ----------------------------
(***************************************************************************)
(* What input_replayer.py and dom_driver.py have in common: pixels, where  *)
(* a recorded patch is found on the screen, and the shifts learned from    *)
(* such finds, which move the clicks whose patch is not found.             *)
(***************************************************************************)
EXTENDS Integers, Sequences, FiniteSets, FiniteSetsExt, SequencesExt

(* No value, as Python's None. *)
None == <<>>

(* round of Python: halves go to the even neighbour. *)
Round(n, d) ==
  LET q == n \div d
      r == n % d
  IN  IF 2 * r < d \/ (2 * r = d /\ q % 2 = 0) THEN q ELSE q + 1

Clamp(v, low, high) == IF v < low THEN low ELSE IF v > high THEN high ELSE v
Plus(p, q)          == <<p[1] + q[1], p[2] + q[2]>>
Minus(p, q)         == <<p[1] - q[1], p[2] - q[2]>>

(* The upper median, on each axis for itself: place n // 2 of the sorted   *)
(* values has the least value that more than half of them do not exceed.   *)
Median(s) ==
  LET value(i) == {s[k][i] : k \in 1..Len(s)}
      upTo(i, v) == {k \in 1..Len(s) : s[k][i] <= v}
      axis(i) == Min({v \in value(i) : Cardinality(upTo(i, v)) > Len(s) \div 2})
  IN  IF s = <<>> THEN <<0, 0>> ELSE <<axis(1), axis(2)>>

(* Mutant: the newest shift is dropped, not the oldest. *)
LearnForgetsNew(s, d, most) == IF Len(s) < most THEN Append(s, d) ELSE s

Learn(s, d, most) ==
  LET all == Append(s, d)
  IN  IF Len(all) > most THEN Tail(all) ELSE all

-----------------------------------------------------------------------------
(* A picture gives the score, in percent, with which a patch matches at    *)
(* each shift from its recorded place, where it matches at all.            *)
CV_MATCH_THRESHOLD == 50
CV_PEAK_TIE_MARGIN == 5

(* The whole patch, half pixels to each side, lies in the picture. *)
Cells(pic, rec, size, half) ==
  Restrict(pic, {s \in DOMAIN pic :
                   \A i \in {1, 2} : Plus(rec, s)[i] \in half..(size[i] - half)})

(* Of two matches about as good, the nearer to the recorded place. *)
Nearer(s, t) ==
  LET square(v) == v[1] * v[1] + v[2] * v[2]
  IN  \/ square(s) < square(t)
      \/ square(s) = square(t) /\ (s[2] < t[2] \/ (s[2] = t[2] /\ s[1] < t[1]))

BestMatch(pic) ==
  LET best == Max(Range(pic))
      tied == {s \in DOMAIN pic : pic[s] >= best - CV_PEAK_TIE_MARGIN}
  IN  IF DOMAIN pic = {} \/ best < CV_MATCH_THRESHOLD THEN None
      ELSE CHOOSE s \in tied : \A t \in tied \ {s} : Nearer(s, t)
=============================================================================
