--------------------------- MODULE MCDomSession ---------------------------
(* A few clicks and a few form events for TLC. *)
EXTENDS DomSession

SmallClient    == <<30, 20>>
OldLine        == [op |-> "click_post", at |-> <<1, 1>>, salt |-> 99]
SmallLeftovers == {OldLine}

Click(place, t, seq, patch) == [place |-> place, t |-> t, seq |-> seq, patch |-> patch]
(* A press, then two at one place that are a double click. *)
SmallClicks == <<Click(<<29, 20>>, 1, 1, TRUE), Click(<<5, 5>>, 9, 3, FALSE),
                 Click(<<5, 5>>, 10, 4, FALSE)>>
(* The number of the second frame of the login begins with that of the     *)
(* first; the frame of the world is never reported.                        *)
SmallFrames == <<[seq |-> 2, kind |-> "login"], [seq |-> 5, kind |-> "keepalive"],
                 [seq |-> 20, kind |-> "login"], [seq |-> 21, kind |-> "world"]>>
(* A match with a better one outside the window; one too weak. *)
SmallPictures == {(<<-3, -2>> :> 80) @@ (<<40, 0>> :> 90), <<-3, -2>> :> 45}

(* One frame that can be waited for, next to a keep-alive and an answer.   *)
SmallNet == <<[dir |-> "C2S", port |-> 1818, op |-> 7, cipher |-> "none"],
              [dir |-> "S2C", port |-> 1818, op |-> 8, cipher |-> "none"],
              [dir |-> "C2S", port |-> 1818, op |-> 5, cipher |-> "none"]>>
Entered  == <<1818, 7>>
Ghostly  == <<1818, 5>>

Appear == [kind |-> "form_appear", t |-> 0, off |-> "none", action |-> "none",
           arg |-> "none", expect |-> <<>>]
Form(t, off, action, arg, expect) ==
  [kind |-> "form", t |-> t, off |-> off, action |-> action, arg |-> arg, expect |-> expect]
(* A close recorded before the slot pick of the same poll; a modal.        *)
Enter  == <<Appear,
            Form(1, "0x18", "invoke", "start", <<Entered>>),
            Form(1, "0x7d", "pick_slot", "2", <<>>),
            Form(2, "0x18", "skip", "none", <<>>),
            Form(3, "0x4c", "open_modal", "bag", <<>>)>>
(* The same slot twice, an invocation that leads to no frame.              *)
Repeat == <<Form(1, "0x7d", "pick_slot", "2", <<>>),
            Form(2, "0x7d", "pick_slot", "2", <<>>),
            Form(3, "0x18", "invoke", "close", <<>>),
            Form(4, "0x7d", "pick_slot", "1", <<>>)>>
Stray  == <<Form(1, "0x7d", "unmapped", "none", <<>>)>>
Ghost  == <<Form(1, "0x18", "invoke", "start", <<Entered, Ghostly>>)>>
SmallScripts == {<<>>, Enter, Repeat, Stray, Ghost}
=============================================================================
