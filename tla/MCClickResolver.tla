-------------------------- MODULE MCClickResolver --------------------------
(* A small window and a few places for TLC. *)
EXTENDS ClickResolver

SmallRecorded   == <<60, 30>>
SmallGame       == <<50, 20>>
SmallOffset     == <<2, 6>>
SmallCorrection == <<-1, 2>>
SmallScreen     == [at |-> <<-20, 0>>, size |-> <<200, 100>>]
SmallWindows    == {[at |-> <<5, 5>>, size |-> <<40, 20>>],
                    [at |-> <<90, 40>>, size |-> <<50, 20>>]}
SmallPlaces     == {<<12, 10>>, <<30, 22>>}
(* Two matches about as good; one in the window and a better one that is   *)
(* below it; one too weak.                                                 *)
SmallPictures   == {(<<5, 0>> :> 80) @@ (<<-3, 1>> :> 78),
                    (<<5, 0>> :> 80) @@ (<<0, 40>> :> 95),
                    <<4, 0>> :> 45}
=============================================================================
