------------------------------ MODULE Lockstep ------------------------------
(***************************************************************************)
(* What the replay promises: a run dispatches the recorded inputs one      *)
(* after the other, and an input only once every net event it must wait    *)
(* for has been confirmed to it.  What is confirmed was announced since    *)
(* the run began, and only what the emulator has played is announced.      *)
(* Connections, links, messages and threads are left out.                  *)
(***************************************************************************)
EXTENDS Integers

CONSTANTS
  Replayers,
  Seqs,         \* the recorded events
  Inputs,       \* those that are inputs
  Required,     \* the net events an input after them waits for
  Begin         \* the event the replay starts at

VARIABLES
  played,       \* the net events the emulator has sent or matched
  announced,    \* of each run, what was announced since it began
  confirmed,    \* what it was told of
  fired         \* the inputs it dispatched

vars == <<played, announced, confirmed, fired>>

Init ==
  /\ played = {}
  /\ announced = [r \in Replayers |-> {}]
  /\ confirmed = [r \in Replayers |-> {}]
  /\ fired = [r \in Replayers |-> {}]

Play(s) ==
  /\ played' = played \cup {s}
  /\ UNCHANGED <<announced, confirmed, fired>>

Announce(s) ==
  /\ s \in played
  /\ announced' = [r \in Replayers |-> announced[r] \cup {s}]
  /\ UNCHANGED <<played, confirmed, fired>>

(* The emulator matches a frame of the client and announces it at once. *)
PlayAndAnnounce(s) ==
  /\ played' = played \cup {s}
  /\ announced' = [r \in Replayers |-> announced[r] \cup {s}]
  /\ UNCHANGED <<confirmed, fired>>

(* A run begins: it relies on nothing announced before. *)
Start(r) ==
  /\ confirmed[r] = {} /\ fired[r] = {}
  /\ announced' = [announced EXCEPT ![r] = {}]
  /\ UNCHANGED <<played, confirmed, fired>>

Confirm(r, s) ==
  /\ s \in announced[r]
  /\ confirmed' = [confirmed EXCEPT ![r] = @ \cup {s}]
  /\ UNCHANGED <<played, announced, fired>>

Fire(r, i) ==
  /\ fired[r] = {j \in Inputs : Begin <= j /\ j < i}
  /\ \A s \in Required : Begin <= s /\ s < i => s \in confirmed[r]
  /\ fired' = [fired EXCEPT ![r] = @ \cup {i}]
  /\ UNCHANGED <<played, announced, confirmed>>

Next ==
  \/ \E s \in Seqs : Play(s) \/ Announce(s) \/ PlayAndAnnounce(s)
  \/ \E r \in Replayers : \/ Start(r)
                          \/ \E s \in Seqs : Confirm(r, s)
                          \/ \E i \in Inputs : Fire(r, i)

Spec == Init /\ [][Next]_vars
=============================================================================
