--------------------------- MODULE SessionContent ---------------------------
(***************************************************************************)
(* What the server emulator makes of the recorded payloads before it       *)
(* listens: the spawn frames it recognises, the swap of the player with    *)
(* another character, and the rewriting of the recorded server addresses.  *)
(* A queue is a sequence of records [dir, op, payload]; a payload is a     *)
(* sequence of bytes, and At(s, k) its byte at offset k, counted from 0.   *)
(***************************************************************************)
EXTENDS Integers, Sequences, SequencesExt, FiniteSetsExt

At(s, k)        == s[k + 1]
U16(s, k)       == At(s, k) + 256 * At(s, k + 1)
Slice(s, k, n)  == SubSeq(s, k + 1, k + n)
Places(s, n)    == 1..(Len(s) - n + 1)
Put(s, k, t)    == SubSeq(s, 1, k) \o t \o SubSeq(s, k + Len(t) + 1, Len(s))

(* The members of P up to n, in ascending order, and the elements of s at  *)
(* the places in P (a SelectSeq that can be reasoned about).               *)
Ascending(n, P) ==
  LET upto[k \in 0..n] ==
        CASE k = 0            -> <<>>
          [] k > 0 /\ k \in P -> Append(upto[k - 1], k)
          [] OTHER            -> upto[k - 1]
  IN  upto[n]
Those(s, P) ==
  LET at == Ascending(Len(s), P)
  IN  [i \in 1..Len(at) |-> s[at[i]]]

(* The entries of a queue that the server sent. *)
FromServerIn(q) == Those(q, {i \in 1..Len(q) : q[i].dir = "S2C"})

(* One pass over s from the left: every stretch of n bytes that New knows  *)
(* is replaced by what New gives for it and is not looked at again.        *)
OnePass(s, n, New) ==
  LET known(k) == SubSeq(s, k, k + n - 1)
      from[k \in 1..(Len(s) + 1)] ==
        LET found == {j \in Places(s, n) : j >= k /\ known(j) \in DOMAIN New}
            j     == Min(found)
        IN  IF found = {} THEN SubSeq(s, k, Len(s))
            ELSE SubSeq(s, k, j - 1) \o New[known(j)] \o from[j + n]
  IN  from[1]

-----------------------------------------------------------------------------
(* spawn_parser.py *)

NoSpawn == [kind |-> "none", actor |-> 0, x |-> 0, y |-> 0, name |-> <<>>]

(* The name is cut at the end of the frame; an empty one is no name. *)
SpawnName(f) ==
  IF Len(f) < 58 THEN <<>> ELSE SubSeq(f, 59, Min({58 + U16(f, 56), Len(f)}))

ParseSpawn(f) ==
  CASE Len(f) >= 17 /\ At(f, 2) = 176 /\ At(f, 8) = 17 ->
         [kind |-> "map_load", actor |-> 0, x |-> U16(f, 13), y |-> U16(f, 15),
          name |-> <<>>]
    [] Len(f) >= 36 /\ At(f, 2) = 177 /\ At(f, 8) = 1 ->
         [kind |-> "self_spawn", actor |-> U16(f, 10), x |-> U16(f, 32),
          y |-> U16(f, 34), name |-> SpawnName(f)]
    [] OTHER -> NoSpawn

-----------------------------------------------------------------------------
(* The swap of the player's character. *)

(* Mutant: only one direction is replaced. *)
ByteSwapOneWay(s, own, target) == OnePass(s, 2, [id \in {own} |-> target])

(* _byte_swap_actor_ids: the whole payload, its header too. *)
ByteSwap(s, own, target) ==
  OnePass(s, 2, [id \in {own, target} |-> IF id = own THEN target ELSE own])

Lower(name)         == [i \in 1..Len(name) |->
                          IF name[i] \in 65..90 THEN name[i] + 32 ELSE name[i]]
StartsWith(name, p) == IsPrefix(Lower(p), Lower(name))

(* A slot of the character list has 12 bytes for a name. *)
Padded(name) == [i \in 1..12 |-> IF i <= Len(name) THEN name[i] ELSE 0]
IdBytes(n)   == <<n % 256, n \div 256>>

(* The queue entries that show a named character, the player's own first.  *)
NamedSpawn(q, i) == /\ q[i].dir = "S2C"
                    /\ ParseSpawn(q[i].payload).kind = "self_spawn"
                    /\ ParseSpawn(q[i].payload).name # <<>>
Spawns(q)        == {i \in 1..Len(q) : NamedSpawn(q, i)}
Targets(q, name) == {i \in Spawns(q) \ {Min(Spawns(q))} :
                       StartsWith(ParseSpawn(q[i].payload).name, name)}

(* Nothing is swapped without a spawn of the player, when the player has   *)
(* that name already, or when nobody has it.                               *)
CanSwap(q, name) ==
  /\ name # <<>>
  /\ Spawns(q) # {}
  /\ ~StartsWith(ParseSpawn(q[Min(Spawns(q))].payload).name, name)
  /\ Targets(q, name) # {}

ReplaceFirst(s, old, new) ==
  LET places == {k \in Places(s, Len(old)) : Slice(s, k - 1, Len(old)) = old}
  IN  IF places = {} THEN s ELSE Put(s, Min(places) - 1, new)

Renamed(q, own, target) ==
  [i \in 1..Len(q) |->
     IF q[i].dir = "S2C" /\ At(q[i].payload, 2) = 212
     THEN [q[i] EXCEPT !.payload = ReplaceFirst(@, Padded(own), Padded(target))]
     ELSE q[i]]

(* swap_self_with_character: the player's spawn frame becomes that of the  *)
(* target, the slot in the character list gets the target's name, and the  *)
(* two actor ids change places in every other frame of the world.          *)
SwapSelf(queues, name) ==
  LET q   == queues["18123"]
      own == Min(Spawns(q))
      old == ParseSpawn(q[own].payload)
      at  == Min(Targets(q, name))
      new == ParseSpawn(q[at].payload)
      Swapped(rec) == IF rec.dir = "S2C"
                      THEN [rec EXCEPT !.payload =
                              ByteSwap(@, IdBytes(old.actor), IdBytes(new.actor))]
                      ELSE rec
  IN  IF ~CanSwap(q, name) THEN queues
      ELSE [p \in DOMAIN queues |->
              CASE p \in {"1818", "1819"} -> Renamed(queues[p], old.name, new.name)
                [] p = "18123" -> [i \in 1..Len(q) |->
                                     IF i = own THEN q[at] ELSE Swapped(q[i])]
                [] p = "18124" -> [i \in 1..Len(queues[p]) |-> Swapped(queues[p][i])]
                [] OTHER -> queues[p]]

-----------------------------------------------------------------------------
(* The rewriting of addresses. *)

(* The elements of s, each where it first stands. *)
Distinct(s) == Those(s, {i \in 1..Len(s) : \A j \in 1..(i - 1) : s[j] # s[i]})

(* collect_prod_ips: the servers the recorded client talked to. *)
EndpointIps(lines) ==
  LET seen == Those(lines, {i \in 1..Len(lines) : lines[i].kind = "server_endpoint"})
  IN  [i \in 1..Len(seen) |-> seen[i].ip]

(* main: besides, any four bytes before the port 1819 in a frame sent. *)
ListedIps(payload, mine) ==
  LET host(k) == SubSeq(payload, k, k + 3)
      at      == Ascending(Len(payload),
                           {k \in Places(payload, 6) :
                              /\ SubSeq(payload, k + 4, k + 5) = <<27, 7>>
                              /\ host(k)[1] \notin {0, 127} /\ host(k) # mine})
  IN  [i \in 1..Len(at) |-> host(at[i])]

ProdIps(lines, queues, ports, mine) ==
  LET sent(p)   == FromServerIn(queues[p])
      listed(p) == [i \in 1..Len(sent(p)) |-> ListedIps(sent(p)[i].payload, mine)]
  IN  Distinct(EndpointIps(lines)
               \o FlattenSeq([i \in 1..Len(ports) |-> FlattenSeq(listed(ports[i]))]))

(* Mutant: only the first address is rewritten. *)
RewriteFirst(payload, ips, mine) ==
  OnePass(payload, 4, [x \in {ips[1]} |-> mine])

(* rewrite_payload: one pass for each address. *)
Rewrite(payload, ips, mine) ==
  LET after[k \in 0..Len(ips)] ==
        IF k = 0 THEN payload
        ELSE OnePass(after[k - 1], 4, [x \in {ips[k]} |-> mine])
  IN  after[Len(ips)]
=============================================================================
