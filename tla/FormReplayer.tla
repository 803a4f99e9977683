---------------------------- MODULE FormReplayer ----------------------------
(***************************************************************************)
(* recording_replayer.py: the older driver, which replays the recorded     *)
(* changes of the game's forms. After a preflight that clears what an      *)
(* earlier run has left, it maps each change to commands for the library,  *)
(* waits for the emulator's pair matcher to log the frames an invocation   *)
(* leads to, and hands the session over by a directive and a sentinel      *)
(* file. It may be killed and started again. The pair matcher, which reads *)
(* both files, and its log are external.                                   *)
(***************************************************************************)
EXTENDS DomMailbox

CONSTANTS
  Scripts,        \* the form lines of the recordings tried, in file order
  NetLines,       \* the net lines of the recordings
  LogTail,        \* --tail 8000
  MaxMatches,     \* bound: the lines of the pair matcher
  MaxRuns         \* bound: the runs of the replayer

ASSUME FormAssumption ==
  /\ LogTail \in Nat \ {0} /\ MaxMatches \in Nat
  /\ MaxRuns \in Nat \ {0}
  /\ \A s \in Scripts : s \in Seq(Range(s)) /\ \A i \in 1..Len(s) : s[i].t \in Int

VARIABLES
  script,         \* the form lines
  fpc,            \* where the run is
  ev,             \* the event it is at
  part,           \* the command of that event
  seqNo,          \* _seq
  marker,         \* pm_marker
  want,           \* which expected frame it waits for
  plog,           \* the [PairMatch] lines
  run,            \* the number of the run
  directive,      \* .handoff_directive: the run that wrote it, or NoRun
  sentinel,       \* .replayer_done: likewise
  handed,         \* the sentinel and the directive the pair matcher last took
  \* Kept for the properties only:
  hurried,        \* whether the library was at work when a wait or a run ended
  issued,         \* the lines written by all runs, each with its event
  fired           \* the length of plog when the marker was taken

formVars == <<script, fpc, ev, part, seqNo, marker, want, plog, run, directive,
              sentinel, handed, hurried, issued, fired>>
eventVars == <<ev, part, seqNo, marker, want>>
fileVars  == <<directive, sentinel, handed>>

-----------------------------------------------------------------------------
(* _scan_net_queue_by_port: the client's frames, but for plain keep-alives. *)
NetQueue ==
  {i \in 1..Len(NetLines) : /\ NetLines[i].dir = "C2S"
                            /\ ~(NetLines[i].cipher = "none" /\ NetLines[i].op = 5)}

(* A frame is looked for by its port and opcode, as in the matcher's log.  *)
Needle(x) == <<x.port, x.op>>
Reachable  == {Needle(NetLines[i]) : i \in NetQueue}

(* _validate_expected_net *)
Feasible(e) == \A k \in 1..Len(e.expect) : e.expect[k] \in Reachable

(* The places of the form lines; form_appear is not replayed. *)
FormEvents(s) == {i \in 1..Len(s) : s[i].kind = "form"}

(* The offset of the slot pick comes before that of a form's being closed. *)
Priority(e) == CASE e.off = "0x7d" -> 0 [] e.off = "0x18" -> 1 [] OTHER -> 2

(* Mutant: events of one poll stay as the recorder wrote them. *)
SoonerByTime(s, i, j) == s[i].t < s[j].t \/ (s[i].t = s[j].t /\ i < j)

(* The order of form_events.sort, which is stable. *)
Sooner(s, i, j) ==
  \/ s[i].t < s[j].t
  \/ s[i].t = s[j].t /\ Priority(s[i]) < Priority(s[j])
  \/ s[i].t = s[j].t /\ Priority(s[i]) = Priority(s[j]) /\ i < j

(* The k-th event is the one with k - 1 before it. *)
Rank(s, i) == Cardinality({j \in FormEvents(s) : Sooner(s, j, i)})
Sorted(s) ==
  [k \in 1..Cardinality(FormEvents(s)) |->
     s[CHOOSE i \in FormEvents(s) : Rank(s, i) = k - 1]]

Known == {"skip", "pick_slot", "open_modal", "invoke"}

(* Mutant: an event without an entry counts as skipped. *)
DryRunLenient(s) ==
  \A i \in FormEvents(s) : s[i].action = "invoke" => Feasible(s[i])

(* dry_run: every event has an entry, and the frames an invocation is to   *)
(* lead to are somewhere in the queue.                                     *)
DryRun(s) ==
  \A i \in FormEvents(s) :
    s[i].action \in Known /\ (s[i].action = "invoke" => Feasible(s[i]))

(* The commands of an event; only an invocation is numbered. *)
Command(op, e, salt) == [op |-> op, at |-> e.arg, salt |-> salt]
Commands(e, number) ==
  CASE e.action = "pick_slot"  -> <<Command("pick_slot", e, 0)>>
    [] e.action = "open_modal" -> <<Command("set_byte", e, 0), Command("call_vmt", e, 0)>>
    [] e.action = "invoke"     -> <<Command("invoke", e, number + 1)>>
    [] OTHER -> <<>>

(* The lines docker logs --tail gives, of which the first marker are old.  *)
Visible == SubSeq(plog, Max({1, Len(plog) - LogTail + 1}), Len(plog))

(* Mutant: lines from before the invocation count. *)
SeenEver(needle) == \E i \in 1..Len(Visible) : Visible[i] = needle

Seen(needle) == \E i \in (marker + 1)..Len(Visible) : Visible[i] = needle

-----------------------------------------------------------------------------
NoRun == 0

FormInit ==
  /\ script \in Scripts
  /\ fpc = "begin" /\ ev = 1 /\ part = 1 /\ seqNo = 0 /\ marker = 0 /\ want = 1
  /\ plog = <<>> /\ run = 1 /\ directive = NoRun /\ sentinel = NoRun /\ handed = <<NoRun, NoRun>>
  /\ hurried = FALSE /\ issued = <<>> /\ fired = 0

Events == Sorted(script)
Now    == Events[ev]

Stay == UNCHANGED <<script, plog, run, issued, fired>>

Fails == fpc' = "failed" /\ UNCHANGED <<mailVars, eventVars, fileVars, hurried>> /\ Stay

(* The emulator is not running or has no pair matcher. *)
PreflightFails == fpc = "begin" /\ Fails

(* The game does not run, or cannot be injected. *)
AttachFails == fpc = "attach" /\ Fails

(* Mutant: the command of an earlier run is left in the file. *)
ClearNothing ==
  /\ fpc = "begin"
  /\ fpc' = "unlink_sentinel"
  /\ UNCHANGED <<mailVars, eventVars, fileVars, hurried>> /\ Stay

(* A file that cannot be removed only leads to a warning: that case, here  *)
(* and in the next two steps, is left out.                                 *)
ClearCommand ==
  /\ fpc = "begin"
  /\ file' = None
  /\ fpc' = "unlink_sentinel"
  /\ UNCHANGED <<writing, lastSeen, dll, canvas, dlog, done, attaches>>
  /\ UNCHANGED <<eventVars, fileVars, hurried>> /\ Stay

UnlinkSentinel ==
  /\ fpc = "unlink_sentinel"
  /\ sentinel' = NoRun
  /\ fpc' = "unlink_directive"
  /\ UNCHANGED <<mailVars, eventVars, directive, handed, hurried>> /\ Stay

(* Mutant: an old directive stays. *)
UnlinkOnlySentinel ==
  /\ fpc = "unlink_directive"
  /\ fpc' = "attach"
  /\ UNCHANGED <<mailVars, eventVars, fileVars, hurried>> /\ Stay

UnlinkDirective ==
  /\ fpc = "unlink_directive"
  /\ directive' = NoRun
  /\ fpc' = "attach"
  /\ UNCHANGED <<mailVars, eventVars, sentinel, handed, hurried>> /\ Stay

Attached ==
  /\ fpc = "attach" /\ dll # "off"
  /\ fpc' = "event"
  /\ UNCHANGED <<mailVars, eventVars, fileVars, hurried>> /\ Stay

NextEvent == ev' = ev + 1 /\ part' = 1 /\ want' = 1

SkipEvent ==
  /\ fpc = "event" /\ ev <= Len(Events) /\ Now.action = "skip"
  /\ NextEvent
  /\ UNCHANGED <<mailVars, fpc, seqNo, marker, fileVars, hurried>> /\ Stay

(* No entry or an unknown action. *)
Unmapped ==
  /\ fpc = "event" /\ ev <= Len(Events) /\ Now.action \notin Known
  /\ fpc' = "unmapped"
  /\ UNCHANGED <<mailVars, eventVars, fileVars, hurried>> /\ Stay

(* An address on the game's heap cannot be found: that of an invocation's  *)
(* handle, or that of the modal, which serves both of its commands.        *)
UnresolvedHandle == fpc = "event" /\ ev <= Len(Events) /\ Now.action = "invoke" /\ Fails

UnresolvedPath ==
  fpc = "event" /\ ev <= Len(Events) /\ Now.action = "open_modal" /\ part = 1 /\ Fails

(* CMD_FILE.write_text, after the marker is taken for an invocation. *)
Issue ==
  /\ fpc = "event" /\ ev <= Len(Events) /\ Now.action \in Known \ {"skip"}
  /\ OpenFile(Commands(Now, seqNo)[part])
  /\ seqNo' = IF Now.action = "pick_slot" THEN seqNo ELSE seqNo + 1
  /\ IF Now.action = "invoke" THEN marker' = Len(Visible) /\ fired' = Len(plog)
                               ELSE UNCHANGED <<marker, fired>>
  /\ fpc' = "close"
  /\ UNCHANGED <<script, ev, part, want, plog, run, fileVars, hurried, issued>>

Written ==
  /\ fpc = "close"
  /\ CloseFile
  /\ issued' = Append(issued, [line |-> writing, event |-> Now, run |-> run])
  /\ fpc' = IF Now.action = "invoke" THEN "await" ELSE "pause"
  /\ UNCHANGED <<script, eventVars, plog, run, fileVars, hurried, fired>>

(* Mutant: there is no pause. *)
PauseNone ==
  /\ fpc = "pause"
  /\ fpc' = "event"
  /\ IF part < Len(Commands(Now, seqNo)) THEN part' = part + 1 /\ UNCHANGED <<ev, want>>
                                         ELSE NextEvent
  /\ UNCHANGED <<mailVars, seqNo, marker, fileVars, hurried>> /\ Stay

(* The pause is longer than a turn of the library's loop, which need not   *)
(* have kept up.                                                           *)
Pause ==
  /\ fpc = "pause"
  /\ hurried' = (hurried \/ ~Quiet)
  /\ fpc' = "event"
  /\ IF part < Len(Commands(Now, seqNo)) THEN part' = part + 1 /\ UNCHANGED <<ev, want>>
                                         ELSE NextEvent
  /\ UNCHANGED <<mailVars, seqNo, marker, fileVars>> /\ Stay

Expected == Now.expect[want]

PairMatched ==
  /\ fpc = "await" /\ want <= Len(Now.expect) /\ Seen(Expected)
  /\ want' = want + 1
  /\ UNCHANGED <<mailVars, fpc, ev, part, seqNo, marker, fileVars, hurried>> /\ Stay

PairMissing ==
  /\ fpc = "await" /\ want <= Len(Now.expect) /\ ~Seen(Expected)
  /\ fpc' = "failed"
  /\ hurried' = (hurried \/ ~Quiet)
  /\ UNCHANGED <<mailVars, eventVars, fileVars>> /\ Stay

(* Without a frame to wait for the next event follows at once. The frames  *)
(* waited for may be those of an earlier run's invocation.                 *)
InvokeDone ==
  /\ fpc = "await" /\ want > Len(Now.expect)
  /\ fpc' = "event" /\ NextEvent
  /\ hurried' = (hurried \/ (Now.expect # <<>> /\ ~Quiet))
  /\ UNCHANGED <<mailVars, seqNo, marker, fileVars>> /\ Stay

WriteDirective ==
  /\ fpc = "event" /\ ev > Len(Events)
  /\ directive' = run
  /\ fpc' = "sentinel"
  /\ UNCHANGED <<mailVars, eventVars, sentinel, handed, hurried>> /\ Stay

(* The recording does not parse: the directive is removed, or stays with a *)
(* warning.                                                                *)
NotParsed ==
  /\ fpc = "event" /\ ev > Len(Events)
  /\ directive' \in {NoRun, directive}
  /\ fpc' = "sentinel"
  /\ UNCHANGED <<mailVars, eventVars, sentinel, handed, hurried>> /\ Stay

(* The directive cannot be written, which only leads to a warning. *)
DirectiveFails ==
  /\ fpc = "event" /\ ev > Len(Events)
  /\ fpc' = "sentinel"
  /\ UNCHANGED <<mailVars, eventVars, fileVars, hurried>> /\ Stay

WriteSentinel ==
  /\ fpc = "sentinel"
  /\ sentinel' \in {run, sentinel}
  /\ fpc' = "done"
  /\ UNCHANGED <<mailVars, eventVars, directive, handed, hurried>> /\ Stay

(* The replayer is killed, or has ended, and is started again. *)
Again ==
  /\ fpc # "begin" /\ run < MaxRuns
  /\ run' = run + 1
  /\ fpc' = "begin" /\ ev' = 1 /\ part' = 1 /\ seqNo' = 0 /\ marker' = 0 /\ want' = 1
  /\ writing' = None
  /\ hurried' = (hurried \/ ~Quiet)
  /\ UNCHANGED <<script, plog, fileVars, issued, fired, file, lastSeen, dll, canvas,
                 dlog, done, attaches>>

-----------------------------------------------------------------------------
(* The pair matcher logs a match, and takes over on the sentinel. *)

(* An invocation carried out leads to the frames expected of it. *)
Times(needle, seq) == Cardinality({k \in 1..Len(seq) : seq[k] = needle})
Invoked(line) ==
  {i \in 1..Len(script) :
     line.op = "invoke" /\ script[i].action = "invoke" /\ line.at = script[i].arg}
Caused(needle) ==
  Cardinality({c \in (1..Len(done)) \X (1..Len(script)) :
                 c[2] \in Invoked(done[c[1]]) /\ Times(needle, script[c[2]].expect) > 0})

Matches ==
  /\ Len(plog) < MaxMatches
  /\ \E needle \in Reachable :
       /\ Times(needle, plog) < Caused(needle)
       /\ plog' = Append(plog, needle)
  /\ UNCHANGED <<mailVars, script, fpc, eventVars, run, fileVars, hurried, issued, fired>>

Handoff ==
  /\ sentinel # NoRun
  /\ handed' = <<sentinel, directive>>
  /\ UNCHANGED <<mailVars, fpc, eventVars, directive, sentinel, hurried>> /\ Stay

FormNext ==
  \/ Library /\ UNCHANGED formVars
  \/ PreflightFails \/ AttachFails \/ ClearCommand \/ UnlinkSentinel \/ UnlinkDirective
  \/ Attached \/ SkipEvent \/ Unmapped \/ UnresolvedHandle \/ UnresolvedPath \/ Issue \/ Written \/ Pause
  \/ PairMatched \/ PairMissing \/ InvokeDone
  \/ WriteDirective \/ NotParsed \/ DirectiveFails \/ WriteSentinel \/ Again
  \/ Matches \/ Handoff
=============================================================================
