------------------------------ MODULE InputReplay ------------------------------
(***************************************************************************)
(* Input, and a run done again (src/doom_system.cpp: service_input and     *)
(* what it calls, -record, -replay; src/savestate.cpp).                    *)
(*                                                                         *)
(* The guest is deterministic, so a run is what the host gives it and      *)
(* when.  Host threads only ask: what they ask for reaches a device on the *)
(* CPU thread, at the end of the round that passes a multiple of Period,   *)
(* and is logged with the step count.  A replay is a new process that      *)
(* starts the machine again, or restores a snapshot, and takes its input   *)
(* from the log.  It should go through the same machines.                  *)
(*                                                                         *)
(* A live run is made, deed by deed; `trail` keeps what the guest did in   *)
(* each round and where the process was before it.  Processes that replay  *)
(* it follow, each killed at any point and followed by another.  While the *)
(* machine is the one the live run had, the guest does what it did then.   *)
(*                                                                         *)
(* Data: the k-th thing the host hands over is k, whatever it is, so       *)
(* nothing is mistaken for anything else.  Keys and serial bytes wait in   *)
(* one list and are logged in another, but never meet in a device: they    *)
(* are kept apart here.  Scripts and pastes commit as window input does.   *)
(* Recorded sound, like played sound, is a period that finishes; its       *)
(* samples are left out.                                                   *)
(***************************************************************************)
EXTENDS Integers, SequencesExt

CONSTANTS
  Period,         \* INPUT_PERIOD
  Strides,        \* the steps a round may take: harts not waiting
  Rounds,         \* rounds of the live run
  SnapshotAt,     \* -snapshot-at, 0 for none
  RingRoom,       \* RX_RING_SIZE - 1
  FrameRoom,      \* RX_LIMIT
  IncomingLimit,  \* 1 << 20, of submit_input
  AlivePeriod,    \* ALIVE_PERIOD
  HostInputs,     \* how much the host gives the live run,
  ReplayInputs,   \* and a process that replays it
  Deeds           \* what the guest does: subsets of AllDeeds, Deeds[TRUE] on a
                  \* machine with a 3D GPU and Deeds[FALSE] on one without

AllDeeds == {"compute", "prompt", "read", "frame", "post", "release",
             "command", "open", "close", "venus", "write"}
Streams == {"key", "uart", "net", "snd"}   \* what an input point commits
Logs == Streams \cup {"gpu", "sync"}

ASSUME RunAssumption ==
  /\ {Period, AlivePeriod, Rounds} \subseteq Nat \ {0} /\ {SnapshotAt, HostInputs, ReplayInputs} \subseteq Nat
  /\ {RingRoom, FrameRoom, IncomingLimit} \subseteq Nat \ {0}
  /\ Strides \subseteq 1..Period /\ Deeds \in [BOOLEAN -> SUBSET AllDeeds]

VARIABLES
  mode,      \* "live" or "replay"
  virgl,     \* the machine has a 3D GPU
  at,        \* what the CPU thread does next: "round", "serve" or "save"
  run,       \* where the process is, see StartRun
  passed,    \* the step count before the round
  round,     \* the number of the round to take
  trail,     \* the live run: [begun, deed, stride] of each round
  log,       \* the log: of each kind, a sequence of [at, kind, what]
  incoming,  \* input_incoming
  backlog,   \* uart_backlog
  asked,     \* expect_hit
  handed,    \* what the host has handed over so far
  typed,     \* the serial bytes taken into incoming
  saved,     \* the snapshot, or NoSnapshot
  from       \* where this process started: "start" or "snapshot"

host == <<incoming, backlog, asked, handed, typed>>
vars == <<mode, virgl, at, run, passed, round, trail, log, host, saved, from>>

NoSnapshot == [none |-> TRUE]
NoBlob == -1
QueueSize == 2   \* of the sound card, as its driver sets it

-------------------------------------------------------------------------------
(* What a snapshot saves of the machine, and the guest sees.               *)
FreshMachine == [ring |-> <<>>, read |-> <<>>, keys |-> <<>>, frames |-> <<>>,
                 posted |-> 0, answer |-> 0, blob |-> NoBlob]

(* A process: its step count, the machine, how far it is in each log (a    *)
(* live run is at the end), venus_dirty and next_alive.                    *)
StartRun == [count |-> 0, m |-> FreshMachine, pos |-> [k \in Logs |-> 0],
             dirty |-> FALSE, nextAlive |-> 0]

Nothing == [key |-> <<>>, uart |-> <<>>]

Init ==
  /\ mode = "live" /\ virgl \in BOOLEAN /\ at = "round"
  /\ run = StartRun /\ passed = 0 /\ round = 1 /\ trail = <<>>
  /\ log = [k \in Logs |-> <<>>]
  /\ incoming = Nothing /\ backlog = <<>> /\ asked \in BOOLEAN
  /\ handed = 0 /\ typed = <<>>
  /\ saved = NoSnapshot /\ from = "start"

(* What is logged of one kind, here and now.                               *)
Entries(kind, whats) == [i \in 1..Len(whats) |-> [at |-> run.count, kind |-> kind, what |-> whats[i]]]
Ends(l) == [k \in Logs |-> Len(l[k])]

-------------------------------------------------------------------------------
(* The host's threads: a key, or a byte for the console.  What comes when  *)
(* the list is full is dropped (submit_input).  They may at any time, but  *)
(* a round does not look at the list: what comes during one might as well  *)
(* have come before.                                                       *)
Submit ==
  /\ at = "round" /\ handed < IF mode = "live" THEN HostInputs ELSE ReplayInputs
  /\ handed' = handed + 1
  /\ \E kind \in {"uart", "key"} :
       LET room == Len(incoming.key) + Len(incoming.uart) < IncomingLimit
       IN  /\ incoming' = IF room THEN [incoming EXCEPT ![kind] = Append(@, handed')] ELSE incoming
           /\ typed' = IF room /\ kind = "uart" /\ mode = "live" THEN Append(typed, handed') ELSE typed
  /\ UNCHANGED <<mode, virgl, at, run, passed, round, trail, log, backlog, asked, saved, from>>

-------------------------------------------------------------------------------
Commands == {"command", "open", "close", "venus"}
Syncs == {"open", "close", "venus"}   \* syncs_after: they run Venus

(* What a round of the guest's does to the machine m, given the GPU's      *)
(* answer and the shared memory as the host leaves it                      *)
(* (VirtioGpu::control).                                                   *)
Does(m, deed, answer, blob) ==
  CASE deed = "read"    -> IF m.ring = <<>> THEN m
                           ELSE [m EXCEPT !.ring = Tail(@), !.read = Append(@, Head(m.ring))]
    [] deed = "frame"   -> IF m.frames = <<>> THEN m ELSE [m EXCEPT !.frames = Tail(@)]
    [] deed = "post"    -> [m EXCEPT !.posted = @ + 1]
    [] deed = "release" -> [m EXCEPT !.posted = 0]
    [] deed = "command" -> [m EXCEPT !.answer = answer]
    [] deed \in Syncs   -> [m EXCEPT !.answer = answer, !.blob = IF deed = "close" THEN NoBlob ELSE blob]
    [] OTHER            -> m

May(m, deed) ==
  /\ deed \in Commands \cup {"write"} => virgl
  /\ deed = "post" => m.posted < QueueSize
  /\ deed = "open" => m.blob = NoBlob
  /\ deed \in {"close", "venus", "write"} => m.blob # NoBlob

(* The shared memory before the host has written to it.                    *)
BlobFor(m, deed) == IF deed = "open" THEN 0 ELSE m.blob

(* The process r after a round.                                            *)
Worked(r, deed, stride, answer, blob, pos) ==
  [count |-> r.count + stride, m |-> Does(r.m, deed, answer, blob), pos |-> pos,
   dirty |-> (r.dirty \/ deed = "write") /\ deed \notin Syncs, nextAlive |-> r.nextAlive]

(* A round of a live run.  A command's answer is logged where the guest    *)
(* asked for it, whatever it is; what the host wrote to shared memory, if  *)
(* it wrote anything (wire_gpu_log, VirtioGpu::sync).                      *)
LiveRound ==
  /\ mode = "live" /\ at = "round" /\ round <= Rounds
  /\ \E deed \in Deeds[virgl], s \in Strides, wrote \in BOOLEAN :
       LET answer == Len(log["gpu"]) + 1
           blob == IF wrote THEN Len(log["sync"]) + 1 ELSE BlobFor(run.m, deed)
       IN  /\ May(run.m, deed) /\ (wrote => deed \in Syncs \ {"close"})
           /\ log' = [log EXCEPT
                !["gpu"] = @ \o Entries("command", IF deed \in Commands THEN <<answer>> ELSE <<>>),
                !["sync"] = @ \o Entries("command", IF wrote THEN <<blob>> ELSE <<>>)]
           /\ run' = Worked(run, deed, s, answer, blob, Ends(log'))
           /\ trail' = Append(trail, [begun |-> run, deed |-> deed, stride |-> s])
           /\ asked' = (asked \/ deed = "prompt")
  /\ passed' = run.count /\ round' = round + 1 /\ at' = "serve"
  /\ UNCHANGED <<mode, virgl, incoming, backlog, handed, typed, saved, from>>

(* The next GPU answer of the log l, whichever it is (replay_result).      *)
NextAnswer(l, r) == IF r.pos["gpu"] < Len(l["gpu"]) THEN l["gpu"][r.pos["gpu"] + 1].what ELSE 0

(* The next entry of the log, if it was taken down here (replay_sync).     *)
SyncIsNext(l, r, kind) ==
  /\ r.pos["sync"] < Len(l["sync"])
  /\ l["sync"][r.pos["sync"] + 1].at = r.count
  /\ l["sync"][r.pos["sync"] + 1].kind = kind
SyncedBlob(l, r, kind, blob) == IF SyncIsNext(l, r, kind) THEN l["sync"][r.pos["sync"] + 1].what ELSE blob
PosAfterSync(l, r, kind) == r.pos["sync"] + IF SyncIsNext(l, r, kind) THEN 1 ELSE 0

(* The process r after a round on a replay: what the log answers, and is   *)
(* read to.                                                                *)
ReplayWorked(l, r, deed, stride) ==
  Worked(r, deed, stride, NextAnswer(l, r), SyncedBlob(l, r, "command", BlobFor(r.m, deed)),
    [r.pos EXCEPT
       !["gpu"] = @ + IF deed \in Commands /\ @ < Len(l["gpu"]) THEN 1 ELSE 0,
       !["sync"] = IF deed \in Syncs THEN PosAfterSync(l, r, "command") ELSE @])

ReplayRound ==
  /\ mode = "replay" /\ at = "round" /\ round <= Rounds
  /\ run' = ReplayWorked(log, run, trail[round].deed, trail[round].stride)
  /\ asked' = (asked \/ trail[round].deed = "prompt")
  /\ passed' = run.count /\ round' = round + 1 /\ at' = "serve"
  /\ UNCHANGED <<mode, virgl, trail, log, incoming, backlog, handed, typed, saved, from>>

-------------------------------------------------------------------------------
(* service_input, and what it calls.                                       *)
Crosses(before, now, n) == before < n /\ n <= now
InputDue(before, now) == \E k \in 1..now : Crosses(before, now, k * Period)

Lower(a, b) == IF a < b THEN a ELSE b

(* Uart::push_rx: what finds the ring full is dropped.                     *)
Pushed(ring, bytes) == ring \o SubSeq(bytes, 1, Lower(RingRoom - Len(ring), Len(bytes)))

(* A mutant of Received: the queue has no limit.                           *)
ReceivedUnlimited(frames, new) == frames \o new

(* VirtioNet::receive: the oldest frame is given up for the newest.        *)
Received(frames, new) ==
  LET all == frames \o new
  IN  SubSeq(all, Len(all) - Lower(FrameRoom, Len(all)) + 1, Len(all))

(* VirtioGpu::tick, if there is one.                                       *)
TickDue(gpu, r) == gpu /\ (r.dirty \/ r.count >= r.nextAlive)

(* The process r after an input point that committed these.                *)
Served(gpu, r, keys, bytes, frames, periods, blob, pos) ==
  [count |-> r.count,
   m |-> [r.m EXCEPT !.keys = @ \o keys, !.ring = Pushed(@, bytes), !.frames = Received(@, frames),
                     !.posted = @ - Lower(periods, @), !.blob = blob],
   pos |-> pos, dirty |-> r.dirty /\ ~TickDue(gpu, r),
   nextAlive |-> IF TickDue(gpu, r) THEN r.count + AlivePeriod ELSE r.nextAlive]

(* A mutant of Entering: push_rx for try_push_rx.                          *)
EnteringAll(waiting) == Len(waiting)

(* How many of the bytes that wait have room, none before the prompt.      *)
Entering(waiting) == IF asked THEN Lower(RingRoom - Len(run.m.ring), Len(waiting)) ELSE 0

LiveServe ==
  /\ mode = "live" /\ at = "serve" /\ InputDue(passed, run.count)
  /\ \E finished \in 0..run.m.posted, frames \in {<<>>, <<handed + 1>>}, wrote \in BOOLEAN :
       LET waiting == backlog \o incoming.uart
           bytes == SubSeq(waiting, 1, Entering(waiting))
           blob == IF wrote THEN Len(log["sync"]) + 1 ELSE run.m.blob
       IN  /\ handed + Len(frames) <= HostInputs
           /\ wrote => TickDue(virgl, run) /\ run.m.blob # NoBlob
           /\ log' = [log EXCEPT
                !["key"] = @ \o Entries("key", incoming.key), !["uart"] = @ \o Entries("uart", bytes),
                !["net"] = @ \o Entries("net", frames),
                !["snd"] = @ \o Entries("snd", [i \in 1..finished |-> 0]),
                !["sync"] = @ \o Entries("tick", IF wrote THEN <<blob>> ELSE <<>>)]
           /\ run' = Served(virgl, run, incoming.key, bytes, frames, finished, blob, Ends(log'))
           /\ backlog' = SubSeq(waiting, Entering(waiting) + 1, Len(waiting))
           /\ handed' = handed + Len(frames)
  /\ incoming' = Nothing /\ at' = "save"
  /\ UNCHANGED <<mode, virgl, passed, round, trail, asked, typed, saved, from>>

(* How far the replay of a log gets: past every entry up to this count.    *)
Reached(l, r, k) ==
  Max({r.pos[k]} \cup {i \in (r.pos[k] + 1)..Len(l[k]) :
                         \A j \in (r.pos[k] + 1)..i : l[k][j].at <= r.count})
Given(l, r, k) == [i \in 1..(Reached(l, r, k) - r.pos[k]) |-> l[k][r.pos[k] + i].what]

(* The process r after an input point on a replay.                         *)
ReplayServed(l, gpu, r) ==
  Served(gpu, r, Given(l, r, "key"), Given(l, r, "uart"), Given(l, r, "net"), Len(Given(l, r, "snd")),
    IF TickDue(gpu, r) THEN SyncedBlob(l, r, "tick", r.m.blob) ELSE r.m.blob,
    [k \in Logs |-> IF k \in Streams THEN Reached(l, r, k)
                    ELSE IF k = "sync" /\ TickDue(gpu, r) THEN PosAfterSync(l, r, "tick") ELSE r.pos[k]])

(* What the host asks for meanwhile is thrown away.                        *)
ReplayServe ==
  /\ mode = "replay" /\ at = "serve" /\ InputDue(passed, run.count)
  /\ run' = ReplayServed(log, virgl, run)
  /\ incoming' = Nothing /\ at' = "save"
  /\ UNCHANGED <<mode, virgl, passed, round, trail, log, backlog, asked, handed, typed, saved, from>>

NothingToServe ==
  /\ at = "serve" /\ ~InputDue(passed, run.count)
  /\ at' = "save"
  /\ UNCHANGED <<mode, virgl, run, passed, round, trail, log, host, saved, from>>

-------------------------------------------------------------------------------
(* After the input.  While a program in the guest holds state on the GPU   *)
(* no snapshot is taken (has_3d_state).                                    *)
SaveSnapshot ==
  /\ at = "save"
  /\ saved' = IF Crosses(passed, run.count, SnapshotAt) /\ run.m.blob = NoBlob
              THEN [none |-> FALSE, m |-> run.m, count |-> run.count, round |-> round, backlog |-> backlog]
              ELSE saved
  /\ at' = "round"
  /\ UNCHANGED <<mode, virgl, run, passed, round, trail, log, host, from>>

(* A mutant of PosAfter: a restored log is read from the beginning.        *)
PosAfterNothing(n) == [k \in Logs |-> 0]

(* Where a process restored at step n reads its log from: past what was    *)
(* delivered by then (SaveState::restore).                                 *)
PosAfter(n) ==
  [k \in Logs |-> IF k \in Streams THEN Cardinality({i \in 1..Len(log[k]) : log[k][i].at <= n}) ELSE 0]

(* A process that replays the live run is started, the one before it being *)
(* over or killed.                                                         *)
StartReplay ==
  /\ at = "round" /\ (mode = "live" => round = Rounds + 1)
  /\ mode' = "replay"
  /\ trail' = IF mode = "replay" THEN trail
              ELSE Append(trail, [begun |-> run, deed |-> "compute", stride |-> 1])
  /\ \/ from' = "start" /\ run' = StartRun /\ round' = 1 /\ backlog' = <<>>
     \/ /\ ~saved.none
        /\ from' = "snapshot" /\ round' = saved.round /\ backlog' = saved.backlog
        /\ run' = [StartRun EXCEPT !.count = saved.count, !.m = saved.m, !.pos = PosAfter(saved.count)]
  /\ passed' = run'.count
  /\ incoming' = Nothing /\ asked' = TRUE
  /\ handed' = 0 /\ typed' = <<>>
  /\ UNCHANGED <<virgl, at, log, saved>>

Next == \/ Submit
        \/ LiveRound \/ LiveServe
        \/ ReplayRound \/ ReplayServe
        \/ NothingToServe \/ SaveSnapshot \/ StartReplay

Spec == Init /\ [][Next]_vars

-------------------------------------------------------------------------------
Machine == [ring : Seq(Nat), read : Seq(Nat), keys : Seq(Nat), frames : Seq(Nat),
            posted : 0..QueueSize, answer : Nat, blob : Nat \cup {NoBlob}]
Run == [count : Nat, m : Machine, pos : [Logs -> Nat], dirty : BOOLEAN, nextAlive : Nat]

TypeOK ==
  /\ mode \in {"live", "replay"} /\ virgl \in BOOLEAN /\ at \in {"round", "serve", "save"}
  /\ run \in Run /\ Len(run.m.ring) <= RingRoom /\ Len(run.m.frames) <= FrameRoom
  /\ passed \in Nat /\ round \in 1..(Rounds + 1)
  /\ Len(trail) <= Rounds + 1
  /\ \A k \in Logs : run.pos[k] <= Len(log[k])
  /\ \A k \in Logs : \A i, j \in 1..Len(log[k]) : i < j => log[k][i].at <= log[k][j].at
  /\ incoming \in [key : Seq(Nat), uart : Seq(Nat)]
  /\ Len(incoming.key) + Len(incoming.uart) <= IncomingLimit
  /\ backlog \in Seq(Nat) /\ typed \in Seq(Nat) /\ asked \in BOOLEAN /\ handed \in Nat
  /\ handed <= IF mode = "live" THEN HostInputs ELSE ReplayInputs
  /\ from \in {"start", "snapshot"}

(* Every serial byte the live run took from the host is in one place, and  *)
(* they reach the guest in the order they came: a full ring holds bytes    *)
(* back, and drops none (service_input, try_push_rx).                      *)
SerialInOrder ==
  mode = "live" => run.m.read \o run.m.ring \o backlog \o incoming.uart = typed

(* What the guest sees but for the GPU.                                    *)
Sees(m) == <<m.ring, m.read, m.keys, m.frames, m.posted>>

(* A replay goes through the machines of the live run, round by round,     *)
(* wherever it starts and whatever its host asks for ("-replay commits it  *)
(* again at the same instructions, which reproduces the run",              *)
(* service_input).  Where a machine with a 3D GPU starts from the snapshot *)
(* that goes for all but the GPU: restore does not skip the results and    *)
(* syncs that were delivered by then (savestate.cpp, 780-782), and the     *)
(* commands after it get the answers of those before.                      *)
ReplayExact ==
  mode = "replay" /\ at # "serve" =>
    LET was == trail[round].begun
    IN  /\ run.count = was.count /\ Sees(run.m) = Sees(was.m)
        /\ (virgl => from = "start") => run.m = was.m
=============================================================================
