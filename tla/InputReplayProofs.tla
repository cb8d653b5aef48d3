--------------------------- MODULE InputReplayProofs ---------------------------
(***************************************************************************)
(* Proofs about InputReplay, for any period, rounds, room and software: no *)
(* serial byte is lost or overtaken, and a replay goes through the         *)
(* machines of the run it replays.                                         *)
(*                                                                         *)
(* What makes a replay exact is that the log is read as it was written:    *)
(* each round's answers and each input point's events are where the replay *)
(* stands when it gets there, and what was logged later stays behind its   *)
(* step count.                                                             *)
(***************************************************************************)
EXTENDS InputReplay, SequenceTheorems, FiniteSetTheorems, TLAPS

-------------------------------------------------------------------------------
(* The inductive invariant.                                                *)

(* The process as a round of the trail left it for the input point, and as *)
(* the input point left it for the next round, by the log l.               *)
Done(l, t) == ReplayWorked(l, t.begun, t.deed, t.stride)
After(l, gpu, t) ==
  IF InputDue(t.begun.count, Done(l, t).count) THEN ReplayServed(l, gpu, Done(l, t)) ELSE Done(l, t)

Entry == [at : Nat, kind : {"key", "uart", "net", "snd", "command", "tick"}, what : Nat]
Step == [begun : Run, deed : AllDeeds, stride : Nat \ {0}]
Snapshot == [none : {FALSE}, m : Machine, count : Nat, round : 1..(Rounds + 1), backlog : Seq(Nat)]

TypeInv ==
  /\ TypeOK
  /\ trail \in Seq(Step) /\ log \in [Logs -> Seq(Entry)]
  /\ saved \in {NoSnapshot} \cup Snapshot

(* A machine with room for no more than it holds.                          *)
Fits(m) == Len(m.ring) <= RingRoom /\ Len(m.frames) <= FrameRoom

(* A round the guest may take.                                             *)
Taken(t) == t.deed \in Deeds[virgl] /\ May(t.begun.m, t.deed)
TakenInv == \A r \in 1..Len(trail) : r <= Rounds => Taken(trail[r])

(* The trail is one run, each round as the log has it.                     *)
TrailInv ==
  /\ Len(trail) = IF mode = "live" THEN round - 1 ELSE Rounds + 1
  /\ trail # <<>> => trail[1].begun = StartRun
  /\ \A r \in 1..Len(trail) : Fits(trail[r].begun.m)
  /\ TakenInv
  /\ \A r \in 1..(Len(trail) - 1) : trail[r + 1].begun = After(log, virgl, trail[r])

(* A live run is where its last round left it, at the end of the log.      *)
LiveInv ==
  mode = "live" =>
    /\ from = "start"
    /\ trail = <<>> => run = StartRun /\ at = "round"
    /\ trail # <<>> => /\ run = IF at = "serve" THEN Done(log, trail[Len(trail)]) ELSE After(log, virgl, trail[Len(trail)])
                       /\ passed = trail[Len(trail)].begun.count
    /\ run.pos = Ends(log)
    /\ \A r \in 1..Len(trail) : trail[r].begun.count < run.count /\ Done(log, trail[r]).count <= run.count
    /\ \A k \in Logs : \A i \in 1..Len(log[k]) : log[k][i].at <= run.count
    /\ at = "serve" => \A k \in Logs : \A i \in 1..Len(log[k]) : log[k][i].at < run.count

(* What was committed by a round is what the log has up to its count.      *)
StreamsFrom(l, b) ==
  \A k \in Streams : \A i \in 1..Len(l[k]) : i <= b.pos[k] <=> l[k][i].at <= b.count

(* What the host wrote to shared memory later was written later, or, where *)
(* a round begins, by the commands of that round.                          *)
SyncsFrom(l, b) ==
  \A i \in (b.pos["sync"] + 1)..Len(l["sync"]) :
    \/ l["sync"][i].at > b.count
    \/ l["sync"][i].at = b.count /\ l["sync"][i].kind = "command"
SyncsAfter(l, d) ==
  \A i \in (d.pos["sync"] + 1)..Len(l["sync"]) : l["sync"][i].at >= d.count

(* The log as a round that begins at b has it, and as the round reads it.  *)
Log == [Logs -> Seq(Entry)]
Within(l, r) == \A k \in Logs : r.pos[k] <= Len(l[k])
Recorded(l, b) == Within(l, b) /\ StreamsFrom(l, b) /\ SyncsFrom(l, b)
Answered(l, t) ==
  /\ SyncsAfter(l, Done(l, t))
  /\ t.deed \in Commands => t.begun.pos["gpu"] < Len(l["gpu"])

LogInv ==
  \A r \in 1..Len(trail) : /\ Recorded(log, trail[r].begun)
                           /\ r <= Rounds => Answered(log, trail[r])

(* Without a 3D GPU it has nothing to say.                                 *)
Unused(r) == ~r.dirty /\ r.nextAlive = 0
GpuInv ==
  ~virgl => /\ log["gpu"] = <<>> /\ log["sync"] = <<>> /\ Unused(run)
            /\ \A r \in 1..Len(trail) : Unused(trail[r].begun)

(* A process is where another is: but for the GPU, or in every way.        *)
Alike(r, s) == r.count = s.count /\ Sees(r.m) = Sees(s.m) /\ \A k \in Streams : r.pos[k] = s.pos[k]

ReplayInv ==
  mode = "replay" =>
    LET was == IF at = "serve" THEN Done(log, trail[round - 1]) ELSE trail[round].begun
    IN  /\ at = "serve" => round > 1 /\ passed = trail[round - 1].begun.count
        /\ Alike(run, was)
        /\ (virgl => from = "start") => run = was

(* The snapshot is of the live run where the round it names begins.        *)
SavedInv ==
  ~saved.none =>
    LET was == IF saved.round <= Len(trail) THEN trail[saved.round].begun ELSE run
    IN  /\ saved.round <= Len(trail) \/ (mode = "live" /\ at = "round" /\ saved.round = round)
        /\ saved.count = was.count /\ Sees(saved.m) = Sees(was.m)
        /\ ~virgl => saved.m = was.m

IInv == TypeInv /\ TrailInv /\ LiveInv /\ LogInv /\ GpuInv /\ ReplayInv /\ SavedInv /\ SerialInOrder

-------------------------------------------------------------------------------
(* What a round and an input point do to a machine.                        *)

(* A round keeps the machine one.                                          *)
LEMMA DoesType ==
  ASSUME NEW m \in Machine, NEW deed \in AllDeeds, NEW answer \in Nat, NEW blob \in Nat \cup {NoBlob},
         Fits(m), deed = "post" => m.posted < QueueSize
  PROVE  Does(m, deed, answer, blob) \in Machine /\ Fits(Does(m, deed, answer, blob))
<1> DEFINE d == Does(m, deed, answer, blob)
<1>1. CASE deed = "read"
  <2>1. CASE m.ring = <<>>
    BY <1>1, <2>1 DEF Does, Syncs
  <2>2. CASE m.ring # <<>>
    <3>1. m.ring \in Seq(Nat) /\ m.read \in Seq(Nat)
      BY DEF Machine
    <3>2. Tail(m.ring) \in Seq(Nat) /\ Len(Tail(m.ring)) = Len(m.ring) - 1 /\ Head(m.ring) \in Nat
      BY <2>2, <3>1, HeadTailProperties
    <3>3. Append(m.read, Head(m.ring)) \in Seq(Nat)
      BY <3>1, <3>2, AppendProperties
    <3>4. d = [m EXCEPT !.ring = Tail(@), !.read = Append(@, Head(m.ring))]
      BY <1>1, <2>2 DEF Does, Syncs
    <3>5. d.ring = Tail(m.ring) /\ d.frames = m.frames
      BY <3>4 DEF Machine
    <3> HIDE DEF d
    <3>6. d \in Machine
      BY <3>2, <3>3, <3>4 DEF Machine
    <3>7. Len(m.ring) \in Nat
      BY <3>1, LenProperties
    <3>8. Fits(d)
      BY <3>2, <3>5, <3>7, RunAssumption DEF Fits
    <3> QED
      BY <3>6, <3>8 DEF d
  <2> QED
    BY <2>1, <2>2
<1>2. CASE deed = "frame"
  <2>1. CASE m.frames = <<>>
    BY <1>2, <2>1 DEF Does, Syncs
  <2>2. CASE m.frames # <<>>
    <3>1. m.frames \in Seq(Nat)
      BY DEF Machine
    <3>2. Tail(m.frames) \in Seq(Nat) /\ Len(Tail(m.frames)) = Len(m.frames) - 1
      BY <2>2, <3>1, HeadTailProperties
    <3>4. d = [m EXCEPT !.frames = Tail(@)]
      BY <1>2, <2>2 DEF Does, Syncs
    <3>5. d.frames = Tail(m.frames) /\ d.ring = m.ring
      BY <3>4 DEF Machine
    <3> HIDE DEF d
    <3>6. d \in Machine
      BY <3>2, <3>4 DEF Machine
    <3>7. Len(m.frames) \in Nat
      BY <3>1, LenProperties
    <3>8. Fits(d)
      BY <3>2, <3>5, <3>7, RunAssumption DEF Fits
    <3> QED
      BY <3>6, <3>8 DEF d
  <2> QED
    BY <2>1, <2>2
<1>3. CASE deed = "post"
  <2>1. d = [m EXCEPT !.posted = m.posted + 1]
    BY <1>3 DEF Does, Syncs
  <2>2. m.posted \in 0..QueueSize /\ QueueSize \in Nat
    BY DEF Machine, QueueSize
  <2>3. m.posted + 1 \in 0..QueueSize
    BY <1>3, <2>2
  <2> HIDE DEF d
  <2>4. d \in Machine /\ d.ring = m.ring /\ d.frames = m.frames
    BY <2>1, <2>3 DEF Machine
  <2> QED
    BY <2>4 DEF Fits, d
<1>4. CASE deed = "release"
  <2>1. d = [m EXCEPT !.posted = 0]
    BY <1>4 DEF Does, Syncs
  <2>2. m.posted \in 0..QueueSize /\ QueueSize \in Nat
    BY DEF Machine, QueueSize
  <2>3. 0 \in 0..QueueSize
    BY <1>4, <2>2
  <2> HIDE DEF d
  <2>4. d \in Machine /\ d.ring = m.ring /\ d.frames = m.frames
    BY <2>1, <2>3 DEF Machine
  <2> QED
    BY <2>4 DEF Fits, d
<1>5. CASE deed = "command"
  BY <1>5 DEF Does, Machine, Fits, Syncs
<1>6. CASE deed \in Syncs
  BY <1>6 DEF Does, Machine, Fits, Syncs
<1>7. CASE deed \notin {"read", "frame", "post", "release", "command"} \cup Syncs
  BY <1>7 DEF Does, Syncs
<1> QED
  BY <1>1, <1>2, <1>3, <1>4, <1>5, <1>6, <1>7

(* What the guest sees but for the GPU does not depend on the GPU.         *)
LEMMA DoesSees ==
  ASSUME NEW m \in Machine, NEW n \in Machine, Sees(m) = Sees(n), NEW deed \in AllDeeds,
         NEW a1, NEW b1, NEW a2, NEW b2
  PROVE  Sees(Does(m, deed, a1, b1)) = Sees(Does(n, deed, a2, b2))
<1>0. m.ring = n.ring /\ m.read = n.read /\ m.keys = n.keys /\ m.frames = n.frames /\ m.posted = n.posted
  BY DEF Sees
<1>1. CASE deed = "read"
  BY <1>0, <1>1 DEF Does, Machine, Sees, Syncs
<1>2. CASE deed = "frame"
  BY <1>0, <1>2 DEF Does, Machine, Sees, Syncs
<1>3. CASE deed = "post"
  BY <1>0, <1>3 DEF Does, Machine, Sees, Syncs
<1>4. CASE deed = "release"
  BY <1>0, <1>4 DEF Does, Machine, Sees, Syncs
<1>5. CASE deed = "command"
  BY <1>0, <1>5 DEF Does, Machine, Sees, Syncs
<1>6. CASE deed \in Syncs
  BY <1>0, <1>6 DEF Does, Machine, Sees, Syncs
<1>7. CASE deed \notin {"read", "frame", "post", "release", "command"} \cup Syncs
  BY <1>7 DEF Does, Syncs
<1> QED
  BY <1>1, <1>2, <1>3, <1>4, <1>5, <1>6, <1>7

(* What the GPU answers matters to its commands only.                      *)
LEMMA DoesWithoutGpu ==
  ASSUME NEW m, NEW deed \in AllDeeds \ Commands, NEW a1, NEW b1, NEW a2, NEW b2
  PROVE  Does(m, deed, a1, b1) = Does(m, deed, a2, b2)
BY DEF Does, Syncs, Commands

LEMMA LowerIs ==
  ASSUME NEW a \in Int, NEW b \in Int
  PROVE  /\ Lower(a, b) \in Int /\ Lower(a, b) <= a /\ Lower(a, b) <= b
         /\ a >= 0 /\ b >= 0 => Lower(a, b) >= 0
BY DEF Lower

(* The ring takes what it has room for; the net keeps the newest.          *)
LEMMA PushedType ==
  ASSUME NEW ring \in Seq(Nat), NEW bytes \in Seq(Nat), Len(ring) <= RingRoom
  PROVE  Pushed(ring, bytes) \in Seq(Nat) /\ Len(Pushed(ring, bytes)) <= RingRoom
<1> DEFINE n == Lower(RingRoom - Len(ring), Len(bytes))
           s == SubSeq(bytes, 1, n)
<1>1. Len(ring) \in Nat /\ Len(bytes) \in Nat
  BY LenProperties
<1>2. n \in 0..Len(bytes) /\ n <= RingRoom - Len(ring)
  BY <1>1, RunAssumption DEF Lower
<1>3. \A i \in 1..n : bytes[i] \in Nat
  BY <1>1, <1>2, ElementOfSeq
<1>4. s \in Seq(Nat) /\ Len(s) = n
  BY <1>2, <1>3, SubSeqProperties
<1>5. ring \o s \in Seq(Nat) /\ Len(ring \o s) = Len(ring) + n
  BY <1>4, ConcatProperties
<1>6. Pushed(ring, bytes) = ring \o s
  BY DEF Pushed
<1>7. RingRoom \in Nat
  BY RunAssumption
<1> HIDE DEF n, s
<1> QED
  BY <1>1, <1>2, <1>5, <1>6, <1>7

LEMMA ReceivedType ==
  ASSUME NEW frames \in Seq(Nat), NEW new \in Seq(Nat)
  PROVE  Received(frames, new) \in Seq(Nat) /\ Len(Received(frames, new)) <= FrameRoom
<1> DEFINE all == frames \o new
           first == Len(all) - Lower(FrameRoom, Len(all)) + 1
<1>1. all \in Seq(Nat) /\ Len(all) \in Nat
  BY ConcatProperties, LenProperties
<1>2. FrameRoom \in Nat
  BY RunAssumption
<1> HIDE DEF all
<1> DEFINE n == Lower(FrameRoom, Len(all))
<1>8. FrameRoom \in Int /\ Len(all) \in Int /\ FrameRoom >= 0 /\ Len(all) >= 0
  BY <1>1, <1>2
<1>7. n \in Int /\ n <= FrameRoom /\ n <= Len(all) /\ n >= 0
  BY <1>8, LowerIs
<1> HIDE DEF n
<1>3. first \in 1..(Len(all) + 1) /\ Len(all) - first + 1 <= FrameRoom
  BY <1>1, <1>2, <1>7 DEF n
<1>4. \A i \in first..Len(all) : all[i] \in Nat
  <2>1. \A i \in first..Len(all) : i \in 1..Len(all)
    BY <1>1, <1>3
  <2>2. \A i \in 1..Len(all) : all[i] \in Nat
    BY <1>1, ElementOfSeq
  <2> QED
    BY <2>1, <2>2
<1>5. Received(frames, new) = SubSeq(all, first, Len(all))
  BY DEF Received, all
<1>6. /\ SubSeq(all, first, Len(all)) \in Seq(Nat)
      /\ Len(SubSeq(all, first, Len(all))) = IF first <= Len(all) THEN Len(all) - first + 1 ELSE 0
  BY <1>1, <1>3, <1>4, SubSeqProperties
<1> QED
  BY <1>1, <1>2, <1>3, <1>5, <1>6

LEMMA StreamsAreLogs == Streams \subseteq Logs /\ "gpu" \in Logs \ Streams /\ "sync" \in Logs \ Streams
BY DEF Logs, Streams

LEMMA WorkedType ==
  ASSUME NEW r \in Run, Fits(r.m), NEW deed \in AllDeeds, NEW stride \in Nat,
         deed = "post" => r.m.posted < QueueSize,
         NEW answer \in Nat, NEW blob \in Nat \cup {NoBlob}, NEW pos \in [Logs -> Nat]
  PROVE  LET d == Worked(r, deed, stride, answer, blob, pos)
         IN  /\ d \in Run /\ Fits(d.m)
             /\ d.count = r.count + stride /\ d.pos = pos /\ d.nextAlive = r.nextAlive
             /\ (~r.dirty /\ deed # "write" => ~d.dirty)
             /\ d.m = Does(r.m, deed, answer, blob)
<1>1. r.m \in Machine /\ r.count \in Nat /\ r.nextAlive \in Nat
  BY DEF Run
<1>2. Does(r.m, deed, answer, blob) \in Machine /\ Fits(Does(r.m, deed, answer, blob))
  BY <1>1, DoesType
<1>3. r.count + stride \in Nat
  BY <1>1
<1>4. ((r.dirty \/ deed = "write") /\ deed \notin Syncs) \in BOOLEAN
  OBVIOUS
<1> QED
  BY <1>1, <1>2, <1>3, <1>4 DEF Worked, Run

LEMMA ServedType ==
  ASSUME NEW gpu \in BOOLEAN, NEW r \in Run, Fits(r.m), NEW keys \in Seq(Nat), NEW bytes \in Seq(Nat),
         NEW frames \in Seq(Nat), NEW periods \in Nat, NEW blob \in Nat \cup {NoBlob}, NEW pos \in [Logs -> Nat]
  PROVE  LET u == Served(gpu, r, keys, bytes, frames, periods, blob, pos)
         IN  /\ u \in Run /\ Fits(u.m)
             /\ u.count = r.count /\ u.pos = pos /\ (~r.dirty => ~u.dirty)
             /\ u.nextAlive = IF TickDue(gpu, r) THEN r.count + AlivePeriod ELSE r.nextAlive
             /\ u.m.read = r.m.read /\ u.m.ring = Pushed(r.m.ring, bytes) /\ u.m.blob = blob
<1> DEFINE n == [r.m EXCEPT !.keys = @ \o keys, !.ring = Pushed(@, bytes), !.frames = Received(@, frames),
                            !.posted = @ - Lower(periods, @), !.blob = blob]
<1>1. r.m \in Machine /\ r.count \in Nat /\ r.nextAlive \in Nat /\ r.dirty \in BOOLEAN
  BY DEF Run
<1>2. r.m.keys \in Seq(Nat) /\ r.m.ring \in Seq(Nat) /\ r.m.frames \in Seq(Nat) /\ r.m.posted \in 0..QueueSize
  BY <1>1 DEF Machine
<1>3. Pushed(r.m.ring, bytes) \in Seq(Nat) /\ Len(Pushed(r.m.ring, bytes)) <= RingRoom
  BY <1>2, PushedType DEF Fits
<1>4. Received(r.m.frames, frames) \in Seq(Nat) /\ Len(Received(r.m.frames, frames)) <= FrameRoom
  BY <1>2, ReceivedType
<1>5. r.m.keys \o keys \in Seq(Nat)
  BY <1>2, ConcatProperties
<1>6. r.m.posted - Lower(periods, r.m.posted) \in 0..QueueSize
  <2>1. r.m.posted \in Int /\ r.m.posted >= 0 /\ r.m.posted <= QueueSize /\ QueueSize \in Int
    BY <1>2 DEF QueueSize
  <2>2. periods \in Int /\ periods >= 0
    OBVIOUS
  <2>3. /\ Lower(periods, r.m.posted) \in Int /\ Lower(periods, r.m.posted) >= 0
        /\ Lower(periods, r.m.posted) <= r.m.posted
    BY <2>1, <2>2, LowerIs
  <2> QED
    BY <2>1, <2>3
<1>7. /\ n \in Machine /\ n.ring = Pushed(r.m.ring, bytes) /\ n.frames = Received(r.m.frames, frames)
      /\ n.read = r.m.read /\ n.blob = blob
  BY <1>1, <1>3, <1>4, <1>5, <1>6 DEF Machine
<1>8. AlivePeriod \in Nat
  BY RunAssumption
<1> DEFINE u == Served(gpu, r, keys, bytes, frames, periods, blob, pos)
           dirty == r.dirty /\ ~TickDue(gpu, r)
           next == IF TickDue(gpu, r) THEN r.count + AlivePeriod ELSE r.nextAlive
<1>9. dirty \in BOOLEAN /\ next \in Nat
  BY <1>1, <1>8
<1>10. u = [count |-> r.count, m |-> n, pos |-> pos, dirty |-> dirty, nextAlive |-> next]
  BY DEF Served
<1> HIDE DEF n, u, dirty, next
<1>11. u \in Run /\ u.count = r.count /\ u.m = n /\ u.pos = pos /\ u.dirty = dirty /\ u.nextAlive = next
  BY <1>1, <1>7, <1>9, <1>10 DEF Run
<1> QED
  BY <1>3, <1>4, <1>7, <1>11 DEF Fits, u, dirty, next

(* Machines alike but for the GPU stay so.                                 *)
LEMMA ServedSees ==
  ASSUME NEW gpu, NEW r \in Run, NEW s \in Run, Sees(r.m) = Sees(s.m),
         NEW keys, NEW bytes, NEW frames, NEW periods, NEW b1, NEW b2, NEW p1, NEW p2
  PROVE  Sees(Served(gpu, r, keys, bytes, frames, periods, b1, p1).m)
           = Sees(Served(gpu, s, keys, bytes, frames, periods, b2, p2).m)
<1>1. /\ r.m.ring = s.m.ring /\ r.m.read = s.m.read /\ r.m.keys = s.m.keys
      /\ r.m.frames = s.m.frames /\ r.m.posted = s.m.posted
  BY DEF Sees
<1>2. r.m \in Machine /\ s.m \in Machine
  BY DEF Run
<1> QED
  BY <1>1, <1>2 DEF Served, Sees, Machine

-------------------------------------------------------------------------------
(* Reading the log.                                                        *)
LEMMA LogTypes ==
  ASSUME NEW l \in Log, NEW k \in Logs
  PROVE  /\ l[k] \in Seq(Entry) /\ Len(l[k]) \in Nat
         /\ \A i \in 1..Len(l[k]) : l[k][i] \in Entry /\ l[k][i].at \in Nat /\ l[k][i].what \in Nat
<1>1. l[k] \in Seq(Entry)
  BY DEF Log
<1>2. Len(l[k]) \in Nat
  BY <1>1, LenProperties
<1>3. \A i \in 1..Len(l[k]) : l[k][i] \in Entry
  BY <1>1, ElementOfSeq
<1>4. \A e \in Entry : e.at \in Nat /\ e.what \in Nat
  BY DEF Entry
<1> QED
  BY <1>1, <1>2, <1>3, <1>4

LEMMA PosTypes ==
  ASSUME NEW r \in Run, NEW k \in Logs
  PROVE  r.pos[k] \in Nat /\ r.count \in Nat
BY DEF Run

(* The host's say and the place in the log after it.                       *)
LEMMA SyncTypes ==
  ASSUME NEW l \in Log, NEW r \in Run, Within(l, r), NEW kind, NEW blob \in Nat \cup {NoBlob}
  PROVE  /\ SyncedBlob(l, r, kind, blob) \in Nat \cup {NoBlob}
         /\ PosAfterSync(l, r, kind) \in r.pos["sync"]..Len(l["sync"])
<1>1. "sync" \in Logs
  BY StreamsAreLogs
<1>2. r.pos["sync"] \in Nat /\ Len(l["sync"]) \in Nat /\ r.pos["sync"] <= Len(l["sync"])
  BY <1>1, LogTypes, PosTypes DEF Within
<1>3. r.pos["sync"] < Len(l["sync"]) => l["sync"][r.pos["sync"] + 1].what \in Nat
  <2>1. r.pos["sync"] < Len(l["sync"]) => r.pos["sync"] + 1 \in 1..Len(l["sync"])
    BY <1>2
  <2> QED
    BY <2>1, <1>1, LogTypes
<1> QED
  BY <1>2, <1>3 DEF SyncedBlob, PosAfterSync, SyncIsNext

LEMMA AnswerType ==
  ASSUME NEW l \in Log, NEW r \in Run
  PROVE  NextAnswer(l, r) \in Nat
<1>1. "gpu" \in Logs
  BY StreamsAreLogs
<1>2. r.pos["gpu"] \in Nat /\ Len(l["gpu"]) \in Nat
  BY <1>1, LogTypes, PosTypes
<1>3. r.pos["gpu"] < Len(l["gpu"]) => r.pos["gpu"] + 1 \in 1..Len(l["gpu"])
  BY <1>2
<1> QED
  BY <1>1, <1>3, LogTypes DEF NextAnswer

LEMMA BlobForType ==
  ASSUME NEW m \in Machine, NEW deed
  PROVE  BlobFor(m, deed) \in Nat \cup {NoBlob}
BY DEF BlobFor, Machine

(* A round on a replay.                                                    *)
LEMMA ReplayWorkedType ==
  ASSUME NEW l \in Log, NEW r \in Run, Within(l, r), Fits(r.m), NEW deed \in AllDeeds, NEW stride \in Nat,
         deed = "post" => r.m.posted < QueueSize
  PROVE  LET d == ReplayWorked(l, r, deed, stride)
         IN  /\ d \in Run /\ Fits(d.m) /\ Within(l, d)
             /\ d.count = r.count + stride /\ d.nextAlive = r.nextAlive
             /\ (~r.dirty /\ deed # "write" => ~d.dirty)
             /\ \A k \in Streams : d.pos[k] = r.pos[k]
             /\ d.pos["gpu"] = r.pos["gpu"] + IF deed \in Commands /\ r.pos["gpu"] < Len(l["gpu"]) THEN 1 ELSE 0
             /\ d.pos["sync"] = IF deed \in Syncs THEN PosAfterSync(l, r, "command") ELSE r.pos["sync"]
             /\ d.m = Does(r.m, deed, NextAnswer(l, r), SyncedBlob(l, r, "command", BlobFor(r.m, deed)))
<1> DEFINE blob == SyncedBlob(l, r, "command", BlobFor(r.m, deed))
           gpu == r.pos["gpu"] + IF deed \in Commands /\ r.pos["gpu"] < Len(l["gpu"]) THEN 1 ELSE 0
           sync == IF deed \in Syncs THEN PosAfterSync(l, r, "command") ELSE r.pos["sync"]
           pos == [r.pos EXCEPT !["gpu"] = gpu, !["sync"] = sync]
<1>1. r.m \in Machine /\ r.pos \in [Logs -> Nat]
  BY DEF Run
<1>2. BlobFor(r.m, deed) \in Nat \cup {NoBlob} /\ NextAnswer(l, r) \in Nat
  BY <1>1, BlobForType, AnswerType
<1>3. blob \in Nat \cup {NoBlob} /\ PosAfterSync(l, r, "command") \in r.pos["sync"]..Len(l["sync"])
  BY <1>2, SyncTypes
<1>4. /\ "gpu" \in Logs /\ "sync" \in Logs /\ r.pos["gpu"] \in Nat /\ r.pos["sync"] \in Nat
      /\ Len(l["gpu"]) \in Nat /\ Len(l["sync"]) \in Nat
      /\ r.pos["gpu"] <= Len(l["gpu"]) /\ r.pos["sync"] <= Len(l["sync"])
  BY <1>1, StreamsAreLogs, LogTypes DEF Within
<1>5. gpu \in Nat /\ gpu <= Len(l["gpu"]) /\ sync \in Nat /\ sync <= Len(l["sync"])
  BY <1>3, <1>4
<1>6. ReplayWorked(l, r, deed, stride) = Worked(r, deed, stride, NextAnswer(l, r), blob, pos)
  BY DEF ReplayWorked
<1> HIDE DEF blob, gpu, sync
<1>7. pos \in [Logs -> Nat] /\ pos["gpu"] = gpu /\ pos["sync"] = sync
  BY <1>1, <1>4, <1>5
<1>8. \A k \in Streams : pos[k] = r.pos[k]
  BY <1>1 DEF Streams, Logs
<1>9. \A k \in Logs : pos[k] <= Len(l[k])
  BY <1>1, <1>5, <1>7 DEF Within
<1> DEFINE answer == NextAnswer(l, r)
<1>12. answer \in Nat /\ blob \in Nat \cup {NoBlob} /\ pos \in [Logs -> Nat]
  BY <1>2, <1>3, <1>7
<1> HIDE DEF pos, answer
<1> DEFINE d == Worked(r, deed, stride, answer, blob, pos)
<1>10. /\ d \in Run /\ Fits(d.m)
       /\ d.count = r.count + stride /\ d.pos = pos /\ d.nextAlive = r.nextAlive
       /\ (~r.dirty /\ deed # "write" => ~d.dirty)
       /\ d.m = Does(r.m, deed, answer, blob)
  <2>1. deed = "post" => r.m.posted < QueueSize
    OBVIOUS
  <2>2. Fits(r.m)
    OBVIOUS
  <2>3. d \in Run /\ Fits(d.m)
    BY <1>12, <2>1, <2>2, WorkedType
  <2>4. d.count = r.count + stride /\ d.pos = pos /\ d.nextAlive = r.nextAlive
    BY <1>12, <2>1, <2>2, WorkedType
  <2>5. (~r.dirty /\ deed # "write" => ~d.dirty)
    BY <1>12, <2>1, <2>2, WorkedType
  <2>6. d.m = Does(r.m, deed, answer, blob)
    BY <1>12, <2>1, <2>2, WorkedType
  <2> QED
    BY <2>3, <2>4, <2>5, <2>6
<1>11. Within(l, ReplayWorked(l, r, deed, stride))
  BY <1>6, <1>9, <1>10 DEF Within, answer
<1> QED
  BY <1>6, <1>7, <1>8, <1>10, <1>11 DEF blob, gpu, sync, answer

(* How far the log is read, told from outside.                             *)
LEMMA ReachedIs ==
  ASSUME NEW l \in Log, NEW r \in Run, NEW k \in Logs, NEW n \in Nat, r.pos[k] <= n, n <= Len(l[k]),
         \A i \in (r.pos[k] + 1)..n : l[k][i].at <= r.count,
         n = Len(l[k]) \/ l[k][n + 1].at > r.count
  PROVE  Reached(l, r, k) = n
<1> DEFINE p == r.pos[k]
           L == Len(l[k])
           S == {p} \cup {i \in (p + 1)..L : \A j \in (p + 1)..i : l[k][j].at <= r.count}
<1>1. p \in Nat /\ L \in Nat /\ p <= n /\ n <= L /\ r.count \in Nat
  BY PosTypes, LogTypes
<1>2. \A i \in 1..L : l[k][i].at \in Nat
  BY LogTypes
<1>3. n \in S
  BY <1>1
<1>4. ASSUME NEW y \in S PROVE n >= y /\ y \in Int
  <2>1. CASE y = p
    BY <1>1, <2>1
  <2>2. CASE y \in (p + 1)..L /\ \A j \in (p + 1)..y : l[k][j].at <= r.count
    <3>1. SUFFICES ASSUME y > n PROVE FALSE
      BY <1>1, <2>2
    <3>2. n + 1 \in (p + 1)..y /\ n + 1 \in 1..L
      BY <1>1, <2>2, <3>1
    <3>3. l[k][n + 1].at <= r.count /\ l[k][n + 1].at > r.count
      BY <1>1, <2>2, <3>1, <3>2
    <3> QED
      BY <1>1, <1>2, <3>2, <3>3
  <2> QED
    BY <2>1, <2>2
<1> HIDE DEF S
<1>5. Max(S) = n
  <2>1. \E x \in S : \A y \in S : x >= y
    BY <1>3, <1>4
  <2>2. Max(S) \in S /\ \A y \in S : Max(S) >= y
    BY <2>1 DEF Max
  <2>3. n >= Max(S) /\ Max(S) \in Int
    BY <1>4, <2>2
  <2>4. Max(S) >= n
    BY <1>3, <2>2
  <2> QED
    BY <2>3, <2>4
<1> QED
  BY <1>5 DEF S, Reached

(* Where the log says what a process u has, one before it reads as far.    *)
LEMMA ReadsUpTo ==
  ASSUME NEW l \in Log, NEW r \in Run, NEW u \in Run, NEW k \in Streams, StreamsFrom(l, u), u.count = r.count,
         r.pos[k] <= u.pos[k], u.pos[k] <= Len(l[k])
  PROVE  Reached(l, r, k) = u.pos[k]
<1>1. k \in Logs
  BY StreamsAreLogs
<1>2. r.pos[k] \in Nat /\ u.pos[k] \in Nat /\ Len(l[k]) \in Nat /\ r.count \in Nat
  BY <1>1, PosTypes, LogTypes
<1>3. \A i \in 1..Len(l[k]) : l[k][i].at \in Nat /\ (i <= u.pos[k] <=> l[k][i].at <= r.count)
  BY <1>1, LogTypes DEF StreamsFrom
<1>4. \A i \in (r.pos[k] + 1)..u.pos[k] : l[k][i].at <= r.count
  BY <1>2, <1>3
<1>5. u.pos[k] = Len(l[k]) \/ l[k][u.pos[k] + 1].at > r.count
  <2>1. SUFFICES ASSUME u.pos[k] < Len(l[k]) PROVE l[k][u.pos[k] + 1].at > r.count
    BY <1>2
  <2>2. u.pos[k] + 1 \in 1..Len(l[k]) /\ ~(u.pos[k] + 1 <= u.pos[k])
    BY <1>2, <2>1
  <2> QED
    BY <1>2, <1>3, <2>2, SMTT(20)
<1> QED
  BY <1>1, <1>2, <1>4, <1>5, ReachedIs

LEMMA GivenType ==
  ASSUME NEW l \in Log, NEW r \in Run, NEW k \in Logs, Reached(l, r, k) \in r.pos[k]..Len(l[k])
  PROVE  Given(l, r, k) \in Seq(Nat) /\ Len(Given(l, r, k)) \in Nat
<1> DEFINE n == Reached(l, r, k) - r.pos[k]
<1>1. r.pos[k] \in Nat /\ Len(l[k]) \in Nat
  BY PosTypes, LogTypes
<1>2. n \in Nat
  BY <1>1
<1>3. \A i \in 1..n : r.pos[k] + i \in 1..Len(l[k])
  BY <1>1
<1>4. \A i \in 1..n : l[k][r.pos[k] + i].what \in Nat
  BY <1>3, LogTypes
<1>5. Given(l, r, k) = [i \in 1..n |-> l[k][r.pos[k] + i].what]
  BY DEF Given
<1> HIDE DEF n
<1>6. Given(l, r, k) \in Seq(Nat)
  BY <1>2, <1>4, <1>5
<1> QED
  BY <1>6, LenProperties

(* An input point on a replay.                                             *)
LEMMA ReplayServedType ==
  ASSUME NEW l \in Log, NEW gpu \in BOOLEAN, NEW r \in Run, Within(l, r), Fits(r.m),
         \A k \in Streams : Reached(l, r, k) \in r.pos[k]..Len(l[k])
  PROVE  LET u == ReplayServed(l, gpu, r)
         IN  /\ u \in Run /\ Fits(u.m) /\ Within(l, u)
             /\ u.count = r.count /\ (~r.dirty => ~u.dirty)
             /\ (~TickDue(gpu, r) => u.nextAlive = r.nextAlive)
             /\ \A k \in Streams : u.pos[k] = Reached(l, r, k)
             /\ u.pos["gpu"] = r.pos["gpu"]
             /\ u.pos["sync"] = IF TickDue(gpu, r) THEN PosAfterSync(l, r, "tick") ELSE r.pos["sync"]
<1> DEFINE keys == Given(l, r, "key")
           bytes == Given(l, r, "uart")
           frames == Given(l, r, "net")
           periods == Len(Given(l, r, "snd"))
           blob == IF TickDue(gpu, r) THEN SyncedBlob(l, r, "tick", r.m.blob) ELSE r.m.blob
           pos == [k \in Logs |-> IF k \in Streams THEN Reached(l, r, k)
                    ELSE IF k = "sync" /\ TickDue(gpu, r) THEN PosAfterSync(l, r, "tick") ELSE r.pos[k]]
           u == Served(gpu, r, keys, bytes, frames, periods, blob, pos)
<1>1. r.m \in Machine /\ r.m.blob \in Nat \cup {NoBlob}
  BY DEF Run, Machine
<1>2. \A k \in Logs : r.pos[k] \in Nat /\ Len(l[k]) \in Nat /\ r.pos[k] <= Len(l[k])
  BY PosTypes, LogTypes DEF Within
<1>3. {"key", "uart", "net", "snd"} \subseteq Streams /\ Streams \subseteq Logs
  BY DEF Streams, Logs
<1>4. keys \in Seq(Nat) /\ bytes \in Seq(Nat) /\ frames \in Seq(Nat) /\ periods \in Nat
  BY <1>3, GivenType
<1>5. /\ SyncedBlob(l, r, "tick", r.m.blob) \in Nat \cup {NoBlob}
      /\ PosAfterSync(l, r, "tick") \in r.pos["sync"]..Len(l["sync"])
  BY <1>1, SyncTypes
<1>6. blob \in Nat \cup {NoBlob}
  BY <1>1, <1>5
<1>7. \A k \in Streams : Reached(l, r, k) \in Nat /\ Reached(l, r, k) <= Len(l[k])
  BY <1>2, <1>3
<1>8. PosAfterSync(l, r, "tick") \in Nat /\ PosAfterSync(l, r, "tick") <= Len(l["sync"])
  BY <1>2, <1>5, StreamsAreLogs
<1>9. \A k \in Logs : pos[k] \in Nat /\ pos[k] <= Len(l[k])
  BY <1>2, <1>7, <1>8
<1>10. /\ \A k \in Streams : pos[k] = Reached(l, r, k)
       /\ pos["gpu"] = r.pos["gpu"]
       /\ pos["sync"] = IF TickDue(gpu, r) THEN PosAfterSync(l, r, "tick") ELSE r.pos["sync"]
  BY StreamsAreLogs
<1>11. pos = [k \in Logs |-> pos[k]]
  OBVIOUS
<1>12. ReplayServed(l, gpu, r) = u
  BY DEF ReplayServed
<1> HIDE DEF pos, keys, bytes, frames, periods, blob
<1>13. pos \in [Logs -> Nat]
  BY <1>9, <1>11
<1>14. u \in Run /\ Fits(u.m)
  BY <1>4, <1>6, <1>13, ServedType, Zenon
<1>15. u.count = r.count /\ u.pos = pos
  BY DEF Served
<1>16. (~r.dirty => ~u.dirty)
  BY DEF Served
<1>17. u.nextAlive = IF TickDue(gpu, r) THEN r.count + AlivePeriod ELSE r.nextAlive
  BY DEF Served
<1> HIDE DEF u
<1>18. Within(l, u)
  BY <1>9, <1>15 DEF Within
<1> QED
  BY <1>10, <1>12, <1>14, <1>15, <1>16, <1>17, <1>18

-------------------------------------------------------------------------------
(* Processes that are alike stay alike.                                    *)
LEMMA WorkAlike ==
  ASSUME NEW l \in Log, NEW r \in Run, NEW s \in Run, Alike(r, s), Within(l, r), Within(l, s),
         Fits(r.m), Fits(s.m), NEW deed \in AllDeeds, NEW stride \in Nat,
         deed = "post" => s.m.posted < QueueSize
  PROVE  Alike(ReplayWorked(l, r, deed, stride), ReplayWorked(l, s, deed, stride))
<1> DEFINE d == ReplayWorked(l, r, deed, stride)
           e == ReplayWorked(l, s, deed, stride)
<1>1. r.m \in Machine /\ s.m \in Machine /\ r.m.posted = s.m.posted /\ r.count = s.count
  BY DEF Run, Alike, Sees
<1>2. /\ d.count = r.count + stride /\ \A k \in Streams : d.pos[k] = r.pos[k]
      /\ d.m = Does(r.m, deed, NextAnswer(l, r), SyncedBlob(l, r, "command", BlobFor(r.m, deed)))
  BY <1>1, ReplayWorkedType
<1>3. /\ e.count = s.count + stride /\ \A k \in Streams : e.pos[k] = s.pos[k]
      /\ e.m = Does(s.m, deed, NextAnswer(l, s), SyncedBlob(l, s, "command", BlobFor(s.m, deed)))
  BY <1>1, ReplayWorkedType
<1> HIDE DEF d, e
<1>4. Sees(r.m) = Sees(s.m)
  BY DEF Alike
<1>5. Sees(d.m) = Sees(e.m)
  BY <1>1, <1>2, <1>3, <1>4, DoesSees
<1>6. Alike(d, e)
  BY <1>1, <1>2, <1>3, <1>5 DEF Alike
<1> QED
  BY <1>6 DEF d, e

LEMMA ServeAlike ==
  ASSUME NEW l \in Log, NEW gpu \in BOOLEAN, NEW r \in Run, NEW s \in Run, Alike(r, s),
         Within(l, r), Within(l, s), Fits(r.m), Fits(s.m),
         \A k \in Streams : Reached(l, s, k) \in s.pos[k]..Len(l[k])
  PROVE  /\ \A k \in Streams : Reached(l, r, k) \in r.pos[k]..Len(l[k])
         /\ Alike(ReplayServed(l, gpu, r), ReplayServed(l, gpu, s))
<1>1. r.count = s.count /\ Sees(r.m) = Sees(s.m) /\ \A k \in Streams : r.pos[k] = s.pos[k]
  BY DEF Alike
<1>2. \A k \in Streams : Reached(l, r, k) = Reached(l, s, k)
  BY <1>1 DEF Reached
<1>3. \A k \in Streams : Given(l, r, k) = Given(l, s, k)
  BY <1>1, <1>2 DEF Given
<1>4. \A k \in Streams : Reached(l, r, k) \in r.pos[k]..Len(l[k])
  BY <1>1, <1>2
<1> DEFINE u == ReplayServed(l, gpu, r)
           v == ReplayServed(l, gpu, s)
<1>5. u.count = r.count /\ \A k \in Streams : u.pos[k] = Reached(l, r, k)
  BY <1>4, ReplayServedType
<1>6. v.count = s.count /\ \A k \in Streams : v.pos[k] = Reached(l, s, k)
  BY ReplayServedType
<1>7. Given(l, r, "key") = Given(l, s, "key") /\ Given(l, r, "uart") = Given(l, s, "uart")
      /\ Given(l, r, "net") = Given(l, s, "net") /\ Given(l, r, "snd") = Given(l, s, "snd")
  BY <1>3 DEF Streams
<1>8. Sees(u.m) = Sees(v.m)
  BY <1>1, <1>7, ServedSees DEF ReplayServed
<1> HIDE DEF u, v
<1>9. Alike(u, v)
  BY <1>1, <1>2, <1>5, <1>6, <1>8 DEF Alike
<1> QED
  BY <1>4, <1>9 DEF u, v

-------------------------------------------------------------------------------
(* What is logged later changes nothing of what was read.                  *)
Grows(l, n) ==
  \A k \in Logs : Len(l[k]) <= Len(n[k]) /\ \A i \in 1..Len(l[k]) : n[k][i] = l[k][i]

(* What the log n has beyond l is behind a process that has left d.        *)
Later(l, n, d) ==
  /\ \A k \in Streams : \A i \in (Len(l[k]) + 1)..Len(n[k]) : n[k][i].at > d.count
  /\ \A i \in (Len(l["sync"]) + 1)..Len(n["sync"]) :
       n["sync"][i].at > d.count \/ (n["sync"][i].at = d.count /\ n["sync"][i].kind = "command")
LaterSyncs(l, n, d) ==
  \A i \in (Len(l["sync"]) + 1)..Len(n["sync"]) : n["sync"][i].at > d.count

LEMMA GrowsWithin ==
  ASSUME NEW l \in Log, NEW n \in Log, Grows(l, n), NEW r \in Run, Within(l, r)
  PROVE  Within(n, r)
<1>1. \A k \in Logs : Len(l[k]) \in Nat /\ Len(n[k]) \in Nat /\ r.pos[k] \in Nat
  BY LogTypes, PosTypes
<1> QED
  BY <1>1 DEF Grows, Within

(* A sync point finds what it found, or nothing as before.                 *)
LEMMA SyncStays ==
  ASSUME NEW l \in Log, NEW n \in Log, Grows(l, n), NEW r \in Run, Within(l, r), NEW kind, NEW blob,
         \/ LaterSyncs(l, n, r)
         \/ kind = "tick" /\ Later(l, n, r)
  PROVE  /\ SyncedBlob(n, r, kind, blob) = SyncedBlob(l, r, kind, blob)
         /\ PosAfterSync(n, r, kind) = PosAfterSync(l, r, kind)
<1> DEFINE p == r.pos["sync"]
<1>1. "sync" \in Logs /\ p \in Nat /\ r.count \in Nat /\ p <= Len(l["sync"])
  BY StreamsAreLogs, PosTypes DEF Within
<1>2. Len(l["sync"]) \in Nat /\ Len(n["sync"]) \in Nat /\ Len(l["sync"]) <= Len(n["sync"])
  BY <1>1, LogTypes DEF Grows
<1>3. CASE p < Len(l["sync"])
  <2>1. p + 1 \in 1..Len(l["sync"]) /\ p < Len(n["sync"])
    BY <1>1, <1>2, <1>3
  <2>2. n["sync"][p + 1] = l["sync"][p + 1]
    BY <1>1, <2>1 DEF Grows
  <2>3. SyncIsNext(n, r, kind) <=> SyncIsNext(l, r, kind)
    BY <1>3, <2>1, <2>2 DEF SyncIsNext
  <2> QED
    BY <2>2, <2>3 DEF SyncedBlob, PosAfterSync
<1>4. CASE p = Len(l["sync"])
  <2>1. ~SyncIsNext(l, r, kind)
    BY <1>1, <1>2, <1>4 DEF SyncIsNext
  <2>2. ASSUME p < Len(n["sync"]) PROVE n["sync"][p + 1].at # r.count \/ n["sync"][p + 1].kind # kind
    <3>1. p + 1 \in (Len(l["sync"]) + 1)..Len(n["sync"]) /\ p + 1 \in 1..Len(n["sync"])
      BY <1>1, <1>2, <1>4, <2>2
    <3>2. n["sync"][p + 1].at \in Nat
      BY <1>1, <3>1, LogTypes
    <3> DEFINE e == n["sync"][p + 1]
    <3>3. LaterSyncs(l, n, r) => e.at > r.count
      BY <3>1 DEF LaterSyncs
    <3>4. Later(l, n, r) => e.at > r.count \/ (e.at = r.count /\ e.kind = "command")
      BY <3>1 DEF Later
    <3> HIDE DEF e
    <3>5. e.at > r.count \/ (kind = "tick" /\ e.kind = "command")
      BY <3>3, <3>4
    <3>6. e.at # r.count \/ e.kind # kind
      BY <1>1, <3>2, <3>5 DEF e
    <3> QED
      BY <3>6 DEF e
  <2>3. ~SyncIsNext(n, r, kind)
    BY <2>2 DEF SyncIsNext
  <2> QED
    BY <2>1, <2>3 DEF SyncedBlob, PosAfterSync
<1> QED
  BY <1>1, <1>2, <1>3, <1>4

LEMMA WorkedStays ==
  ASSUME NEW l \in Log, NEW n \in Log, Grows(l, n), NEW r \in Run, Within(l, r), LaterSyncs(l, n, r),
         NEW deed, NEW stride, deed \in Commands => r.pos["gpu"] < Len(l["gpu"])
  PROVE  ReplayWorked(n, r, deed, stride) = ReplayWorked(l, r, deed, stride)
<1>1. /\ SyncedBlob(n, r, "command", BlobFor(r.m, deed)) = SyncedBlob(l, r, "command", BlobFor(r.m, deed))
      /\ PosAfterSync(n, r, "command") = PosAfterSync(l, r, "command")
  BY SyncStays
<1>2. "gpu" \in Logs /\ r.pos["gpu"] \in Nat /\ Len(l["gpu"]) \in Nat /\ Len(n["gpu"]) \in Nat
  BY StreamsAreLogs, LogTypes, PosTypes
<1>3. CASE r.pos["gpu"] < Len(l["gpu"])
  <2>1. r.pos["gpu"] + 1 \in 1..Len(l["gpu"]) /\ r.pos["gpu"] < Len(n["gpu"])
    BY <1>2, <1>3 DEF Grows
  <2>2. NextAnswer(n, r) = NextAnswer(l, r)
    BY <1>2, <1>3, <2>1 DEF NextAnswer, Grows
  <2> QED
    BY <1>1, <1>3, <2>1, <2>2 DEF ReplayWorked
<1>4. CASE deed \notin Commands
  <2>1. deed \notin Syncs
    BY <1>4 DEF Commands, Syncs
  <2>2. \A a1, b1, a2, b2 : Does(r.m, deed, a1, b1) = Does(r.m, deed, a2, b2)
    BY <1>4 DEF Does, Syncs, Commands
  <2>3. Does(r.m, deed, NextAnswer(n, r), SyncedBlob(n, r, "command", BlobFor(r.m, deed)))
          = Does(r.m, deed, NextAnswer(l, r), SyncedBlob(l, r, "command", BlobFor(r.m, deed)))
    BY <2>2
  <2> QED
    BY <1>4, <2>1, <2>3 DEF ReplayWorked, Worked
<1> QED
  BY <1>3, <1>4

LEMMA ServedStays ==
  ASSUME NEW l \in Log, NEW n \in Log, Grows(l, n), NEW gpu, NEW r \in Run, Within(l, r), Later(l, n, r),
         \A k \in Streams : Reached(n, r, k) = Reached(l, r, k) /\ Reached(l, r, k) \in r.pos[k]..Len(l[k])
  PROVE  ReplayServed(n, gpu, r) = ReplayServed(l, gpu, r)
<1>1. /\ SyncedBlob(n, r, "tick", r.m.blob) = SyncedBlob(l, r, "tick", r.m.blob)
      /\ PosAfterSync(n, r, "tick") = PosAfterSync(l, r, "tick")
  BY SyncStays
<1>2. ASSUME NEW k \in Streams PROVE Given(n, r, k) = Given(l, r, k)
  <2>1. k \in Logs
    BY StreamsAreLogs
  <2>2. r.pos[k] \in Nat /\ Len(l[k]) \in Nat
    BY <2>1, LogTypes, PosTypes
  <2>3. \A i \in 1..(Reached(l, r, k) - r.pos[k]) : r.pos[k] + i \in 1..Len(l[k])
    BY <2>2
  <2>4. \A i \in 1..(Reached(l, r, k) - r.pos[k]) : n[k][r.pos[k] + i].what = l[k][r.pos[k] + i].what
    BY <2>1, <2>3 DEF Grows
  <2> QED
    BY <2>4 DEF Given
<1>3. /\ Given(n, r, "key") = Given(l, r, "key") /\ Given(n, r, "uart") = Given(l, r, "uart")
      /\ Given(n, r, "net") = Given(l, r, "net") /\ Given(n, r, "snd") = Given(l, r, "snd")
  BY <1>2 DEF Streams
<1>4. [k \in Logs |-> IF k \in Streams THEN Reached(n, r, k)
                      ELSE IF k = "sync" /\ TickDue(gpu, r) THEN PosAfterSync(n, r, "tick") ELSE r.pos[k]]
      = [k \in Logs |-> IF k \in Streams THEN Reached(l, r, k)
                      ELSE IF k = "sync" /\ TickDue(gpu, r) THEN PosAfterSync(l, r, "tick") ELSE r.pos[k]]
  BY <1>1
<1> QED
  BY <1>1, <1>3, <1>4 DEF ReplayServed

LEMMA StreamsStay ==
  ASSUME NEW l \in Log, NEW n \in Log, Grows(l, n), NEW b \in Run, Within(l, b), StreamsFrom(l, b),
         \A k \in Streams : \A i \in (Len(l[k]) + 1)..Len(n[k]) : n[k][i].at > b.count
  PROVE  StreamsFrom(n, b)
<1> SUFFICES ASSUME NEW k \in Streams, NEW i \in 1..Len(n[k])
             PROVE  i <= b.pos[k] <=> n[k][i].at <= b.count
  BY DEF StreamsFrom
<1>1. k \in Logs
  BY StreamsAreLogs
<1>2. /\ b.pos[k] \in Nat /\ b.count \in Nat /\ Len(l[k]) \in Nat /\ Len(n[k]) \in Nat
      /\ n[k][i].at \in Nat /\ b.pos[k] <= Len(l[k]) /\ Len(l[k]) <= Len(n[k])
  BY <1>1, LogTypes, PosTypes DEF Within, Grows
<1>3. CASE i <= Len(l[k])
  <2>1. i \in 1..Len(l[k])
    BY <1>2, <1>3
  <2> QED
    BY <1>1, <2>1 DEF Grows, StreamsFrom
<1>4. CASE i > Len(l[k])
  <2>1. i \in (Len(l[k]) + 1)..Len(n[k])
    BY <1>2, <1>4
  <2> QED
    BY <1>2, <1>4, <2>1
<1> QED
  BY <1>2, <1>3, <1>4

LEMMA SyncsStay ==
  ASSUME NEW l \in Log, NEW n \in Log, Grows(l, n), NEW b \in Run, Within(l, b)
  PROVE  /\ SyncsFrom(l, b) /\ Later(l, n, b) => SyncsFrom(n, b)
         /\ SyncsAfter(l, b) /\ (\A i \in (Len(l["sync"]) + 1)..Len(n["sync"]) : n["sync"][i].at >= b.count)
              => SyncsAfter(n, b)
<1>1. /\ b.pos["sync"] \in Nat /\ Len(l["sync"]) \in Nat /\ Len(n["sync"]) \in Nat
      /\ b.pos["sync"] <= Len(l["sync"]) /\ Len(l["sync"]) <= Len(n["sync"])
  BY StreamsAreLogs, LogTypes, PosTypes DEF Within, Grows
<1>2. ASSUME NEW i \in (b.pos["sync"] + 1)..Len(n["sync"])
      PROVE  \/ i \in (b.pos["sync"] + 1)..Len(l["sync"]) /\ n["sync"][i] = l["sync"][i]
             \/ i \in (Len(l["sync"]) + 1)..Len(n["sync"])
  <2>1. CASE i <= Len(l["sync"])
    <3>1. i \in 1..Len(l["sync"]) /\ i \in (b.pos["sync"] + 1)..Len(l["sync"])
      BY <1>1, <2>1
    <3> QED
      BY <3>1, StreamsAreLogs DEF Grows
  <2>2. CASE i > Len(l["sync"])
    BY <1>1, <2>2
  <2> QED
    BY <1>1, <2>1, <2>2
<1>3. ASSUME SyncsFrom(l, b), Later(l, n, b) PROVE SyncsFrom(n, b)
  <2> SUFFICES ASSUME NEW i \in (b.pos["sync"] + 1)..Len(n["sync"])
               PROVE  \/ n["sync"][i].at > b.count
                      \/ n["sync"][i].at = b.count /\ n["sync"][i].kind = "command"
    BY DEF SyncsFrom
  <2> QED
    BY <1>2, <1>3 DEF SyncsFrom, Later
<1>4. ASSUME SyncsAfter(l, b), \A i \in (Len(l["sync"]) + 1)..Len(n["sync"]) : n["sync"][i].at >= b.count
      PROVE  SyncsAfter(n, b)
  <2> SUFFICES ASSUME NEW i \in (b.pos["sync"] + 1)..Len(n["sync"]) PROVE n["sync"][i].at >= b.count
    BY DEF SyncsAfter
  <2> QED
    BY <1>2, <1>4 DEF SyncsAfter
<1> QED
  BY <1>3, <1>4

-------------------------------------------------------------------------------
(* A round of the trail, by the log.                                       *)
MayPost(t) == t.deed = "post" => t.begun.m.posted < QueueSize

LEMMA DoneFacts ==
  ASSUME NEW l \in Log, NEW t \in Step, Within(l, t.begun), Fits(t.begun.m), MayPost(t)
  PROVE  LET d == Done(l, t)
         IN  /\ d \in Run /\ Fits(d.m) /\ Within(l, d)
             /\ d.count = t.begun.count + t.stride /\ d.count > t.begun.count /\ d.count \in Nat
             /\ \A k \in Streams : d.pos[k] = t.begun.pos[k]
<1>1. t.begun \in Run /\ t.deed \in AllDeeds /\ t.stride \in Nat \ {0} /\ t.begun.count \in Nat
  BY DEF Step, Run
<1>2. t.deed = "post" => t.begun.m.posted < QueueSize
  BY DEF MayPost
<1> DEFINE d == ReplayWorked(l, t.begun, t.deed, t.stride)
<1>3. d \in Run /\ Fits(d.m) /\ Within(l, d)
  BY <1>1, <1>2, ReplayWorkedType
<1>4. d.count = t.begun.count + t.stride
  BY DEF ReplayWorked, Worked
<1>6. \A k \in Streams : d.pos[k] = t.begun.pos[k]
  <2>1. \A k \in Streams : k \in Logs /\ k # "gpu" /\ k # "sync"
    BY StreamsAreLogs
  <2>2. t.begun.pos \in [Logs -> Nat]
    BY <1>1 DEF Run
  <2> QED
    BY <2>1, <2>2 DEF ReplayWorked, Worked
<1>5. Done(l, t) = d
  BY DEF Done
<1> HIDE DEF d
<1> QED
  BY <1>1, <1>3, <1>4, <1>5, <1>6

(* What the input point after it reads of the log.                         *)
LEMMA ServeReads ==
  ASSUME NEW l \in Log, NEW t \in Step, Within(l, t.begun), Fits(t.begun.m), MayPost(t),
         NEW u \in Run, Within(l, u), StreamsFrom(l, t.begun), StreamsFrom(l, u), u.count = Done(l, t).count
  PROVE  \A k \in Streams : /\ Reached(l, Done(l, t), k) = u.pos[k]
                            /\ Reached(l, Done(l, t), k) \in Done(l, t).pos[k]..Len(l[k])
<1> DEFINE d == Done(l, t)
           b == t.begun
<1>1. /\ d \in Run /\ Within(l, d) /\ d.count > b.count /\ d.count \in Nat
      /\ \A k \in Streams : d.pos[k] = b.pos[k]
  BY DoneFacts
<1>2. b \in Run
  BY DEF Step
<1> HIDE DEF d, b
<1> SUFFICES ASSUME NEW k \in Streams
             PROVE  Reached(l, d, k) = u.pos[k] /\ Reached(l, d, k) \in d.pos[k]..Len(l[k])
  BY DEF d
<1>3. /\ k \in Logs /\ d.pos[k] \in Nat /\ u.pos[k] \in Nat /\ Len(l[k]) \in Nat /\ b.count \in Nat
      /\ d.pos[k] = b.pos[k] /\ d.pos[k] <= Len(l[k]) /\ u.pos[k] <= Len(l[k])
  BY <1>1, <1>2, StreamsAreLogs, PosTypes, LogTypes DEF Within
<1>4. d.pos[k] <= u.pos[k]
  <2>1. CASE d.pos[k] = 0
    BY <1>3, <2>1
  <2>2. CASE d.pos[k] # 0
    <3>1. d.pos[k] \in 1..Len(l[k]) /\ l[k][d.pos[k]].at \in Nat
      BY <1>3, <2>2, LogTypes
    <3>2. l[k][d.pos[k]].at <= b.count
      BY <1>3, <3>1 DEF StreamsFrom, b
    <3>3. l[k][d.pos[k]].at <= u.count
      BY <1>1, <1>3, <3>1, <3>2, SMTT(20) DEF d
    <3> QED
      BY <3>1, <3>3 DEF StreamsFrom
  <2> QED
    BY <2>1, <2>2
<1>5. Reached(l, d, k) = u.pos[k]
  BY <1>1, <1>3, <1>4, ReadsUpTo DEF d
<1> QED
  BY <1>3, <1>4, <1>5

(* A longer log says the same of a round that is over.                     *)
LEMMA DoneStays ==
  ASSUME NEW l \in Log, NEW n \in Log, Grows(l, n), NEW t \in Step, Within(l, t.begun),
         LaterSyncs(l, n, t.begun), Answered(l, t)
  PROVE  Done(n, t) = Done(l, t)
<1>1. t.begun \in Run
  BY DEF Step
<1> QED
  BY <1>1, WorkedStays DEF Done, Answered

LEMMA AfterStays ==
  ASSUME NEW l \in Log, NEW n \in Log, Grows(l, n), NEW t \in Step, Within(l, t.begun), Fits(t.begun.m), MayPost(t),
         NEW gpu \in BOOLEAN, NEW u \in Run, u = After(l, gpu, t), Within(l, u),
         StreamsFrom(l, t.begun), StreamsFrom(l, u),
         LaterSyncs(l, n, t.begun), Answered(l, t), Later(l, n, Done(l, t))
  PROVE  u.count = Done(l, t).count /\ u = After(n, gpu, t)
<1> DEFINE d == Done(l, t)
<1>1. d \in Run /\ Within(l, d)
  BY DoneFacts
<1>2. Done(n, t) = d
  BY DoneStays
<1>3. u.count = d.count
  BY DEF After, ReplayServed, Served
<1>4. \A k \in Streams : Reached(l, d, k) = u.pos[k] /\ Reached(l, d, k) \in d.pos[k]..Len(l[k])
  BY <1>3, ServeReads
<1>5. \A k \in Streams : \A i \in (Len(l[k]) + 1)..Len(n[k]) : n[k][i].at > u.count
  BY <1>3 DEF Later
<1>6. StreamsFrom(n, u)
  BY <1>5, StreamsStay
<1>7. ASSUME NEW k \in Streams PROVE Reached(n, d, k) = Reached(l, d, k)
  <2>1. /\ k \in Logs /\ d.pos[k] \in Nat /\ u.pos[k] \in Nat /\ Len(l[k]) \in Nat /\ Len(n[k]) \in Nat
        /\ Len(l[k]) <= Len(n[k])
    BY <1>1, StreamsAreLogs, PosTypes, LogTypes DEF Grows
  <2>2. d.pos[k] <= u.pos[k] /\ u.pos[k] <= Len(n[k])
    BY <1>4, <2>1
  <2>3. Reached(n, d, k) = u.pos[k]
    BY <1>1, <1>3, <1>6, <2>2, ReadsUpTo
  <2> QED
    BY <1>4, <2>3
<1>8. ReplayServed(n, gpu, d) = ReplayServed(l, gpu, d)
  BY <1>1, <1>4, <1>7, ServedStays
<1> QED
  BY <1>2, <1>3, <1>8 DEF After

(* A round that is over is as recorded, whatever is logged behind it.      *)
LEMMA RoundStays ==
  ASSUME NEW l \in Log, NEW n \in Log, Grows(l, n), NEW t \in Step, Fits(t.begun.m), MayPost(t),
         Recorded(l, t.begun), Answered(l, t),
         \A k \in Streams : \A i \in (Len(l[k]) + 1)..Len(n[k]) : n[k][i].at > t.begun.count,
         \A i \in (Len(l["sync"]) + 1)..Len(n["sync"]) : n["sync"][i].at >= Done(l, t).count
  PROVE  /\ Recorded(n, t.begun) /\ Answered(n, t)
         /\ Done(n, t) = Done(l, t) /\ LaterSyncs(l, n, t.begun)
<1> DEFINE b == t.begun
           d == Done(l, t)
<1>1. b \in Run /\ b.count \in Nat /\ Within(l, b)
  BY DEF Step, Run, Recorded
<1>2. d \in Run /\ Within(l, d) /\ d.count > b.count /\ d.count \in Nat
  BY <1>1, DoneFacts
<1>3. \A i \in (Len(l["sync"]) + 1)..Len(n["sync"]) : n["sync"][i].at > b.count
  <2> SUFFICES ASSUME NEW i \in (Len(l["sync"]) + 1)..Len(n["sync"]) PROVE n["sync"][i].at > b.count
    OBVIOUS
  <2>1. Len(l["sync"]) \in Nat /\ Len(n["sync"]) \in Nat /\ "sync" \in Logs
    BY StreamsAreLogs, LogTypes
  <2>2. i \in 1..Len(n["sync"])
    BY <2>1
  <2>3. n["sync"][i].at \in Nat
    BY <2>1, <2>2, LogTypes
  <2>4. n["sync"][i].at >= d.count
    OBVIOUS
  <2> HIDE DEF d, b
  <2> QED
    BY <1>1, <1>2, <2>3, <2>4
<1>4. LaterSyncs(l, n, b) /\ Later(l, n, b)
  BY <1>3 DEF LaterSyncs, Later
<1>5. Done(n, t) = d
  BY <1>1, <1>4, DoneStays
<1>6. Within(n, b)
  BY <1>1, GrowsWithin
<1>7. StreamsFrom(n, b)
  BY <1>1, StreamsStay DEF Recorded
<1>8. SyncsFrom(n, b)
  BY <1>1, <1>4, SyncsStay DEF Recorded
<1>9. SyncsAfter(n, d)
  BY <1>2, SyncsStay DEF Answered
<1>10. "gpu" \in Logs /\ Len(l["gpu"]) \in Nat /\ Len(n["gpu"]) \in Nat /\ b.pos["gpu"] \in Nat
  BY <1>1, StreamsAreLogs, LogTypes, PosTypes
<1>11. Len(l["gpu"]) <= Len(n["gpu"])
  BY <1>10 DEF Grows
<1>12. t.deed \in Commands => b.pos["gpu"] < Len(n["gpu"])
  BY <1>10, <1>11 DEF Answered
<1> QED
  BY <1>4, <1>5, <1>6, <1>7, <1>8, <1>9, <1>12 DEF Recorded, Answered

-------------------------------------------------------------------------------
(* The live run, and what it logs.                                         *)
Extended(s, e, c, kind, whats) ==
  /\ Len(e) = Len(s) + Len(whats)
  /\ \A i \in 1..Len(whats) : e[Len(s) + i] = [at |-> c, kind |-> kind, what |-> whats[i]]
  /\ \A i \in (Len(s) + 1)..Len(e) : e[i].kind = kind
Continues(s, e, c) ==
  /\ e \in Seq(Entry) /\ Len(s) <= Len(e)
  /\ \A i \in 1..Len(s) : e[i] = s[i]
  /\ \A i \in (Len(s) + 1)..Len(e) : e[i].at = c

LEMMA Appended ==
  ASSUME NEW s \in Seq(Entry), NEW kind \in {"key", "uart", "net", "snd", "command", "tick"},
         NEW whats \in Seq(Nat), run.count \in Nat, NEW e, e = s \o Entries(kind, whats)
  PROVE  Extended(s, e, run.count, kind, whats) /\ Continues(s, e, run.count)
<1> DEFINE new == Entries(kind, whats)
<1>1. Len(whats) \in Nat /\ Len(s) \in Nat /\ \A i \in 1..Len(whats) : whats[i] \in Nat
  BY LenProperties, ElementOfSeq
<1>2. new = [i \in 1..Len(whats) |-> [at |-> run.count, kind |-> kind, what |-> whats[i]]]
  BY DEF Entries
<1>3. \A i \in 1..Len(whats) : [at |-> run.count, kind |-> kind, what |-> whats[i]] \in Entry
  BY <1>1 DEF Entry
<1>4. new \in Seq(Entry) /\ Len(new) = Len(whats)
  BY <1>1, <1>2, <1>3
<1> HIDE DEF new
<1>5. /\ s \o new \in Seq(Entry) /\ Len(s \o new) = Len(s) + Len(new)
      /\ \A i \in 1..Len(s) + Len(new) : (s \o new)[i] = IF i <= Len(s) THEN s[i] ELSE new[i - Len(s)]
  BY <1>4, ConcatProperties
<1>6. e = s \o new
  BY DEF new
<1>7. \A i \in 1..Len(s) : e[i] = s[i]
  BY <1>1, <1>4, <1>5, <1>6
<1>8. ASSUME NEW i \in 1..Len(whats)
      PROVE  e[Len(s) + i] = [at |-> run.count, kind |-> kind, what |-> whats[i]]
  <2>1. Len(s) + i \in 1..Len(s) + Len(new) /\ ~(Len(s) + i <= Len(s)) /\ Len(s) + i - Len(s) = i
    BY <1>1, <1>4
  <2>2. e[Len(s) + i] = new[i]
    BY <1>5, <1>6, <2>1
  <2> QED
    BY <1>2, <2>2
<1>9. ASSUME NEW i \in (Len(s) + 1)..Len(e) PROVE e[i].at = run.count /\ e[i].kind = kind
  <2>1. i - Len(s) \in 1..Len(whats) /\ Len(s) + (i - Len(s)) = i
    BY <1>1, <1>4, <1>5, <1>6
  <2>2. e[i] = [at |-> run.count, kind |-> kind, what |-> whats[i - Len(s)]]
    BY <1>8, <2>1
  <2> QED
    BY <2>2
<1>10. Len(e) = Len(s) + Len(whats) /\ Len(s) <= Len(e)
  BY <1>1, <1>4, <1>5, <1>6
<1>11. e \in Seq(Entry)
  BY <1>5, <1>6
<1> QED
  BY <1>7, <1>8, <1>9, <1>10, <1>11 DEF Extended, Continues

LEMMA NotExtended == ASSUME NEW s \in Seq(Entry), NEW c PROVE Continues(s, s, c)
<1>1. Len(s) \in Nat
  BY LenProperties
<1> QED
  BY <1>1 DEF Continues

(* The log n is the log l and what is logged at the step count c.          *)
GrowsBy(l, n, c) == n = [k \in Logs |-> n[k]] /\ \A k \in Logs : Continues(l[k], n[k], c)
NewAt(l, n, c) == \A k \in Logs : \A i \in (Len(l[k]) + 1)..Len(n[k]) : n[k][i].at = c

LEMMA LogGrown ==
  ASSUME NEW n, NEW c, NEW l, GrowsBy(l, n, c), l \in Log
  PROVE  n \in Log /\ Grows(l, n) /\ NewAt(l, n, c)
<1>1. \A k \in Logs : n[k] \in Seq(Entry)
  BY DEF GrowsBy, Continues
<1>2. n \in Log
  <2>1. n = [k \in Logs |-> n[k]]
    BY DEF GrowsBy
  <2> QED
    BY <1>1, <2>1 DEF Log
<1>3. Grows(l, n)
  BY DEF GrowsBy, Grows, Continues
<1>4. NewAt(l, n, c)
  BY DEF GrowsBy, NewAt, Continues
<1> QED
  BY <1>2, <1>3, <1>4

(* A replay reads a round as the live run logged it: l is the log before   *)
(* the round, n the log after it.                                          *)
LEMMA RoundLogged ==
  ASSUME NEW l \in Log, NEW n \in Log, NEW r \in Run, r.pos = Ends(l),
         NEW deed \in AllDeeds, NEW stride, NEW answer, NEW blob, NEW wrote \in BOOLEAN,
         \A k \in Streams : Len(n[k]) = Len(l[k]),
         deed \in Commands => Len(n["gpu"]) = Len(l["gpu"]) + 1 /\ n["gpu"][Len(l["gpu"]) + 1].what = answer,
         deed \notin Commands => Len(n["gpu"]) = Len(l["gpu"]),
         wrote => /\ deed \in Syncs \ {"close"} /\ Len(n["sync"]) = Len(l["sync"]) + 1
                  /\ n["sync"][Len(l["sync"]) + 1] = [at |-> r.count, kind |-> "command", what |-> blob],
         ~wrote => Len(n["sync"]) = Len(l["sync"]) /\ blob = BlobFor(r.m, deed)
  PROVE  ReplayWorked(n, r, deed, stride) = Worked(r, deed, stride, answer, blob, Ends(n))
<1>1. \A k \in Logs : r.pos[k] = Len(l[k]) /\ Len(l[k]) \in Nat /\ Len(n[k]) \in Nat
  BY LogTypes DEF Ends
<1>2. "gpu" \in Logs /\ "sync" \in Logs /\ Syncs \subseteq Commands
  BY DEF Logs, Streams, Syncs, Commands
<1>3. deed \in Commands => NextAnswer(n, r) = answer
  BY <1>1, <1>2 DEF NextAnswer
<1>4. /\ SyncIsNext(n, r, "command") <=> wrote
      /\ wrote => n["sync"][r.pos["sync"] + 1].what = blob
  <2>1. CASE wrote
    BY <1>1, <1>2, <2>1 DEF SyncIsNext
  <2>2. CASE ~wrote
    BY <1>1, <1>2, <2>2 DEF SyncIsNext
  <2> QED
    BY <2>1, <2>2
<1>5. SyncedBlob(n, r, "command", BlobFor(r.m, deed)) = blob
  BY <1>4 DEF SyncedBlob
<1>6. PosAfterSync(n, r, "command") = Len(n["sync"])
  BY <1>1, <1>2, <1>4 DEF PosAfterSync
<1>7. Does(r.m, deed, NextAnswer(n, r), SyncedBlob(n, r, "command", BlobFor(r.m, deed))) = Does(r.m, deed, answer, blob)
  <2>1. CASE deed \in Commands
    BY <1>3, <1>5, <2>1
  <2>2. CASE deed \notin Commands
    BY <2>2, DoesWithoutGpu
  <2> QED
    BY <2>1, <2>2
<1> DEFINE pos == [r.pos EXCEPT
             !["gpu"] = @ + IF deed \in Commands /\ @ < Len(n["gpu"]) THEN 1 ELSE 0,
             !["sync"] = IF deed \in Syncs THEN PosAfterSync(n, r, "command") ELSE @]
<1>8. pos = Ends(n)
  <2>1. r.pos \in [Logs -> Nat]
    BY DEF Run
  <2>2. pos = [k \in Logs |-> pos[k]] /\ Ends(n) = [k \in Logs |-> Len(n[k])]
    BY <2>1 DEF Ends
  <2>3. pos["gpu"] = Len(n["gpu"])
    BY <1>1, <1>2, <2>1
  <2>4. pos["sync"] = Len(n["sync"])
    BY <1>1, <1>2, <1>6, <2>1
  <2>5. \A k \in Streams : pos[k] = Len(n[k])
    <3>1. \A k \in Streams : k # "gpu" /\ k # "sync" /\ k \in Logs
      BY DEF Streams, Logs
    <3> QED
      BY <1>1, <2>1, <3>1
  <2> HIDE DEF pos
  <2> QED
    BY <2>2, <2>3, <2>4, <2>5 DEF Logs
<1> HIDE DEF pos
<1> QED
  BY <1>7, <1>8 DEF ReplayWorked, Worked, pos

(* And so it reads an input point: what was committed, and what was        *)
(* written to shared memory, if anything was.                              *)
Committed(l, n, c, whats) == \A k \in Streams : Extended(l[k], n[k], c, k, whats[k])
Written(l, n, r, gpu, blob, wrote) ==
  IF wrote THEN /\ TickDue(gpu, r) /\ Len(n["sync"]) = Len(l["sync"]) + 1
                /\ n["sync"][Len(l["sync"]) + 1] = [at |-> r.count, kind |-> "tick", what |-> blob]
           ELSE Len(n["sync"]) = Len(l["sync"]) /\ blob = r.m.blob

LEMMA ServeLogged ==
  ASSUME NEW gpu, NEW blob, NEW wrote, NEW l \in Log, NEW n \in Log, NEW r \in Run, NEW whats \in [Streams -> Seq(Nat)],
         wrote \in BOOLEAN, r.pos = Ends(l), Len(n["gpu"]) = Len(l["gpu"]),
         Committed(l, n, r.count, whats), Written(l, n, r, gpu, blob, wrote)
  PROVE  ReplayServed(n, gpu, r)
           = Served(gpu, r, whats["key"], whats["uart"], whats["net"], Len(whats["snd"]), blob, Ends(n))
<1>8. ASSUME NEW k \in Streams
      PROVE  /\ Len(n[k]) = Len(l[k]) + Len(whats[k])
             /\ \A i \in 1..Len(whats[k]) : n[k][Len(l[k]) + i].at = r.count /\ n[k][Len(l[k]) + i].what = whats[k][i]
  <2>1. Extended(l[k], n[k], r.count, k, whats[k])
    BY DEF Committed
  <2>2. \A i \in 1..Len(whats[k]) : n[k][Len(l[k]) + i] = [at |-> r.count, kind |-> k, what |-> whats[k][i]]
    BY <2>1 DEF Extended
  <2>3. ASSUME NEW i \in 1..Len(whats[k])
        PROVE  n[k][Len(l[k]) + i].at = r.count /\ n[k][Len(l[k]) + i].what = whats[k][i]
    <3> DEFINE e == n[k][Len(l[k]) + i]
    <3>1. e = [at |-> r.count, kind |-> k, what |-> whats[k][i]]
      BY <2>2
    <3> HIDE DEF e
    <3>2. e.at = r.count /\ e.what = whats[k][i]
      BY <3>1
    <3> QED
      BY <3>2 DEF e
  <2>4. Len(n[k]) = Len(l[k]) + Len(whats[k])
    BY <2>1 DEF Extended
  <2> QED
    BY <2>3, <2>4
<1>9. /\ wrote => /\ TickDue(gpu, r) /\ Len(n["sync"]) = Len(l["sync"]) + 1
                  /\ n["sync"][Len(l["sync"]) + 1] = [at |-> r.count, kind |-> "tick", what |-> blob]
      /\ ~wrote => Len(n["sync"]) = Len(l["sync"]) /\ blob = r.m.blob
  BY DEF Written
<1>10. wrote \in BOOLEAN
  OBVIOUS
<1>1. \A k \in Logs : r.pos[k] = Len(l[k]) /\ Len(l[k]) \in Nat /\ Len(n[k]) \in Nat
  BY LogTypes DEF Ends
<1>2. "gpu" \in Logs /\ "sync" \in Logs /\ {"key", "uart", "net", "snd"} \subseteq Streams /\ r.count \in Nat
  BY DEF Logs, Streams, Run
<1>3. ASSUME NEW k \in Streams PROVE Reached(n, r, k) = Len(n[k]) /\ Given(n, r, k) = whats[k]
  <2>1. /\ k \in Logs /\ r.pos[k] = Len(l[k]) /\ Len(l[k]) \in Nat /\ Len(n[k]) \in Nat
        /\ whats[k] \in Seq(Nat) /\ Len(whats[k]) \in Nat /\ Len(n[k]) = Len(l[k]) + Len(whats[k])
    BY <1>1, <1>8, StreamsAreLogs, LenProperties
  <2>2. ASSUME NEW i \in (r.pos[k] + 1)..Len(n[k]) PROVE n[k][i].at <= r.count
    <3>1. i - Len(l[k]) \in 1..Len(whats[k]) /\ Len(l[k]) + (i - Len(l[k])) = i
      <4> DEFINE a == Len(l[k])
                 b == Len(whats[k])
                 c == Len(n[k])
      <4>1. a \in Nat /\ b \in Nat /\ c = a + b /\ i \in (a + 1)..c
        BY <2>1
      <4> HIDE DEF a, b, c
      <4>2. i - a \in 1..b /\ a + (i - a) = i
        BY <4>1
      <4> QED
        BY <4>2 DEF a, b
    <3>2. n[k][i].at = r.count
      <4>1. n[k][Len(l[k]) + (i - Len(l[k]))].at = r.count
        BY <1>8, <3>1
      <4> QED
        BY <3>1, <4>1
    <3> QED
      BY <1>2, <3>2
  <2>3. Reached(n, r, k) = Len(n[k])
    <3>1. r.pos[k] <= Len(n[k]) /\ Len(n[k]) <= Len(n[k])
      BY <2>1
    <3> QED
      BY <2>1, <2>2, <3>1, ReachedIs
  <2>4. Given(n, r, k) = [i \in 1..Len(whats[k]) |-> n[k][Len(l[k]) + i].what]
    <3>1. Reached(n, r, k) - r.pos[k] = Len(whats[k])
      BY <2>1, <2>3
    <3> QED
      BY <2>1, <3>1 DEF Given
  <2>5. whats[k] = [i \in 1..Len(whats[k]) |-> whats[k][i]]
    BY <2>1, LenProperties
  <2>6. \A i \in 1..Len(whats[k]) : n[k][Len(l[k]) + i].what = whats[k][i]
    BY <1>8
  <2>7. [i \in 1..Len(whats[k]) |-> n[k][Len(l[k]) + i].what] = [i \in 1..Len(whats[k]) |-> whats[k][i]]
    BY <2>6
  <2> QED
    BY <2>3, <2>4, <2>5, <2>7
<1>4. /\ SyncIsNext(n, r, "tick") <=> wrote
      /\ wrote => n["sync"][r.pos["sync"] + 1].what = blob
  <2>1. CASE wrote
    <3> DEFINE e == n["sync"][Len(l["sync"]) + 1]
    <3>1. e = [at |-> r.count, kind |-> "tick", what |-> blob]
      BY <1>9, <2>1
    <3> HIDE DEF e
    <3>2. e.at = r.count /\ e.kind = "tick" /\ e.what = blob
      BY <3>1
    <3>3. r.pos["sync"] < Len(n["sync"]) /\ r.pos["sync"] + 1 = Len(l["sync"]) + 1
      BY <1>1, <1>2, <1>9, <2>1
    <3> QED
      BY <2>1, <3>2, <3>3 DEF SyncIsNext, e
  <2>2. CASE ~wrote
    BY <1>1, <1>2, <1>9, <2>2 DEF SyncIsNext
  <2> QED
    BY <2>1, <2>2
<1>5. (IF TickDue(gpu, r) THEN SyncedBlob(n, r, "tick", r.m.blob) ELSE r.m.blob) = blob
  BY <1>4, <1>9 DEF SyncedBlob
<1> DEFINE pos == [k \in Logs |-> IF k \in Streams THEN Reached(n, r, k)
                    ELSE IF k = "sync" /\ TickDue(gpu, r) THEN PosAfterSync(n, r, "tick") ELSE r.pos[k]]
<1>6. pos = Ends(n)
  <2>1. ASSUME NEW k \in Logs PROVE pos[k] = Len(n[k])
    <3>1. CASE k \in Streams
      BY <1>3, <3>1
    <3>2. CASE k = "gpu"
      <4>1. k \notin Streams /\ k # "sync"
        BY <3>2 DEF Streams
      <4> QED
        BY <1>1, <3>2, <4>1
    <3>3. CASE k = "sync"
      <4>1. k \notin Streams
        BY <3>3 DEF Streams
      <4>2. PosAfterSync(n, r, "tick") = Len(n["sync"])
        BY <1>1, <1>2, <1>4, <1>9 DEF PosAfterSync
      <4>3. CASE TickDue(gpu, r)
        BY <3>3, <4>1, <4>2, <4>3
      <4>4. CASE ~TickDue(gpu, r)
        BY <1>1, <1>2, <1>9, <3>3, <4>1, <4>4
      <4> QED
        BY <4>3, <4>4
    <3> QED
      BY <3>1, <3>2, <3>3 DEF Logs
  <2> QED
    BY <2>1 DEF Ends
<1>7. /\ Given(n, r, "key") = whats["key"] /\ Given(n, r, "uart") = whats["uart"]
      /\ Given(n, r, "net") = whats["net"] /\ Given(n, r, "snd") = whats["snd"]
  BY <1>2, <1>3
<1> HIDE DEF pos
<1> QED
  BY <1>5, <1>6, <1>7 DEF ReplayServed, pos

(* The log stays in order.                                                 *)
InOrder(l) == \A k \in Logs : \A i, j \in 1..Len(l[k]) : i < j => l[k][i].at <= l[k][j].at

LEMMA StaysInOrder ==
  ASSUME NEW l \in Log, NEW n \in Log, Grows(l, n), NEW c \in Nat, InOrder(l),
         \A k \in Logs : \A i \in 1..Len(l[k]) : l[k][i].at <= c,
         \A k \in Logs : \A i \in (Len(l[k]) + 1)..Len(n[k]) : n[k][i].at = c
  PROVE  InOrder(n) /\ \A k \in Logs : \A i \in 1..Len(n[k]) : n[k][i].at <= c
<1>1. ASSUME NEW k \in Logs, NEW i \in 1..Len(n[k])
      PROVE  \/ i \in 1..Len(l[k]) /\ n[k][i] = l[k][i] /\ n[k][i].at <= c
             \/ i \in (Len(l[k]) + 1)..Len(n[k]) /\ n[k][i].at = c
  <2>1. Len(l[k]) \in Nat /\ Len(n[k]) \in Nat
    BY LogTypes
  <2>2. CASE i <= Len(l[k])
    <3>1. i \in 1..Len(l[k])
      BY <2>1, <2>2
    <3> QED
      BY <3>1 DEF Grows
  <2>3. CASE i > Len(l[k])
    <3>1. i \in (Len(l[k]) + 1)..Len(n[k])
      BY <2>1, <2>3
    <3> QED
      BY <3>1
  <2> QED
    BY <2>1, <2>2, <2>3
<1>2. ASSUME NEW k \in Logs, NEW i \in 1..Len(n[k]), NEW j \in 1..Len(n[k]), i < j
      PROVE  n[k][i].at <= n[k][j].at
  <2>1. Len(l[k]) \in Nat /\ n[k][i].at \in Nat /\ n[k][j].at \in Nat
    BY LogTypes
  <2>2. CASE j \in (Len(l[k]) + 1)..Len(n[k])
    BY <1>1, <2>1, <2>2
  <2>3. CASE j \in 1..Len(l[k])
    <3>1. i \in 1..Len(l[k])
      BY <2>1, <2>3, <1>2
    <3>2. n[k][i] = l[k][i] /\ n[k][j] = l[k][j]
      BY <2>3, <3>1 DEF Grows
    <3>3. l[k][i].at <= l[k][j].at
      BY <2>3, <3>1, <1>2 DEF InOrder
    <3> QED
      BY <3>2, <3>3
  <2> QED
    BY <1>1, <2>2, <2>3
<1>3. \A k \in Logs : \A i \in 1..Len(n[k]) : n[k][i].at <= c
  BY <1>1
<1> QED
  BY <1>2, <1>3 DEF InOrder

LEMMA Assoc == \A s, t, u \in Seq(Nat) : (s \o t) \o u = s \o (t \o u)
<1> DEFINE N == Nat
<1> HIDE DEF N
<1>1. \A s, t, u \in Seq(N) : (s \o t) \o u = s \o (t \o u)
  BY ConcatAssociative, SMTT(30)
<1> QED
  BY <1>1 DEF N

LEMMA SplitAt ==
  ASSUME NEW w \in Seq(Nat), NEW n \in 0..Len(w)
  PROVE SubSeq(w, 1, n) \o SubSeq(w, n + 1, Len(w)) = w
<1>1. Len(w) \in Nat
  BY LenProperties
<1>2. 1 \in 1..(Len(w) + 1) /\ n \in (1 - 1)..Len(w) /\ Len(w) \in n..Len(w)
  BY <1>1
<1>3. SubSeq(w, 1, n) \o SubSeq(w, n + 1, Len(w)) = SubSeq(w, 1, Len(w))
  BY <1>2, ConcatAdjacentSubSeq
<1> QED
  BY <1>3, SubSeqFull

(* A round moves serial bytes from the ring to the guest, in order.        *)
SameSerial(d, m) == d.read \o d.ring = m.read \o m.ring

LEMMA DoesSerial ==
  \A m, deed, answer, blob : m \in Machine /\ deed \in AllDeeds => SameSerial(Does(m, deed, answer, blob), m)
<1> SUFFICES ASSUME NEW m \in Machine, NEW deed \in AllDeeds, NEW answer, NEW blob
             PROVE  SameSerial(Does(m, deed, answer, blob), m)
  OBVIOUS
<1>0. PICK d : d = Does(m, deed, answer, blob)
  OBVIOUS
<1>1. CASE deed = "read" /\ m.ring # <<>>
  <2>1. m.ring \in Seq(Nat) /\ m.read \in Seq(Nat)
    BY DEF Machine
  <2>2. Tail(m.ring) \in Seq(Nat) /\ Head(m.ring) \in Nat
    BY <1>1, <2>1, HeadTailProperties
  <2>3. d = [m EXCEPT !.ring = Tail(@), !.read = Append(@, Head(m.ring))]
    BY <1>0, <1>1 DEF Does, Syncs
  <2>4. d.ring = Tail(m.ring) /\ d.read = Append(m.read, Head(m.ring))
    BY <2>3 DEF Machine
  <2>5. <<Head(m.ring)>> \o Tail(m.ring) = m.ring
    BY <1>1, <2>1, <2>2
  <2>6. Append(m.read, Head(m.ring)) = m.read \o <<Head(m.ring)>>
    BY <2>1, <2>2, AppendIsConcat
  <2>7. (m.read \o <<Head(m.ring)>>) \o Tail(m.ring) = m.read \o (<<Head(m.ring)>> \o Tail(m.ring))
    <3>1. <<Head(m.ring)>> \in Seq(Nat)
      BY <2>2
    <3> QED
      BY <2>1, <2>2, <3>1, Assoc, Zenon
  <2> QED
    BY <1>0, <2>4, <2>5, <2>6, <2>7 DEF SameSerial
<1>2. CASE ~(deed = "read" /\ m.ring # <<>>)
  <2>1. d.read = m.read /\ d.ring = m.ring
    BY <1>0, <1>2 DEF Does, Machine, Syncs
  <2> QED
    BY <1>0, <2>1 DEF SameSerial
<1> QED
  BY <1>1, <1>2

(* So does an input point, from those that wait to the ring, where `took`  *)
(* is what enters and `left` what waits on.                                *)
Enters(read, ring, before, new, took, left) ==
  /\ {read, ring, before, new, took, left} \subseteq Seq(Nat)
  /\ took \o left = before \o new /\ Len(took) <= RingRoom - Len(ring)
Kept(read, ring, before, new, took, left) ==
  read \o Pushed(ring, took) \o left \o <<>> = read \o ring \o before \o new

LEMMA ServeSerial ==
  \A read, ring, before, new, took, left :
    Enters(read, ring, before, new, took, left) => Kept(read, ring, before, new, took, left)
<1> SUFFICES ASSUME NEW read, NEW ring, NEW before, NEW new, NEW took, NEW left,
                    Enters(read, ring, before, new, took, left)
             PROVE  Kept(read, ring, before, new, took, left)
  OBVIOUS
<1>1. /\ read \in Seq(Nat) /\ ring \in Seq(Nat) /\ before \in Seq(Nat)
      /\ new \in Seq(Nat) /\ took \in Seq(Nat) /\ left \in Seq(Nat)
  BY DEF Enters
<1>2. took \o left = before \o new /\ Len(took) <= RingRoom - Len(ring)
  BY DEF Enters
<1>3. Lower(RingRoom - Len(ring), Len(took)) = Len(took)
  <2>1. Len(ring) \in Nat /\ Len(took) \in Nat /\ RingRoom \in Nat
    BY <1>1, LenProperties, RunAssumption
  <2> QED
    BY <1>2, <2>1 DEF Lower
<1>4. Pushed(ring, took) = ring \o took
  BY <1>1, <1>3, SubSeqFull DEF Pushed
<1>5. (read \o ring) \o took = read \o (ring \o took)
  <2>1. read \in Seq(Nat) /\ ring \in Seq(Nat) /\ took \in Seq(Nat)
    BY <1>1
  <2> QED
    BY <2>1, Assoc
<1> DEFINE rr == read \o ring
<1>6. rr \in Seq(Nat)
  BY <1>1, ConcatProperties
<1>7. read \o Pushed(ring, took) = rr \o took
  BY <1>4, <1>5
<1>8. Kept(read, ring, before, new, took, left) <=> (read \o Pushed(ring, took) \o left) \o <<>> = (rr \o before) \o new
  BY DEF Kept
<1> HIDE DEF rr
<1>9. (rr \o took) \o left = rr \o (took \o left)
  <2>1. took \in Seq(Nat) /\ left \in Seq(Nat)
    BY <1>1
  <2> QED
    BY <1>6, <2>1, Assoc
<1>10. (rr \o before) \o new = rr \o (before \o new)
  <2>1. before \in Seq(Nat) /\ new \in Seq(Nat)
    BY <1>1
  <2> QED
    BY <1>6, <2>1, Assoc
<1> DEFINE all == rr \o (before \o new)
<1>11. all \in Seq(Nat)
  <2>1. before \o new \in Seq(Nat)
    BY <1>1, ConcatProperties
  <2> QED
    BY <1>6, <2>1, ConcatProperties
<1>12. read \o Pushed(ring, took) \o left = all /\ (rr \o before) \o new = all
  BY <1>2, <1>7, <1>9, <1>10
<1> HIDE DEF all
<1>13. all \o <<>> = all
  BY <1>11, ConcatEmptySeq
<1> QED
  BY <1>8, <1>12, <1>13


-------------------------------------------------------------------------------
(* What the invariant says.                                                *)
LEMMA StartType == StartRun \in Run /\ Fits(StartRun.m) /\ Unused(StartRun)
<1>1. <<>> \in Seq(Nat) /\ Len(<<>>) = 0
  BY EmptySeq
<1>2. 0 \in 0..QueueSize
  BY DEF QueueSize
<1>3. FreshMachine \in Machine /\ Fits(FreshMachine)
  BY <1>1, <1>2, RunAssumption DEF FreshMachine, Machine, Fits
<1> QED
  BY <1>3 DEF StartRun, Run, Unused

LEMMA InitHolds == Init => IInv
<1> SUFFICES ASSUME Init PROVE IInv
  OBVIOUS
<1> USE DEF Init
<1>1. <<>> \in Seq(Nat) /\ <<>> \in Seq(Step) /\ <<>> \in Seq(Entry) /\ Len(<<>>) = 0
  BY EmptySeq
<1>2. log \in Log /\ \A k \in Logs : log[k] = <<>>
  BY <1>1 DEF Log
<1>3. run \in Run /\ Fits(run.m) /\ Unused(run)
  BY StartType
<1>4. \A k \in Logs : run.pos[k] = 0 /\ Len(log[k]) = 0
  BY <1>1, <1>2 DEF StartRun
<1>5. TypeOK
  <2>1. round \in 1..(Rounds + 1) /\ Len(trail) <= Rounds + 1
    BY <1>1, RunAssumption
  <2>2. incoming \in [key : Seq(Nat), uart : Seq(Nat)] /\ Len(incoming.key) + Len(incoming.uart) <= IncomingLimit
    BY <1>1, RunAssumption DEF Nothing
  <2>3. handed <= HostInputs
    BY RunAssumption
  <2>4. \A k \in Logs : \A i, j \in 1..Len(log[k]) : i < j => log[k][i].at <= log[k][j].at
    BY <1>4
  <2>5. \A k \in Logs : run.pos[k] <= Len(log[k])
    BY <1>4
  <2> QED
    BY <1>1, <1>3, <2>1, <2>2, <2>3, <2>4, <2>5 DEF TypeOK, Fits
<1>6. TypeInv
  BY <1>1, <1>2, <1>5 DEF TypeInv, Log
<1>7. TrailInv
  BY <1>1 DEF TrailInv, TakenInv
<1>8. LiveInv
  <2>1. run.pos = Ends(log)
    BY <1>4 DEF StartRun, Ends
  <2> QED
    BY <1>1, <1>4, <2>1 DEF LiveInv
<1>9. LogInv /\ GpuInv
  BY <1>1, <1>2, <1>3, StreamsAreLogs DEF LogInv, GpuInv
<1>10. ReplayInv /\ SavedInv
  BY DEF ReplayInv, SavedInv, NoSnapshot
<1>11. SerialInOrder
  <2>1. run.m.read = <<>> /\ run.m.ring = <<>>
    BY DEF StartRun, FreshMachine
  <2>2. <<>> \o <<>> = <<>>
    BY <1>1, ConcatEmptySeq
  <2> QED
    BY <2>1, <2>2 DEF SerialInOrder, Nothing
<1> QED
  BY <1>6, <1>7, <1>8, <1>9, <1>10, <1>11 DEF IInv

(* Each round of the trail.                                                *)
LEMMA TrailFacts ==
  ASSUME IInv, NEW r \in 1..Len(trail)
  PROVE  /\ trail[r] \in Step /\ trail[r].begun \in Run /\ trail[r].begun.count \in Nat
         /\ Fits(trail[r].begun.m) /\ Recorded(log, trail[r].begun)
         /\ r <= Rounds => MayPost(trail[r]) /\ Answered(log, trail[r])
<1>1. trail[r] \in Step
  BY ElementOfSeq DEF IInv, TypeInv
<1>2. trail[r].begun \in Run /\ trail[r].begun.count \in Nat
  BY <1>1 DEF Step, Run
<1>3. r <= Rounds => MayPost(trail[r])
  BY DEF IInv, TrailInv, TakenInv, Taken, May, MayPost
<1> QED
  BY <1>1, <1>2, <1>3 DEF IInv, TrailInv, LogInv

(* The process, and the log.                                               *)
LEMMA RunFacts ==
  ASSUME IInv
  PROVE  /\ log \in Log /\ virgl \in BOOLEAN /\ run \in Run /\ run.m \in Machine /\ run.count \in Nat
         /\ Fits(run.m) /\ Within(log, run) /\ InOrder(log) /\ trail \in Seq(Step) /\ Len(trail) \in Nat
         /\ round \in Nat /\ Rounds \in Nat \ {0}
<1>1. run \in Run
  BY DEF IInv, TypeInv, TypeOK
<1>2. trail \in Seq(Step) /\ Len(trail) \in Nat
  BY LenProperties DEF IInv, TypeInv
<1> QED
  <2>1. log \in Log /\ virgl \in BOOLEAN /\ round \in 1..(Rounds + 1)
    BY DEF IInv, TypeInv, TypeOK, Log
  <2>6. Rounds \in Nat \ {0}
    BY RunAssumption
  <2>7. round \in Nat
    BY <2>1, <2>6
  <2>2. run.m \in Machine /\ run.count \in Nat
    BY <1>1 DEF Run
  <2>3. Fits(run.m)
    BY DEF IInv, TypeInv, TypeOK, Fits
  <2>4. Within(log, run)
    BY DEF IInv, TypeInv, TypeOK, Within
  <2>5. InOrder(log)
    BY DEF IInv, TypeInv, TypeOK, InOrder
  <2> QED
    BY <1>1, <1>2, <2>1, <2>2, <2>3, <2>4, <2>5, <2>6, <2>7

(* A live run between rounds is recorded like the rounds before it.        *)
LEMMA LiveFacts ==
  ASSUME IInv, mode = "live"
  PROVE  /\ run.pos = Ends(log) /\ Len(trail) = round - 1 /\ Len(trail) <= Rounds
         /\ \A r \in 1..Len(trail) : trail[r].begun.count < run.count /\ Done(log, trail[r]).count <= run.count
         /\ \A k \in Logs : \A i \in 1..Len(log[k]) : log[k][i].at <= run.count
         /\ Recorded(log, run)
<1>1. run.pos = Ends(log) /\ Len(trail) = round - 1
  BY DEF IInv, LiveInv, TrailInv
<1>2. Len(trail) <= Rounds
  BY <1>1, RunFacts DEF IInv, TypeInv, TypeOK
<1>3. \A r \in 1..Len(trail) : trail[r].begun.count < run.count /\ Done(log, trail[r]).count <= run.count
  BY DEF IInv, LiveInv
<1>4. \A k \in Logs : \A i \in 1..Len(log[k]) : log[k][i].at <= run.count
  BY DEF IInv, LiveInv
<1>5. \A k \in Logs : run.pos[k] = Len(log[k]) /\ Len(log[k]) \in Nat
  BY <1>1, RunFacts, LogTypes DEF Ends
<1>6. StreamsFrom(log, run)
  BY <1>4, <1>5, StreamsAreLogs DEF StreamsFrom
<1>7. SyncsFrom(log, run)
  BY <1>5, StreamsAreLogs DEF SyncsFrom
<1> QED
  BY <1>1, <1>2, <1>3, <1>4, <1>6, <1>7, RunFacts DEF Recorded

(* The trail is as it was by the longer log n, which has more at this step *)
(* count only: commands where a round is to begin.                         *)
LEMMA TrailStays ==
  ASSUME IInv, mode = "live", NEW n \in Log, Grows(log, n),
         \A k \in Logs : \A i \in (Len(log[k]) + 1)..Len(n[k]) : n[k][i].at = run.count,
         at = "round" => /\ \A k \in Streams : Len(n[k]) = Len(log[k])
                         /\ \A i \in (Len(log["sync"]) + 1)..Len(n["sync"]) : n["sync"][i].kind = "command"
  PROVE  /\ \A r \in 1..Len(trail) : /\ Recorded(n, trail[r].begun) /\ Answered(n, trail[r])
                                     /\ Done(n, trail[r]) = Done(log, trail[r])
         /\ \A r \in 1..(Len(trail) - 1) : trail[r + 1].begun = After(n, virgl, trail[r])
         /\ at = "round" /\ trail # <<>> => run = After(n, virgl, trail[Len(trail)])
<1>1. /\ log \in Log /\ virgl \in BOOLEAN /\ run \in Run /\ run.count \in Nat
      /\ trail \in Seq(Step) /\ Len(trail) \in Nat
  BY RunFacts
<1>2. /\ Len(trail) <= Rounds /\ Recorded(log, run)
      /\ \A r \in 1..Len(trail) : trail[r].begun.count < run.count /\ Done(log, trail[r]).count <= run.count
  BY LiveFacts
<1>3. ASSUME NEW r \in 1..Len(trail)
      PROVE  /\ trail[r] \in Step /\ trail[r].begun \in Run /\ trail[r].begun.count \in Nat
             /\ Fits(trail[r].begun.m) /\ Recorded(log, trail[r].begun)
             /\ MayPost(trail[r]) /\ Answered(log, trail[r])
  BY <1>1, <1>2, TrailFacts, RunFacts
<1>4. \A k \in Logs : Len(log[k]) \in Nat /\ Len(n[k]) \in Nat
  BY <1>1, LogTypes
<1>5. ASSUME NEW r \in 1..Len(trail)
      PROVE  /\ Recorded(n, trail[r].begun) /\ Answered(n, trail[r])
             /\ Done(n, trail[r]) = Done(log, trail[r]) /\ LaterSyncs(log, n, trail[r].begun)
  <2> DEFINE t == trail[r]
  <2>1. \A k \in Streams : \A i \in (Len(log[k]) + 1)..Len(n[k]) : n[k][i].at > t.begun.count
    BY <1>1, <1>2, <1>3, StreamsAreLogs
  <2>2. \A i \in (Len(log["sync"]) + 1)..Len(n["sync"]) : n["sync"][i].at >= Done(log, t).count
    BY <1>1, <1>2, StreamsAreLogs
  <2>3. t \in Step /\ Fits(t.begun.m) /\ Recorded(log, t.begun) /\ MayPost(t) /\ Answered(log, t)
    BY <1>3
  <2> HIDE DEF t
  <2>4. Recorded(n, t.begun) /\ Answered(n, t) /\ Done(n, t) = Done(log, t) /\ LaterSyncs(log, n, t.begun)
    BY <1>1, <2>1, <2>2, <2>3, RoundStays
  <2> QED
    BY <2>4 DEF t
<1>6. ASSUME NEW r \in 1..Len(trail), NEW u \in Run, u = After(log, virgl, trail[r]), Recorded(log, u),
             Later(log, n, Done(log, trail[r]))
      PROVE  u = After(n, virgl, trail[r])
  <2> DEFINE t == trail[r]
  <2>1. t \in Step /\ Fits(t.begun.m) /\ Recorded(log, t.begun) /\ MayPost(t) /\ Answered(log, t)
    BY <1>3
  <2>2. LaterSyncs(log, n, t.begun)
    BY <1>5
  <2>3. u = After(log, virgl, t) /\ Later(log, n, Done(log, t))
    BY <1>6
  <2> HIDE DEF t
  <2>4. u = After(n, virgl, t)
    BY <1>1, <1>6, <2>1, <2>2, <2>3, AfterStays DEF Recorded
  <2> QED
    BY <2>4 DEF t
<1>7. ASSUME NEW r \in 1..(Len(trail) - 1) PROVE trail[r + 1].begun = After(n, virgl, trail[r])
  <2>1. r \in 1..Len(trail) /\ r + 1 \in 1..Len(trail)
    BY <1>1
  <2> DEFINE u == trail[r + 1].begun
  <2>2. u \in Run /\ u.count \in Nat /\ Recorded(log, u) /\ u.count < run.count
    BY <1>2, <1>3, <2>1
  <2>3. u = After(log, virgl, trail[r])
    BY DEF IInv, TrailInv
  <2>4. u.count = Done(log, trail[r]).count
    <3>1. After(log, virgl, trail[r]).count = Done(log, trail[r]).count
      BY DEF After, ReplayServed, Served
    <3> QED
      BY <2>3, <3>1
  <2> HIDE DEF u
  <2>5. Later(log, n, Done(log, trail[r]))
    <3>1. \A k \in Logs : \A i \in (Len(log[k]) + 1)..Len(n[k]) : n[k][i].at > Done(log, trail[r]).count
      BY <1>1, <2>2, <2>4
    <3> QED
      BY <3>1, StreamsAreLogs DEF Later
  <2>6. u = After(n, virgl, trail[r])
    BY <1>6, <2>1, <2>2, <2>3, <2>5
  <2> QED
    BY <2>6 DEF u
<1>8. ASSUME at = "round", trail # <<>> PROVE run = After(n, virgl, trail[Len(trail)])
  <2>1. Len(trail) \in 1..Len(trail)
    BY <1>1, <1>8, EmptySeq
  <2>2. run = After(log, virgl, trail[Len(trail)])
    BY <1>8 DEF IInv, LiveInv
  <2>3. Done(log, trail[Len(trail)]).count <= run.count
    BY <1>2, <2>1
  <2>6. Done(log, trail[Len(trail)]).count \in Nat
    <3> DEFINE t == trail[Len(trail)]
    <3>1. t \in Step /\ Within(log, t.begun) /\ Fits(t.begun.m) /\ MayPost(t)
      BY <1>3, <2>1 DEF Recorded
    <3> HIDE DEF t
    <3>2. Done(log, t).count \in Nat
      BY <1>1, <3>1, DoneFacts
    <3> QED
      BY <3>2 DEF t
  <2>4. Later(log, n, Done(log, trail[Len(trail)]))
    <3>1. \A k \in Streams : \A i \in (Len(log[k]) + 1)..Len(n[k]) : FALSE
      BY <1>4, <1>8, StreamsAreLogs
    <3>2. \A i \in (Len(log["sync"]) + 1)..Len(n["sync"]) : n["sync"][i].at = run.count /\ n["sync"][i].kind = "command"
      BY <1>8, StreamsAreLogs
    <3> HIDE DEF Done
    <3> DEFINE c == Done(log, trail[Len(trail)]).count
    <3>3. run.count > c \/ run.count = c
      BY <1>1, <2>3, <2>6
    <3> HIDE DEF c
    <3>4. \A i \in (Len(log["sync"]) + 1)..Len(n["sync"]) :
            n["sync"][i].at > c \/ (n["sync"][i].at = c /\ n["sync"][i].kind = "command")
      BY <3>2, <3>3
    <3> QED
      BY <3>1, <3>4 DEF Later, c
  <2> QED
    BY <1>1, <1>2, <1>6, <2>1, <2>2, <2>4
<1> QED
  BY <1>5, <1>7, <1>8

-------------------------------------------------------------------------------
(* Each action keeps the invariant.                                        *)

LEMMA TrailUnchanged == TrailInv /\ mode' = mode /\ virgl' = virgl /\ round' = round /\ trail' = trail /\ log' = log => TrailInv'
<1>1. TakenInv /\ trail' = trail /\ virgl' = virgl => TakenInv'
  BY DEF TakenInv, Taken, May
<1> QED
  BY <1>1 DEF TrailInv

LEMMA LogUnchanged == LogInv /\ trail' = trail /\ log' = log => LogInv'
BY DEF LogInv

LEMMA GpuUnchanged == GpuInv /\ virgl' = virgl /\ run' = run /\ trail' = trail /\ log' = log => GpuInv'
BY DEF GpuInv

LEMMA SubmitKeeps == IInv /\ Submit => IInv'
<1> SUFFICES ASSUME IInv, Submit PROVE IInv'
  OBVIOUS
<1> DEFINE room == Len(incoming.key) + Len(incoming.uart) < IncomingLimit
<1>1. PICK kind \in {"uart", "key"} :
        /\ incoming' = IF room THEN [incoming EXCEPT ![kind] = Append(@, handed')] ELSE incoming
        /\ typed' = IF room /\ kind = "uart" /\ mode = "live" THEN Append(typed, handed') ELSE typed
  BY DEF Submit
<1>2. /\ at = "round" /\ handed < (IF mode = "live" THEN HostInputs ELSE ReplayInputs) /\ handed' = handed + 1
      /\ UNCHANGED <<mode, virgl, at, run, passed, round, trail, log, backlog, asked, saved, from>>
  BY DEF Submit
<1>3. /\ TypeOK /\ handed \in Nat /\ typed \in Seq(Nat) /\ backlog \in Seq(Nat)
      /\ incoming \in [key : Seq(Nat), uart : Seq(Nat)] /\ Len(incoming.key) + Len(incoming.uart) <= IncomingLimit
  BY DEF IInv, TypeInv, TypeOK
<1>4. /\ incoming.key \in Seq(Nat) /\ incoming.uart \in Seq(Nat)
      /\ Len(incoming.key) \in Nat /\ Len(incoming.uart) \in Nat /\ IncomingLimit \in Nat
  BY <1>3, LenProperties, RunAssumption
<1>5. handed' \in Nat /\ handed' <= IF mode' = "live" THEN HostInputs ELSE ReplayInputs
  <2>1. HostInputs \in Nat /\ ReplayInputs \in Nat
    BY RunAssumption
  <2>2. mode' = mode /\ handed' = handed + 1 /\ handed < IF mode = "live" THEN HostInputs ELSE ReplayInputs
    BY <1>2
  <2> QED
    BY <1>3, <2>1, <2>2
<1>6. /\ Append(incoming.key, handed') \in Seq(Nat) /\ Len(Append(incoming.key, handed')) = Len(incoming.key) + 1
      /\ Append(incoming.uart, handed') \in Seq(Nat) /\ Len(Append(incoming.uart, handed')) = Len(incoming.uart) + 1
      /\ Append(typed, handed') \in Seq(Nat)
  BY <1>3, <1>4, <1>5, AppendProperties
<1>7. incoming' \in [key : Seq(Nat), uart : Seq(Nat)] /\ Len(incoming'.key) + Len(incoming'.uart) <= IncomingLimit
  <2>1. CASE ~room
    BY <1>1, <1>3, <2>1
  <2>2. CASE room /\ kind = "key"
    <3>1. incoming' = [incoming EXCEPT !.key = Append(incoming.key, handed')]
      BY <1>1, <2>2
    <3>2. incoming'.key = Append(incoming.key, handed') /\ incoming'.uart = incoming.uart
      BY <1>3, <3>1
    <3>3. incoming' \in [key : Seq(Nat), uart : Seq(Nat)]
      BY <1>3, <1>6, <3>1
    <3>4. Len(incoming'.key) = Len(incoming.key) + 1 /\ Len(incoming'.uart) = Len(incoming.uart)
      BY <1>6, <3>2
    <3>5. Len(incoming.key) + Len(incoming.uart) < IncomingLimit
      BY <2>2
    <3> HIDE DEF room
    <3>6. Len(incoming'.key) + Len(incoming'.uart) <= IncomingLimit
      <4> DEFINE a == Len(incoming.key)
                 b == Len(incoming.uart)
                 c == Len(incoming'.key)
                 d == Len(incoming'.uart)
      <4>1. a \in Nat /\ b \in Nat /\ IncomingLimit \in Nat /\ a + b < IncomingLimit
        BY <1>4, <3>5
      <4>2. c = a + 1 /\ d = b
        BY <3>4
      <4> HIDE DEF a, b, c, d
      <4>3. c + d <= IncomingLimit
        BY <4>1, <4>2
      <4> QED
        BY <4>3 DEF c, d
    <3> QED
      BY <3>3, <3>6
  <2>3. CASE room /\ kind = "uart"
    <3>1. incoming' = [incoming EXCEPT !.uart = Append(incoming.uart, handed')]
      BY <1>1, <2>3
    <3>2. incoming'.uart = Append(incoming.uart, handed') /\ incoming'.key = incoming.key
      BY <1>3, <3>1
    <3>3. incoming' \in [key : Seq(Nat), uart : Seq(Nat)]
      BY <1>3, <1>6, <3>1
    <3>4. Len(incoming'.uart) = Len(incoming.uart) + 1 /\ Len(incoming'.key) = Len(incoming.key)
      BY <1>6, <3>2
    <3>5. Len(incoming.key) + Len(incoming.uart) < IncomingLimit
      BY <2>3
    <3> HIDE DEF room
    <3>6. Len(incoming'.key) + Len(incoming'.uart) <= IncomingLimit
      <4> DEFINE a == Len(incoming.key)
                 b == Len(incoming.uart)
                 c == Len(incoming'.key)
                 d == Len(incoming'.uart)
      <4>1. a \in Nat /\ b \in Nat /\ IncomingLimit \in Nat /\ a + b < IncomingLimit
        BY <1>4, <3>5
      <4>2. c = a /\ d = b + 1
        BY <3>4
      <4> HIDE DEF a, b, c, d
      <4>3. c + d <= IncomingLimit
        BY <4>1, <4>2
      <4> QED
        BY <4>3 DEF c, d
    <3> QED
      BY <3>3, <3>6
  <2> QED
    BY <2>1, <2>2, <2>3
<1>8. typed' \in Seq(Nat)
  BY <1>1, <1>3, <1>6
<1>9. TypeInv'
  <2>1. TypeOK'
    BY <1>2, <1>3, <1>5, <1>7, <1>8 DEF TypeOK
  <2> QED
    BY <1>2, <2>1 DEF IInv, TypeInv
<1>10. TrailInv' /\ LogInv' /\ GpuInv'
  BY <1>2, TrailUnchanged, LogUnchanged, GpuUnchanged DEF IInv
<1>12. LiveInv'
  BY <1>2 DEF IInv, LiveInv
<1>13. ReplayInv'
  BY <1>2 DEF IInv, ReplayInv
<1>14. SavedInv'
  BY <1>2 DEF IInv, SavedInv
<1>11. SerialInOrder'
  <2>1. CASE mode = "replay"
    BY <1>2, <2>1 DEF SerialInOrder
  <2>2. CASE mode = "live" /\ room /\ kind = "uart"
    <3>1. incoming'.uart = Append(incoming.uart, handed')
      BY <1>1, <1>3, <2>2
    <3>2. typed' = Append(typed, handed')
      BY <1>1, <2>2
    <3> DEFINE s == run.m.read \o run.m.ring \o backlog
    <3>3. s \in Seq(Nat)
      <4>1. run.m.read \in Seq(Nat) /\ run.m.ring \in Seq(Nat)
        BY RunFacts DEF Machine
      <4>2. run.m.read \o run.m.ring \in Seq(Nat)
        BY <4>1, ConcatProperties
      <4> QED
        BY <1>3, <4>2, ConcatProperties
    <3>4. s \o incoming.uart = typed
      BY <2>2 DEF IInv, SerialInOrder
    <3>5. s' = s
      BY <1>2
    <3> HIDE DEF s
    <3>6. s \o Append(incoming.uart, handed') = Append(typed, handed')
      <4> DEFINE one == <<handed'>>
      <4>1. one \in Seq(Nat)
        BY <1>5
      <4>2. Append(incoming.uart, handed') = incoming.uart \o one /\ Append(typed, handed') = typed \o one
        BY <1>3, <1>4, <1>5, AppendIsConcat
      <4> HIDE DEF one
      <4>3. (s \o incoming.uart) \o one = s \o (incoming.uart \o one)
        BY <1>4, <3>3, <4>1, Assoc, Zenon
      <4> QED
        BY <3>4, <4>2, <4>3
    <3>7. (s \o incoming.uart)' = typed'
      BY <3>1, <3>2, <3>5, <3>6
    <3> QED
      BY <3>7 DEF SerialInOrder, s
  <2>3. CASE mode = "live" /\ ~(room /\ kind = "uart")
    <3>1. incoming'.uart = incoming.uart /\ typed' = typed
      BY <1>1, <1>3, <2>3
    <3> QED
      BY <1>2, <2>3, <3>1 DEF IInv, SerialInOrder
  <2> QED
    BY <2>1, <2>2, <2>3, <1>3 DEF TypeOK
<1> QED
  BY <1>9, <1>10, <1>11, <1>12, <1>13, <1>14 DEF IInv

LEMMA NothingToServeKeeps == IInv /\ NothingToServe => IInv'
<1> SUFFICES ASSUME IInv, NothingToServe PROVE IInv'
  OBVIOUS
<1>1. /\ at = "serve" /\ ~InputDue(passed, run.count) /\ at' = "save"
      /\ mode' = mode /\ virgl' = virgl /\ run' = run /\ passed' = passed /\ round' = round /\ trail' = trail
      /\ log' = log /\ saved' = saved /\ from' = from
      /\ incoming' = incoming /\ backlog' = backlog /\ asked' = asked /\ handed' = handed /\ typed' = typed
  BY DEF NothingToServe, host
<1>2. TypeInv'
  <2>1. TypeOK'
    BY <1>1 DEF IInv, TypeInv, TypeOK
  <2> QED
    BY <1>1, <2>1 DEF IInv, TypeInv
<1>3. TrailInv' /\ LogInv' /\ GpuInv'
  BY <1>1, TrailUnchanged, LogUnchanged, GpuUnchanged DEF IInv
<1>4. LiveInv'
  <2> SUFFICES ASSUME mode = "live" PROVE LiveInv'
    BY <1>1 DEF LiveInv
  <2>1. trail # <<>> /\ run = Done(log, trail[Len(trail)]) /\ passed = trail[Len(trail)].begun.count
    BY <1>1 DEF IInv, LiveInv
  <2>2. run = After(log, virgl, trail[Len(trail)])
    BY <1>1, <2>1 DEF After
  <2> QED
    BY <1>1, <2>1, <2>2 DEF IInv, LiveInv
<1>5. ReplayInv'
  <2> SUFFICES ASSUME mode = "replay" PROVE ReplayInv'
    BY <1>1 DEF ReplayInv
  <2> DEFINE t == trail[round - 1]
  <2>1. /\ round > 1 /\ passed = t.begun.count /\ Alike(run, Done(log, t))
        /\ (virgl => from = "start") => run = Done(log, t)
    BY <1>1 DEF IInv, ReplayInv
  <2>2. Len(trail) = Rounds + 1 /\ round \in 1..(Rounds + 1) /\ Rounds \in Nat
    BY RunFacts DEF IInv, TypeInv, TypeOK, TrailInv
  <2>3. round - 1 \in 1..(Len(trail) - 1) /\ (round - 1) + 1 = round
    BY <2>1, <2>2
  <2>4. trail[round].begun = After(log, virgl, t)
    BY <2>3 DEF IInv, TrailInv
  <2>5. run.count = Done(log, t).count
    BY <2>1 DEF Alike
  <2>6. After(log, virgl, t) = Done(log, t)
    BY <1>1, <2>1, <2>5 DEF After
  <2> HIDE DEF t
  <2> QED
    BY <1>1, <2>1, <2>4, <2>6 DEF ReplayInv
<1>6. SavedInv'
  BY <1>1 DEF IInv, SavedInv
<1>7. SerialInOrder'
  BY <1>1 DEF IInv, SerialInOrder
<1> QED
  BY <1>2, <1>3, <1>4, <1>5, <1>6, <1>7 DEF IInv

LEMMA SaveSnapshotKeeps == IInv /\ SaveSnapshot => IInv'
<1> SUFFICES ASSUME IInv, SaveSnapshot PROVE IInv'
  OBVIOUS
<1> DEFINE taken == [none |-> FALSE, m |-> run.m, count |-> run.count, round |-> round, backlog |-> backlog]
<1>1. /\ at = "save" /\ at' = "round"
      /\ mode' = mode /\ virgl' = virgl /\ run' = run /\ passed' = passed /\ round' = round /\ trail' = trail
      /\ log' = log /\ from' = from
      /\ incoming' = incoming /\ backlog' = backlog /\ asked' = asked /\ handed' = handed /\ typed' = typed
  BY DEF SaveSnapshot, host
<1>2. saved' = taken \/ saved' = saved
  BY DEF SaveSnapshot
<1>3. round \in 1..(Rounds + 1) /\ backlog \in Seq(Nat)
  BY DEF IInv, TypeInv, TypeOK
<1>4. saved' \in {NoSnapshot} \cup Snapshot
  <2>1. taken \in Snapshot
    BY <1>3, RunFacts DEF Snapshot
  <2> QED
    BY <1>2, <2>1 DEF IInv, TypeInv
<1>5. TypeInv'
  <2>1. TypeOK'
    BY <1>1 DEF IInv, TypeInv, TypeOK
  <2> QED
    BY <1>1, <1>4, <2>1 DEF IInv, TypeInv
<1>6. TrailInv' /\ LogInv' /\ GpuInv'
  BY <1>1, TrailUnchanged, LogUnchanged, GpuUnchanged DEF IInv
<1>7. LiveInv'
  BY <1>1 DEF IInv, LiveInv
<1>8. ReplayInv'
  BY <1>1 DEF IInv, ReplayInv
<1>9. SavedInv'
  <2>1. CASE saved' = saved
    <3>1. ~saved.none => saved.round <= Len(trail)
      BY <1>1 DEF IInv, SavedInv
    <3> QED
      BY <1>1, <2>1, <3>1 DEF IInv, SavedInv
  <2>2. CASE saved' = taken
    <3>1. /\ saved'.m = run.m /\ saved'.count = run.count /\ saved'.round = round
      BY <2>2
    <3>2. CASE mode = "live"
      <4>1. ~(round <= Len(trail))
        BY <1>3, <3>2, RunFacts, LiveFacts
      <4> QED
        BY <1>1, <3>1, <3>2, <4>1 DEF SavedInv
    <3>3. CASE mode = "replay"
      <4>1. round <= Len(trail)
        BY <1>3, <3>3, RunFacts DEF IInv, TrailInv
      <4>2. /\ Alike(run, trail[round].begun)
            /\ (virgl => from = "start") => run = trail[round].begun
        BY <1>1, <3>3 DEF IInv, ReplayInv
      <4>3. run.count = trail[round].begun.count /\ Sees(run.m) = Sees(trail[round].begun.m)
        BY <4>2 DEF Alike
      <4> QED
        BY <1>1, <3>1, <4>1, <4>2, <4>3 DEF SavedInv
    <3> QED
      BY <3>2, <3>3 DEF IInv, TypeInv, TypeOK
  <2> QED
    BY <1>2, <2>1, <2>2
<1>10. SerialInOrder'
  BY <1>1 DEF IInv, SerialInOrder
<1> QED
  BY <1>5, <1>6, <1>7, <1>8, <1>9, <1>10 DEF IInv

(* The snapshot, once the run it is of is over.                            *)
LEMMA SavedUnchanged ==
  ASSUME SavedInv, ~(mode = "live" /\ at = "round"), saved' = saved, virgl' = virgl, trail' = trail
  PROVE  SavedInv'
<1>1. ~saved.none => saved.round <= Len(trail)
  BY DEF SavedInv
<1> QED
  BY <1>1 DEF SavedInv

LEMMA ReplayRoundKeeps == IInv /\ ReplayRound => IInv'
<1> SUFFICES ASSUME IInv, ReplayRound PROVE IInv'
  OBVIOUS
<1> DEFINE t == trail[round]
           d == ReplayWorked(log, run, t.deed, t.stride)
<1>1. /\ mode = "replay" /\ at = "round" /\ round <= Rounds
      /\ run' = d /\ passed' = run.count /\ round' = round + 1 /\ at' = "serve" /\ asked' = (asked \/ t.deed = "prompt")
      /\ mode' = mode /\ virgl' = virgl /\ trail' = trail /\ log' = log /\ saved' = saved /\ from' = from
      /\ incoming' = incoming /\ backlog' = backlog /\ handed' = handed /\ typed' = typed
  BY DEF ReplayRound
<1>2. /\ log \in Log /\ virgl \in BOOLEAN /\ run \in Run /\ run.m \in Machine /\ run.count \in Nat
      /\ Fits(run.m) /\ Within(log, run) /\ Len(trail) \in Nat /\ round \in Nat /\ Rounds \in Nat
  BY RunFacts
<1>3. Len(trail) = Rounds + 1 /\ round \in 1..(Rounds + 1)
  BY <1>1 DEF IInv, TypeInv, TypeOK, TrailInv
<1>4. round \in 1..Len(trail) /\ round' \in 1..(Rounds + 1) /\ round' > 1 /\ round' - 1 = round
  BY <1>1, <1>2, <1>3
<1>5. /\ t \in Step /\ t.begun \in Run /\ Fits(t.begun.m) /\ Within(log, t.begun) /\ MayPost(t)
      /\ t.deed \in AllDeeds /\ t.stride \in Nat
  BY <1>1, <1>4, TrailFacts DEF Recorded, Step
<1>6. Alike(run, t.begun) /\ ((virgl => from = "start") => run = t.begun)
  BY <1>1 DEF IInv, ReplayInv
<1>7. t.deed = "post" => t.begun.m.posted < QueueSize
  BY <1>5 DEF MayPost
<1>8. run.m.posted = t.begun.m.posted /\ run.count = t.begun.count
  BY <1>6 DEF Alike, Sees
<1>9. ~virgl => t.deed # "write"
  BY <1>1, <1>4 DEF IInv, TrailInv, TakenInv, Taken, May
<1>16. asked' \in BOOLEAN
  BY <1>1 DEF IInv, TypeInv, TypeOK
<1> HIDE DEF t
<1>10. d \in Run /\ Fits(d.m) /\ Within(log, d)
  BY <1>2, <1>5, <1>7, <1>8, ReplayWorkedType
<1>11. Alike(d, Done(log, t))
  BY <1>2, <1>5, <1>6, <1>7, WorkAlike DEF Done
<1>12. run = t.begun => d = Done(log, t)
  BY DEF Done
<1>13. ~run.dirty /\ t.deed # "write" => ~d.dirty
  BY <1>2, <1>5, <1>7, <1>8, ReplayWorkedType
<1>14. d.nextAlive = run.nextAlive
  BY DEF ReplayWorked, Worked
<1> HIDE DEF d
<1>15. TypeInv'
  <2>1. Len(run'.m.ring) <= RingRoom /\ Len(run'.m.frames) <= FrameRoom
    BY <1>1, <1>10 DEF Fits
  <2>2. \A k \in Logs : run'.pos[k] <= Len(log[k])
    BY <1>1, <1>10 DEF Within
  <2>3. TypeOK'
    BY <1>1, <1>2, <1>4, <1>10, <1>16, <2>1, <2>2 DEF IInv, TypeInv, TypeOK
  <2> QED
    BY <1>1, <2>3 DEF IInv, TypeInv
<1>17. TrailInv'
  <2>1. TakenInv'
    BY <1>1 DEF IInv, TrailInv, TakenInv, Taken, May
  <2> QED
    BY <1>1, <2>1 DEF IInv, TrailInv
<1>18. LogInv'
  BY <1>1, LogUnchanged DEF IInv
<1>19. GpuInv'
  <2>1. ~virgl => Unused(d)
    BY <1>9, <1>13, <1>14 DEF IInv, GpuInv, Unused
  <2> QED
    BY <1>1, <2>1 DEF IInv, GpuInv
<1>20. ReplayInv'
  BY <1>1, <1>4, <1>6, <1>8, <1>11, <1>12 DEF ReplayInv, t
<1>21. SavedInv'
  BY <1>1, SavedUnchanged DEF IInv
<1>22. LiveInv' /\ SerialInOrder'
  BY <1>1 DEF LiveInv, SerialInOrder
<1> QED
  BY <1>15, <1>17, <1>18, <1>19, <1>20, <1>21, <1>22 DEF IInv

LEMMA ReplayServeKeeps == IInv /\ ReplayServe => IInv'
<1> SUFFICES ASSUME IInv, ReplayServe PROVE IInv'
  OBVIOUS
<1> DEFINE t == trail[round - 1]
           s == Done(log, t)
           v == trail[round].begun
           u == ReplayServed(log, virgl, run)
<1>1. /\ mode = "replay" /\ at = "serve" /\ InputDue(passed, run.count)
      /\ run' = u /\ incoming' = Nothing /\ at' = "save"
      /\ mode' = mode /\ virgl' = virgl /\ passed' = passed /\ round' = round /\ trail' = trail /\ log' = log
      /\ backlog' = backlog /\ asked' = asked /\ handed' = handed /\ typed' = typed /\ saved' = saved /\ from' = from
  BY DEF ReplayServe
<1>2. /\ log \in Log /\ virgl \in BOOLEAN /\ run \in Run /\ run.count \in Nat
      /\ Fits(run.m) /\ Within(log, run) /\ Len(trail) \in Nat /\ round \in Nat /\ Rounds \in Nat
  BY RunFacts
<1>3. Len(trail) = Rounds + 1 /\ round \in 1..(Rounds + 1)
  BY <1>1 DEF IInv, TypeInv, TypeOK, TrailInv
<1>4. /\ round > 1 /\ passed = t.begun.count /\ Alike(run, s)
      /\ (virgl => from = "start") => run = s
  BY <1>1 DEF IInv, ReplayInv
<1>5. /\ round - 1 \in 1..Len(trail) /\ round - 1 <= Rounds /\ round \in 1..Len(trail)
      /\ round - 1 \in 1..(Len(trail) - 1) /\ (round - 1) + 1 = round
  BY <1>2, <1>3, <1>4
<1>6. t \in Step /\ Fits(t.begun.m) /\ Recorded(log, t.begun) /\ MayPost(t)
  BY <1>5, TrailFacts
<1>7. v \in Run /\ Recorded(log, v)
  BY <1>5, TrailFacts
<1>8. v = After(log, virgl, t)
  BY <1>5 DEF IInv, TrailInv
<1>9. run.count = s.count
  BY <1>4 DEF Alike
<1> HIDE DEF t, v
<1>10. s \in Run /\ Fits(s.m) /\ Within(log, s)
  BY <1>2, <1>6, DoneFacts DEF Recorded
<1>11. v = ReplayServed(log, virgl, s)
  BY <1>1, <1>4, <1>8, <1>9 DEF After
<1>12. v.count = s.count
  BY <1>11 DEF ReplayServed, Served
<1>13. \A k \in Streams : Reached(log, s, k) \in s.pos[k]..Len(log[k])
  BY <1>2, <1>6, <1>7, <1>12, ServeReads DEF Recorded
<1> HIDE DEF s
<1>14. \A k \in Streams : Reached(log, run, k) \in run.pos[k]..Len(log[k])
  BY <1>2, <1>4, <1>10, <1>13, ServeAlike
<1>15. Alike(u, v)
  BY <1>2, <1>4, <1>10, <1>11, <1>13, ServeAlike
<1>16. run = s => u = v
  BY <1>11
<1>17. u \in Run /\ Fits(u.m) /\ Within(log, u)
  BY <1>2, <1>14, ReplayServedType
<1>18. ~run.dirty => ~u.dirty
  BY <1>2, <1>14, ReplayServedType
<1>19. ~TickDue(virgl, run) => u.nextAlive = run.nextAlive
  BY <1>2, <1>14, ReplayServedType
<1> HIDE DEF u
<1>20. TypeInv'
  <2>1. Len(run'.m.ring) <= RingRoom /\ Len(run'.m.frames) <= FrameRoom
    BY <1>1, <1>17 DEF Fits
  <2>2. \A k \in Logs : run'.pos[k] <= Len(log[k])
    BY <1>1, <1>17 DEF Within
  <2>4. Nothing \in [key : Seq(Nat), uart : Seq(Nat)] /\ Len(Nothing.key) + Len(Nothing.uart) <= IncomingLimit
    <3>1. <<>> \in Seq(Nat) /\ Len(<<>>) = 0
      BY EmptySeq
    <3> QED
      BY <3>1, RunAssumption DEF Nothing
  <2>3. TypeOK'
    BY <1>1, <1>2, <1>17, <2>1, <2>2, <2>4 DEF IInv, TypeInv, TypeOK
  <2> QED
    BY <1>1, <2>3 DEF IInv, TypeInv
<1>21. TrailInv' /\ LogInv'
  BY <1>1, TrailUnchanged, LogUnchanged DEF IInv
<1>22. GpuInv'
  <2>1. ~virgl => Unused(u)
    BY <1>18, <1>19 DEF IInv, GpuInv, Unused, TickDue
  <2> QED
    BY <1>1, <2>1 DEF IInv, GpuInv
<1>23. ReplayInv'
  BY <1>1, <1>4, <1>15, <1>16 DEF ReplayInv, v
<1>24. SavedInv'
  BY <1>1, SavedUnchanged DEF IInv
<1>25. LiveInv' /\ SerialInOrder'
  BY <1>1 DEF LiveInv, SerialInOrder
<1> QED
  BY <1>20, <1>21, <1>22, <1>23, <1>24, <1>25 DEF IInv

LEMMA CountedTo == ASSUME NEW n \in Nat PROVE Cardinality(1..n) = n
<1>1. 1 \in Int /\ n \in Int
  OBVIOUS
<1>2. Cardinality(1..n) = IF 1 > n THEN 0 ELSE n - 1 + 1
  BY <1>1, FS_Interval
<1> QED
  BY <1>2

(* A restored process reads its log from where the snapshot was taken.     *)
LEMMA PosAfterIs ==
  ASSUME log \in Log, NEW b \in Run, Recorded(log, b)
  PROVE  /\ PosAfter(b.count) \in [Logs -> Nat]
         /\ \A k \in Logs : PosAfter(b.count)[k] = IF k \in Streams THEN b.pos[k] ELSE 0
<1>1. ASSUME NEW k \in Streams
      PROVE  b.pos[k] \in Nat /\ Cardinality({i \in 1..Len(log[k]) : log[k][i].at <= b.count}) = b.pos[k]
  <2>1. k \in Logs
    BY StreamsAreLogs
  <2>2. b.pos[k] \in Nat /\ Len(log[k]) \in Nat /\ b.pos[k] <= Len(log[k])
    BY <2>1, PosTypes, LogTypes DEF Recorded, Within
  <2>3. {i \in 1..Len(log[k]) : log[k][i].at <= b.count} = 1..b.pos[k]
    <3>1. \A i \in 1..Len(log[k]) : i <= b.pos[k] <=> log[k][i].at <= b.count
      BY DEF Recorded, StreamsFrom
    <3>2. {i \in 1..Len(log[k]) : log[k][i].at <= b.count} = {i \in 1..Len(log[k]) : i <= b.pos[k]}
      BY <3>1
    <3>3. {i \in 1..Len(log[k]) : i <= b.pos[k]} = 1..b.pos[k]
      BY <2>2
    <3> QED
      BY <3>2, <3>3
  <2>4. Cardinality(1..b.pos[k]) = b.pos[k]
    BY <2>2, CountedTo
  <2> QED
    BY <2>2, <2>3, <2>4
<1> DEFINE p == PosAfter(b.count)
<1>2. p = [k \in Logs |-> IF k \in Streams THEN Cardinality({i \in 1..Len(log[k]) : log[k][i].at <= b.count}) ELSE 0]
  BY DEF PosAfter
<1>3. ASSUME NEW k \in Logs PROVE p[k] = (IF k \in Streams THEN b.pos[k] ELSE 0) /\ p[k] \in Nat
  <2>1. CASE k \in Streams
    <3>1. p[k] = Cardinality({i \in 1..Len(log[k]) : log[k][i].at <= b.count})
      BY <1>2, <2>1
    <3> QED
      BY <1>1, <2>1, <3>1
  <2>2. CASE k \notin Streams
    BY <1>2, <2>2
  <2> QED
    BY <2>1, <2>2
<1>4. p = [k \in Logs |-> p[k]]
  BY <1>2
<1> HIDE DEF p
<1>5. p \in [Logs -> Nat]
  BY <1>3, <1>4
<1> QED
  BY <1>3, <1>5 DEF p

(* The trail of a replay: that of the live run, and where it ended.        *)
LEMMA TrailOver ==
  ASSUME IInv, StartReplay
  PROVE  /\ mode' = "replay" /\ virgl' = virgl /\ log' = log
         /\ trail' \in Seq(Step) /\ Len(trail') = Rounds + 1 /\ Len(trail) \in {Rounds, Rounds + 1}
         /\ \A r \in 1..Len(trail) : trail'[r] = trail[r]
         /\ mode = "replay" => Len(trail) = Rounds + 1
         /\ mode = "live" => Len(trail) = Rounds /\ trail'[Rounds + 1].begun = run
<1>1. mode' = "replay" /\ virgl' = virgl /\ log' = log
  BY DEF StartReplay
<1>2. trail \in Seq(Step) /\ Len(trail) \in Nat /\ run \in Run /\ Rounds \in Nat
  BY RunFacts
<1>3. CASE mode = "replay"
  <2>1. trail' = trail
    BY <1>3 DEF StartReplay
  <2>2. Len(trail) = Rounds + 1
    BY <1>3 DEF IInv, TrailInv
  <2> QED
    BY <1>1, <1>2, <1>3, <2>1, <2>2
<1>4. CASE mode = "live"
  <2> DEFINE e == [begun |-> run, deed |-> "compute", stride |-> 1]
  <2>1. trail' = Append(trail, e) /\ round = Rounds + 1
    BY <1>4 DEF StartReplay
  <2>2. Len(trail) = Rounds
    BY <1>2, <1>4, <2>1 DEF IInv, TrailInv
  <2>3. e \in Step /\ e.begun = run
    BY <1>2 DEF Step, AllDeeds
  <2> HIDE DEF e
  <2>4. /\ Append(trail, e) \in Seq(Step) /\ Len(Append(trail, e)) = Len(trail) + 1
        /\ \A r \in 1..Len(trail) : Append(trail, e)[r] = trail[r]
        /\ Append(trail, e)[Len(trail) + 1] = e
    BY <1>2, <2>3, AppendProperties
  <2> QED
    BY <1>1, <1>2, <1>4, <2>1, <2>2, <2>3, <2>4
<1> QED
  BY <1>3, <1>4 DEF IInv, TypeInv, TypeOK

(* Each of its rounds.                                                     *)
LEMMA TrailOverFacts ==
  ASSUME IInv, StartReplay, NEW r \in 1..(Rounds + 1)
  PROVE  /\ \/ r \in 1..Len(trail) /\ trail'[r] = trail[r]
            \/ mode = "live" /\ at = "round" /\ r = Rounds + 1 /\ r = round /\ ~(r <= Len(trail)) /\ trail'[r].begun = run
         /\ trail'[r].begun \in Run /\ Fits(trail'[r].begun.m) /\ Recorded(log, trail'[r].begun)
         /\ ~virgl => Unused(trail'[r].begun)
<1>1. Rounds \in Nat /\ Len(trail) \in Nat
  BY RunFacts
<1>2. CASE r \in 1..Len(trail)
  <2>1. trail'[r] = trail[r]
    BY <1>2, TrailOver
  <2>2. ~virgl => Unused(trail[r].begun)
    BY <1>2 DEF IInv, GpuInv
  <2> QED
    BY <1>2, <2>1, <2>2, TrailFacts
<1>3. CASE r \notin 1..Len(trail)
  <2>1. mode = "live" /\ r = Rounds + 1 /\ trail'[r].begun = run /\ Len(trail) = Rounds
    <3>1. mode \in {"live", "replay"}
      BY DEF IInv, TypeInv, TypeOK
    <3>2. mode = "live" \/ Len(trail) = Rounds + 1
      BY <3>1, TrailOver
    <3>3. mode = "live"
      BY <1>1, <1>3, <3>2
    <3>4. trail'[Rounds + 1].begun = run /\ Len(trail) = Rounds
      BY <3>3, TrailOver
    <3> QED
      BY <1>1, <1>3, <3>3, <3>4
  <2>2. at = "round" /\ round = Rounds + 1
    BY <2>1 DEF StartReplay
  <2>3. ~virgl => Unused(run)
    BY DEF IInv, GpuInv
  <2> QED
    BY <1>1, <2>1, <2>2, <2>3, RunFacts, LiveFacts
<1> QED
  BY <1>2, <1>3

LEMMA StartReplayKeeps == IInv /\ StartReplay => IInv'
<1> SUFFICES ASSUME IInv, StartReplay PROVE IInv'
  OBVIOUS
<1> DEFINE T == trail'
<1>1. /\ at = "round" /\ at' = at /\ virgl' = virgl /\ log' = log /\ saved' = saved /\ mode' = "replay"
      /\ passed' = run'.count /\ incoming' = Nothing /\ asked' = TRUE /\ handed' = 0 /\ typed' = <<>>
      /\ (mode = "live" => round = Rounds + 1)
  BY DEF StartReplay
<1>2. \/ from' = "start" /\ run' = StartRun /\ round' = 1 /\ backlog' = <<>>
      \/ /\ ~saved.none
         /\ from' = "snapshot" /\ round' = saved.round /\ backlog' = saved.backlog
         /\ run' = [StartRun EXCEPT !.count = saved.count, !.m = saved.m, !.pos = PosAfter(saved.count)]
  BY DEF StartReplay
<1>3. /\ log \in Log /\ virgl \in BOOLEAN /\ run \in Run /\ Len(trail) \in Nat /\ round \in Nat /\ Rounds \in Nat \ {0}
  BY RunFacts
<1>4. /\ T \in Seq(Step) /\ Len(T) = Rounds + 1 /\ Len(trail) \in {Rounds, Rounds + 1}
      /\ \A r \in 1..Len(trail) : T[r] = trail[r]
      /\ mode = "replay" => Len(trail) = Rounds + 1
      /\ mode = "live" => Len(trail) = Rounds /\ T[Rounds + 1].begun = run
  BY TrailOver
<1>5. ASSUME NEW r \in 1..(Rounds + 1)
      PROVE  /\ \/ r \in 1..Len(trail) /\ T[r] = trail[r]
                \/ mode = "live" /\ at = "round" /\ r = Rounds + 1 /\ r = round /\ ~(r <= Len(trail)) /\ T[r].begun = run
             /\ T[r].begun \in Run /\ Fits(T[r].begun.m) /\ Recorded(log, T[r].begun)
             /\ ~virgl => Unused(T[r].begun)
  BY TrailOverFacts
<1> HIDE DEF T
<1>6. 1 \in 1..Len(trail) /\ T[1] = trail[1] /\ T[1].begun = StartRun
  <2>1. 1 \in 1..Len(trail)
    BY <1>3, <1>4
  <2>2. trail # <<>>
    BY <2>1, EmptySeq
  <2> QED
    BY <1>4, <2>1, <2>2 DEF IInv, TrailInv
<1>7. TrailInv'
  <2>1. \A r \in 1..Len(T) : Fits(T[r].begun.m)
    BY <1>4, <1>5
  <2>2. TakenInv'
    <3>1. ASSUME NEW r \in 1..Len(T), r <= Rounds PROVE Taken(T[r])
      <4>1. r \in 1..Len(trail)
        BY <1>3, <1>4, <3>1
      <4> QED
        BY <1>4, <3>1, <4>1 DEF IInv, TrailInv, TakenInv
    <3> QED
      BY <1>1, <3>1 DEF TakenInv, Taken, May, T
  <2>3. ASSUME NEW r \in 1..(Len(T) - 1) PROVE T[r + 1].begun = After(log, virgl, T[r])
    <3>1. r \in 1..Len(trail) /\ T[r] = trail[r] /\ r + 1 \in 1..(Rounds + 1)
      BY <1>3, <1>4
    <3>2. CASE r + 1 \in 1..Len(trail)
      <4>1. r \in 1..(Len(trail) - 1)
        BY <1>3, <3>2
      <4> QED
        BY <1>4, <3>1, <3>2, <4>1 DEF IInv, TrailInv
    <3>3. CASE r + 1 \notin 1..Len(trail)
      <4>1. mode = "live" /\ T[r + 1].begun = run /\ r = Len(trail) /\ at = "round"
        BY <1>3, <1>4, <1>5, <3>1, <3>3
      <4>2. trail # <<>>
        BY <3>1, <4>1, EmptySeq
      <4>3. run = After(log, virgl, trail[r])
        BY <4>1, <4>2 DEF IInv, LiveInv
      <4> QED
        BY <3>1, <4>1, <4>3
    <3> QED
      BY <3>2, <3>3
  <2>4. Len(T) = Rounds + 1 /\ (T # <<>> => T[1].begun = StartRun)
    BY <1>4, <1>6
  <2> QED
    BY <1>1, <2>1, <2>2, <2>3, <2>4 DEF TrailInv, T
<1>8. LogInv'
  <2>1. ASSUME NEW r \in 1..Len(T) PROVE Recorded(log, T[r].begun) /\ (r <= Rounds => Answered(log, T[r]))
    <3>1. r \in 1..(Rounds + 1)
      BY <1>4
    <3>2. ASSUME r <= Rounds PROVE Answered(log, T[r])
      <4>1. r \in 1..Len(trail) /\ T[r] = trail[r]
        BY <1>3, <1>4, <3>1, <3>2
      <4> QED
        BY <3>2, <4>1, TrailFacts
    <3> QED
      BY <1>5, <3>1, <3>2
  <2> QED
    BY <1>1, <2>1 DEF LogInv, T
<1>9. /\ run' \in Run /\ Fits(run'.m) /\ Within(log, run') /\ round' \in 1..(Rounds + 1) /\ backlog' \in Seq(Nat)
      /\ ~virgl => Unused(run')
      /\ Alike(run', T[round'].begun) /\ ((virgl => from' = "start") => run' = T[round'].begun)
      /\ from' \in {"start", "snapshot"}
  <2>1. CASE from' = "start" /\ run' = StartRun /\ round' = 1 /\ backlog' = <<>>
    <3>1. run' \in Run /\ Fits(run'.m) /\ Unused(run')
      BY <2>1, StartType
    <3>2. 1 \in 1..(Rounds + 1) /\ <<>> \in Seq(Nat)
      BY <1>3
    <3>3. run' = T[round'].begun
      BY <1>6, <2>1
    <3>4. Within(log, run')
      BY <1>5, <2>1, <3>2, <3>3 DEF Recorded
    <3> QED
      BY <2>1, <3>1, <3>2, <3>3, <3>4 DEF Alike
  <2>2. CASE /\ ~saved.none
             /\ from' = "snapshot" /\ round' = saved.round /\ backlog' = saved.backlog
             /\ run' = [StartRun EXCEPT !.count = saved.count, !.m = saved.m, !.pos = PosAfter(saved.count)]
    <3>1. saved \in Snapshot
      BY <2>2 DEF IInv, TypeInv, NoSnapshot
    <3>2. saved.m \in Machine /\ saved.count \in Nat /\ saved.round \in 1..(Rounds + 1) /\ saved.backlog \in Seq(Nat)
      BY <3>1 DEF Snapshot
    <3> DEFINE was == T[saved.round].begun
               p == PosAfter(saved.count)
    <3>3. was \in Run /\ Fits(was.m) /\ Recorded(log, was) /\ (~virgl => Unused(was))
      BY <1>5, <3>2
    <3>4. saved.count = was.count /\ Sees(saved.m) = Sees(was.m) /\ (~virgl => saved.m = was.m)
      <4>1. CASE saved.round <= Len(trail)
        <5>1. saved.round \in 1..Len(trail)
          BY <1>3, <3>2, <4>1
        <5>2. T[saved.round] = trail[saved.round]
          BY <1>4, <5>1
        <5> QED
          BY <2>2, <4>1, <5>2 DEF IInv, SavedInv
      <4>2. CASE ~(saved.round <= Len(trail))
        <5>1. mode = "live" /\ saved.round = round
          BY <2>2, <4>2 DEF IInv, SavedInv
        <5>2. T[saved.round].begun = run
          BY <1>1, <1>4, <5>1
        <5> QED
          BY <2>2, <4>2, <5>2 DEF IInv, SavedInv
      <4> QED
        BY <4>1, <4>2
    <3> HIDE DEF was
    <3>5. p \in [Logs -> Nat] /\ \A k \in Logs : p[k] = IF k \in Streams THEN was.pos[k] ELSE 0
      BY <1>3, <3>3, <3>4, PosAfterIs
    <3> HIDE DEF p
    <3>6. /\ run'.count = saved.count /\ run'.m = saved.m /\ run'.pos = p
          /\ run'.dirty = FALSE /\ run'.nextAlive = 0 /\ run' \in Run
      BY <2>2, <3>2, <3>5 DEF StartRun, Run, p
    <3>7. Fits(run'.m)
      BY <3>3, <3>4, <3>6 DEF Fits, Sees
    <3>8. Within(log, run')
      BY <1>3, <3>3, <3>5, <3>6, LogTypes DEF Recorded, Within
    <3>9. Alike(run', was)
      BY <3>4, <3>5, <3>6, StreamsAreLogs DEF Alike
    <3>10. ASSUME ~virgl PROVE run' = was
      <4>1. was.dirty = FALSE /\ was.nextAlive = 0
        BY <3>3, <3>10 DEF Unused, Run
      <4>2. \A k \in Logs : p[k] = was.pos[k]
        <5>1. Len(log["gpu"]) = 0 /\ Len(log["sync"]) = 0
          BY <3>10, EmptySeq DEF IInv, GpuInv
        <5>2. was.pos["gpu"] = 0 /\ was.pos["sync"] = 0
          BY <3>3, <5>1, PosTypes, StreamsAreLogs DEF Recorded, Within
        <5> QED
          BY <3>5, <5>2, StreamsAreLogs DEF Logs
      <4>3. p = was.pos
        BY <3>3, <3>5, <4>2 DEF Run
      <4>4. run'.count = was.count /\ run'.m = was.m /\ run'.pos = was.pos
            /\ run'.dirty = was.dirty /\ run'.nextAlive = was.nextAlive
        BY <3>4, <3>6, <3>10, <4>1, <4>3
      <4> QED
        BY <3>3, <3>6, <4>4 DEF Run
    <3>11. Unused(run')
      BY <3>6 DEF Unused
    <3> QED
      BY <2>2, <3>2, <3>6, <3>7, <3>8, <3>9, <3>10, <3>11 DEF was
  <2> QED
    BY <1>2, <2>1, <2>2
<1>10. TypeInv'
  <2>1. <<>> \in Seq(Nat) /\ Len(<<>>) = 0
    BY EmptySeq
  <2>2. Nothing \in [key : Seq(Nat), uart : Seq(Nat)] /\ Len(Nothing.key) + Len(Nothing.uart) <= IncomingLimit
    BY <2>1, RunAssumption DEF Nothing
  <2>3. run'.count \in Nat /\ Len(run'.m.ring) <= RingRoom /\ Len(run'.m.frames) <= FrameRoom
    BY <1>9 DEF Run, Fits
  <2>4. \A k \in Logs : run'.pos[k] <= Len(log[k])
    BY <1>9 DEF Within
  <2>5. Len(T) <= Rounds + 1 /\ ReplayInputs \in Nat
    BY <1>3, <1>4, RunAssumption
  <2>6. TypeOK'
    <3>1. mode' \in {"live", "replay"} /\ virgl' \in BOOLEAN /\ at' \in {"round", "serve", "save"}
      BY <1>1, <1>3
    <3>2. run' \in Run /\ Len(run'.m.ring) <= RingRoom /\ Len(run'.m.frames) <= FrameRoom
      BY <1>9, <2>3
    <3>3. passed' \in Nat /\ round' \in 1..(Rounds + 1) /\ Len(T) <= Rounds + 1
      BY <1>1, <1>9, <2>3, <2>5
    <3>4. \A k \in Logs : run'.pos[k] <= Len(log'[k])
      BY <1>1, <2>4
    <3>5. \A k \in Logs : \A i, j \in 1..Len(log'[k]) : i < j => log'[k][i].at <= log'[k][j].at
      BY <1>1, RunFacts DEF InOrder
    <3>6. incoming' \in [key : Seq(Nat), uart : Seq(Nat)] /\ Len(incoming'.key) + Len(incoming'.uart) <= IncomingLimit
      BY <1>1, <2>2
    <3>7. backlog' \in Seq(Nat) /\ typed' \in Seq(Nat) /\ asked' \in BOOLEAN /\ handed' \in Nat
      BY <1>1, <1>9, <2>1
    <3>8. handed' <= (IF mode' = "live" THEN HostInputs ELSE ReplayInputs) /\ from' \in {"start", "snapshot"}
      BY <1>1, <1>9, <2>5
    <3> QED
      BY <3>1, <3>2, <3>3, <3>4, <3>5, <3>6, <3>7, <3>8 DEF TypeOK, T
  <2> QED
    BY <1>1, <1>4, <2>6 DEF IInv, TypeInv, T
<1>11. GpuInv'
  <2>1. \A r \in 1..Len(T) : ~virgl => Unused(T[r].begun)
    BY <1>4, <1>5
  <2> QED
    BY <1>1, <1>9, <2>1 DEF IInv, GpuInv, T
<1>12. ReplayInv'
  BY <1>1, <1>9 DEF ReplayInv, T
<1>13. SavedInv'
  <2> SUFFICES ASSUME ~saved.none PROVE SavedInv'
    BY <1>1 DEF SavedInv
  <2>1. saved.round \in 1..(Rounds + 1)
    <3>1. saved \in Snapshot
      BY DEF IInv, TypeInv, NoSnapshot
    <3> QED
      BY <3>1 DEF Snapshot
  <2>2. saved.round <= Len(T)
    BY <1>3, <1>4, <2>1
  <2>3. saved.count = T[saved.round].begun.count /\ Sees(saved.m) = Sees(T[saved.round].begun.m)
        /\ (~virgl => saved.m = T[saved.round].begun.m)
    <3>1. CASE saved.round <= Len(trail)
      <4>1. saved.round \in 1..Len(trail)
        BY <1>3, <2>1, <3>1
      <4> QED
        BY <1>4, <3>1, <4>1 DEF IInv, SavedInv
    <3>2. CASE ~(saved.round <= Len(trail))
      <4>1. mode = "live" /\ saved.round = round
        BY <3>2 DEF IInv, SavedInv
      <4>2. T[saved.round].begun = run
        BY <1>1, <1>4, <4>1
      <4> QED
        BY <3>2, <4>2 DEF IInv, SavedInv
    <3> QED
      BY <3>1, <3>2
  <2> QED
    BY <1>1, <2>2, <2>3 DEF SavedInv, T
<1>14. LiveInv' /\ SerialInOrder'
  BY <1>1 DEF LiveInv, SerialInOrder
<1> QED
  BY <1>7, <1>8, <1>10, <1>11, <1>12, <1>13, <1>14 DEF IInv

(* A round of the live run.                                                *)
LEMMA LiveRoundKeeps == IInv /\ LiveRound => IInv'
<1> SUFFICES ASSUME IInv, LiveRound PROVE IInv'
  OBVIOUS
<1>1. /\ mode = "live" /\ at = "round" /\ round <= Rounds
      /\ passed' = run.count /\ round' = round + 1 /\ at' = "serve"
      /\ mode' = mode /\ virgl' = virgl /\ incoming' = incoming /\ backlog' = backlog /\ handed' = handed
      /\ typed' = typed /\ saved' = saved /\ from' = from
  BY DEF LiveRound
<1> DEFINE answer == Len(log["gpu"]) + 1
<1>2. PICK deed \in Deeds[virgl], s \in Strides, wrote \in BOOLEAN :
        LET blob == IF wrote THEN Len(log["sync"]) + 1 ELSE BlobFor(run.m, deed)
        IN  /\ May(run.m, deed) /\ (wrote => deed \in Syncs \ {"close"})
            /\ log' = [log EXCEPT
                 !["gpu"] = @ \o Entries("command", IF deed \in Commands THEN <<answer>> ELSE <<>>),
                 !["sync"] = @ \o Entries("command", IF wrote THEN <<blob>> ELSE <<>>)]
            /\ run' = Worked(run, deed, s, answer, blob, Ends(log'))
            /\ trail' = Append(trail, [begun |-> run, deed |-> deed, stride |-> s])
            /\ asked' = (asked \/ deed = "prompt")
  BY DEF LiveRound
<1> DEFINE blob == IF wrote THEN Len(log["sync"]) + 1 ELSE BlobFor(run.m, deed)
           ga == IF deed \in Commands THEN <<answer>> ELSE <<>>
           sy == IF wrote THEN <<blob>> ELSE <<>>
           t == [begun |-> run, deed |-> deed, stride |-> s]
           n == log'
<1>3. /\ May(run.m, deed) /\ (wrote => deed \in Syncs \ {"close"})
      /\ n = [log EXCEPT !["gpu"] = @ \o Entries("command", ga), !["sync"] = @ \o Entries("command", sy)]
      /\ run' = Worked(run, deed, s, answer, blob, Ends(n))
      /\ trail' = Append(trail, t) /\ asked' = (asked \/ deed = "prompt")
  BY <1>2
<1>4. /\ log \in Log /\ virgl \in BOOLEAN /\ run \in Run /\ run.m \in Machine /\ run.count \in Nat
      /\ Fits(run.m) /\ InOrder(log) /\ trail \in Seq(Step) /\ Len(trail) \in Nat
      /\ round \in Nat /\ Rounds \in Nat
  BY RunFacts
<1>5. /\ run.pos = Ends(log) /\ Len(trail) = round - 1 /\ Recorded(log, run)
      /\ \A r \in 1..Len(trail) : trail[r].begun.count < run.count /\ Done(log, trail[r]).count <= run.count
      /\ \A k \in Logs : \A i \in 1..Len(log[k]) : log[k][i].at <= run.count
  BY <1>1, LiveFacts
<1>6. /\ "gpu" \in Logs /\ "sync" \in Logs /\ \A k \in Logs : log[k] \in Seq(Entry) /\ Len(log[k]) \in Nat
  BY <1>4, StreamsAreLogs, LogTypes
<1>7. deed \in AllDeeds /\ s \in Nat \ {0}
  BY <1>4, RunAssumption
<1>8. answer \in Nat /\ blob \in Nat \cup {NoBlob} /\ (wrote => blob \in Nat)
  BY <1>4, <1>6, BlobForType
<1>9. ga \in Seq(Nat) /\ sy \in Seq(Nat)
  BY <1>8
<1>10. /\ Len(ga) = (IF deed \in Commands THEN 1 ELSE 0) /\ (deed \in Commands => ga[1] = answer)
       /\ Len(sy) = (IF wrote THEN 1 ELSE 0) /\ (wrote => sy[1] = blob)
  BY <1>8
<1>11. /\ DOMAIN log = Logs /\ n["gpu"] = log["gpu"] \o Entries("command", ga)
       /\ n["sync"] = log["sync"] \o Entries("command", sy)
       /\ \A k \in Logs : k # "gpu" /\ k # "sync" => n[k] = log[k]
       /\ DOMAIN n = Logs /\ n = [k \in Logs |-> n[k]]
  BY <1>3, <1>4, <1>6 DEF Log
<1> HIDE DEF n, ga, sy, answer, blob
<1>12. Extended(log["gpu"], n["gpu"], run.count, "command", ga) /\ Continues(log["gpu"], n["gpu"], run.count)
  <2> DEFINE l == log["gpu"]
             e == n["gpu"]
  <2>1. l \in Seq(Entry) /\ e = l \o Entries("command", ga)
    BY <1>6, <1>11
  <2> HIDE DEF l, e
  <2>2. Extended(l, e, run.count, "command", ga) /\ Continues(l, e, run.count)
    BY <1>4, <1>9, <2>1, Appended
  <2> QED
    BY <2>2 DEF l, e
<1>13. Extended(log["sync"], n["sync"], run.count, "command", sy) /\ Continues(log["sync"], n["sync"], run.count)
  <2> DEFINE l == log["sync"]
             e == n["sync"]
  <2>1. l \in Seq(Entry) /\ e = l \o Entries("command", sy)
    BY <1>6, <1>11
  <2> HIDE DEF l, e
  <2>2. Extended(l, e, run.count, "command", sy) /\ Continues(l, e, run.count)
    BY <1>4, <1>9, <2>1, Appended
  <2> QED
    BY <2>2 DEF l, e
<1>14. \A k \in Streams : k \in Logs /\ k # "gpu" /\ k # "sync" /\ n[k] = log[k]
  BY <1>11, StreamsAreLogs
<1>15. \A k \in Logs : Continues(log[k], n[k], run.count)
  BY <1>6, <1>12, <1>13, <1>14, NotExtended DEF Logs
<1>16. /\ n \in Log /\ Grows(log, n)
       /\ \A k \in Logs : \A i \in (Len(log[k]) + 1)..Len(n[k]) : n[k][i].at = run.count
  <2>1. n = [k \in Logs |-> n[k]]
    BY <1>11
  <2>2. GrowsBy(log, n, run.count)
    BY <1>15, <2>1 DEF GrowsBy
  <2>3. log \in Log
    BY <1>4
  <2>4. n \in Log /\ Grows(log, n) /\ NewAt(log, n, run.count)
    BY <2>2, <2>3, LogGrown
  <2> QED
    BY <2>4 DEF NewAt
<1>19. /\ \A r \in 1..Len(trail) : /\ Recorded(n, trail[r].begun) /\ Answered(n, trail[r])
                                   /\ Done(n, trail[r]) = Done(log, trail[r])
       /\ \A r \in 1..(Len(trail) - 1) : trail[r + 1].begun = After(n, virgl, trail[r])
       /\ trail # <<>> => run = After(n, virgl, trail[Len(trail)])
  <2>1. \A k \in Streams : Len(n[k]) = Len(log[k])
    BY <1>14
  <2>2. \A i \in (Len(log["sync"]) + 1)..Len(n["sync"]) : n["sync"][i].kind = "command"
    BY <1>13 DEF Extended
  <2> QED
    BY <1>1, <1>16, <2>1, <2>2, TrailStays
<1>20. InOrder(n) /\ \A k \in Logs : \A i \in 1..Len(n[k]) : n[k][i].at <= run.count
  BY <1>4, <1>5, <1>16, StaysInOrder
<1>21. ReplayWorked(n, run, deed, s) = run'
  <2>1. \A k \in Streams : Len(n[k]) = Len(log[k])
    BY <1>14
  <2>2. deed \in Commands => Len(n["gpu"]) = Len(log["gpu"]) + 1 /\ n["gpu"][Len(log["gpu"]) + 1].what = answer
    <3>1. deed \in Commands => Len(ga) = 1 /\ 1 \in 1..Len(ga) /\ ga[1] = answer
      BY <1>10
    <3>2. deed \in Commands => Len(n["gpu"]) = Len(log["gpu"]) + 1
      BY <1>12, <3>1 DEF Extended
    <3>3. deed \in Commands => n["gpu"][Len(log["gpu"]) + 1] = [at |-> run.count, kind |-> "command", what |-> answer]
      BY <1>12, <3>1 DEF Extended
    <3> QED
      BY <3>2, <3>3
  <2>3. deed \notin Commands => Len(n["gpu"]) = Len(log["gpu"])
    BY <1>6, <1>10, <1>12 DEF Extended
  <2>4. wrote => /\ deed \in Syncs \ {"close"} /\ Len(n["sync"]) = Len(log["sync"]) + 1
                 /\ n["sync"][Len(log["sync"]) + 1] = [at |-> run.count, kind |-> "command", what |-> blob]
    <3>1. wrote => Len(sy) = 1 /\ 1 \in 1..Len(sy) /\ sy[1] = blob
      BY <1>10
    <3> QED
      BY <1>3, <1>13, <3>1 DEF Extended
  <2>5. ~wrote => Len(n["sync"]) = Len(log["sync"]) /\ blob = BlobFor(run.m, deed)
    BY <1>6, <1>10, <1>13 DEF blob, Extended
  <2>6. ReplayWorked(n, run, deed, s) = Worked(run, deed, s, answer, blob, Ends(n))
    BY <1>4, <1>5, <1>7, <1>16, <2>1, <2>2, <2>3, <2>4, <2>5, RoundLogged
  <2> QED
    BY <1>3, <2>6
<1>22. /\ run' \in Run /\ Fits(run'.m) /\ run'.count = run.count + s /\ run'.pos = Ends(n)
       /\ run'.nextAlive = run.nextAlive /\ (~run.dirty /\ deed # "write" => ~run'.dirty)
       /\ run'.m = Does(run.m, deed, answer, blob)
  <2>1. deed = "post" => run.m.posted < QueueSize
    BY <1>3 DEF May
  <2>2. Ends(n) \in [Logs -> Nat]
    BY <1>16, LogTypes DEF Ends
  <2> DEFINE pos == Ends(n)
  <2>3. pos \in [Logs -> Nat] /\ run' = Worked(run, deed, s, answer, blob, pos)
    BY <1>3, <2>2
  <2> HIDE DEF pos
  <2>4. run' \in Run /\ Fits(run'.m)
    BY <1>4, <1>7, <1>8, <2>1, <2>3, WorkedType
  <2>5. run'.count = run.count + s /\ run'.pos = pos /\ run'.nextAlive = run.nextAlive
    BY <2>3 DEF Worked
  <2>6. ~run.dirty /\ deed # "write" => ~run'.dirty
    BY <2>3 DEF Worked
  <2>7. run'.m = Does(run.m, deed, answer, blob)
    BY <2>3 DEF Worked
  <2> QED
    BY <2>4, <2>5, <2>6, <2>7 DEF pos
<1>23. t \in Step /\ t.begun = run /\ t.deed = deed /\ t.stride = s /\ Done(n, t) = run'
  BY <1>4, <1>7, <1>21 DEF Step, Done
<1> HIDE DEF t
<1> DEFINE T == trail'
<1>24. /\ T \in Seq(Step) /\ Len(T) = Len(trail) + 1 /\ T[Len(T)] = t
       /\ \A r \in 1..Len(trail) : T[r] = trail[r]
  BY <1>3, <1>4, <1>23, AppendProperties
<1> HIDE DEF T
<1>25. ASSUME NEW r \in 1..Len(T)
       PROVE  \/ r \in 1..Len(trail) /\ T[r] = trail[r]
              \/ r = Len(T) /\ r = Len(trail) + 1 /\ T[r] = t
  BY <1>4, <1>24
<1>26. TypeInv'
  <2>1. TypeOK'
    <3>1. mode' \in {"live", "replay"} /\ virgl' \in BOOLEAN /\ at' \in {"round", "serve", "save"}
      BY <1>1, <1>4
    <3>2. run' \in Run /\ Len(run'.m.ring) <= RingRoom /\ Len(run'.m.frames) <= FrameRoom
      BY <1>22 DEF Fits
    <3>3. passed' \in Nat /\ round' \in 1..(Rounds + 1) /\ Len(T) <= Rounds + 1
      BY <1>1, <1>4, <1>5, <1>24
    <3>4. \A k \in Logs : run'.pos[k] <= Len(n[k])
      BY <1>16, <1>22, LogTypes DEF Ends
    <3>5. \A k \in Logs : \A i, j \in 1..Len(n[k]) : i < j => n[k][i].at <= n[k][j].at
      BY <1>20 DEF InOrder
    <3>6. incoming' \in [key : Seq(Nat), uart : Seq(Nat)] /\ Len(incoming'.key) + Len(incoming'.uart) <= IncomingLimit
      BY <1>1 DEF IInv, TypeInv, TypeOK
    <3>7. backlog' \in Seq(Nat) /\ typed' \in Seq(Nat) /\ asked' \in BOOLEAN /\ handed' \in Nat
      BY <1>1, <1>3 DEF IInv, TypeInv, TypeOK
    <3>8. handed' <= (IF mode' = "live" THEN HostInputs ELSE ReplayInputs) /\ from' \in {"start", "snapshot"}
      BY <1>1 DEF IInv, TypeInv, TypeOK
    <3> QED
      BY <3>1, <3>2, <3>3, <3>4, <3>5, <3>6, <3>7, <3>8 DEF TypeOK, T, n
  <2> QED
    BY <1>1, <1>16, <1>24, <2>1 DEF IInv, TypeInv, Log, T, n
<1>27. TrailInv'
  <2>1. Len(T) = round' - 1
    BY <1>1, <1>4, <1>5, <1>24
  <2>2. T # <<>> => T[1].begun = StartRun
    <3>1. CASE trail = <<>>
      <4>1. run = StartRun /\ Len(trail) = 0
        BY <1>1, <3>1, EmptySeq DEF IInv, LiveInv
      <4> QED
        BY <1>23, <1>24, <4>1
    <3>2. CASE trail # <<>>
      <4>1. 1 \in 1..Len(trail)
        BY <1>4, <3>2, EmptySeq
      <4> QED
        BY <1>24, <3>2, <4>1 DEF IInv, TrailInv
    <3> QED
      BY <3>1, <3>2
  <2>3. \A r \in 1..Len(T) : Fits(T[r].begun.m)
    BY <1>4, <1>23, <1>25 DEF IInv, TrailInv
  <2>4. TakenInv'
    <3>1. \A r \in 1..Len(T) : r <= Rounds => Taken(T[r])
      BY <1>3, <1>23, <1>25 DEF IInv, TrailInv, TakenInv, Taken
    <3> QED
      BY <1>1, <3>1 DEF TakenInv, Taken, May, T
  <2>5. ASSUME NEW r \in 1..(Len(T) - 1) PROVE T[r + 1].begun = After(n, virgl, T[r])
    <3>1. r \in 1..Len(trail) /\ T[r] = trail[r] /\ r + 1 \in 1..Len(T)
      BY <1>4, <1>24
    <3>2. CASE r + 1 \in 1..Len(trail)
      <4>1. r \in 1..(Len(trail) - 1)
        BY <1>4, <3>2
      <4> QED
        BY <1>19, <1>24, <3>1, <3>2, <4>1
    <3>3. CASE r + 1 \notin 1..Len(trail)
      <4>1. r = Len(trail) /\ r + 1 = Len(T) /\ trail # <<>>
        BY <1>4, <1>24, <3>1, <3>3, EmptySeq
      <4> QED
        BY <1>19, <1>23, <1>24, <3>1, <4>1
    <3> QED
      BY <3>2, <3>3
  <2> QED
    BY <1>1, <2>1, <2>2, <2>3, <2>4, <2>5 DEF TrailInv, T, n
<1>28. LiveInv'
  <2>1. T # <<>> /\ run' = Done(n, T[Len(T)]) /\ passed' = T[Len(T)].begun.count
    <3>1. Len(T) # 0
      BY <1>4, <1>24
    <3> QED
      BY <1>1, <1>23, <1>24, <3>1, EmptySeq
  <2>2. ASSUME NEW r \in 1..Len(T) PROVE T[r].begun.count < run'.count /\ Done(n, T[r]).count <= run'.count
    <3>1. run.count < run'.count /\ run'.count \in Nat
      BY <1>4, <1>7, <1>22
    <3>2. CASE r \in 1..Len(trail) /\ T[r] = trail[r]
      <4>1. trail[r].begun.count < run.count /\ Done(n, trail[r]).count <= run.count
        BY <1>5, <1>19, <3>2
      <4>2. trail[r].begun.count \in Nat /\ Done(n, trail[r]).count \in Nat
        <5>1. r <= Rounds
          BY <1>1, <1>4, <1>5, <3>2
        <5> DEFINE q == trail[r]
        <5>2. q \in Step /\ Fits(q.begun.m) /\ Recorded(log, q.begun) /\ MayPost(q) /\ q.begun.count \in Nat
          BY <3>2, <5>1, TrailFacts
        <5> HIDE DEF q
        <5>3. Done(log, q).count \in Nat
          BY <1>4, <5>2, DoneFacts DEF Recorded
        <5>4. Done(n, trail[r]) = Done(log, trail[r])
          BY <1>19, <3>2
        <5> QED
          BY <5>2, <5>3, <5>4 DEF q
      <4> QED
        BY <1>4, <3>1, <3>2, <4>1, <4>2
    <3>3. CASE T[r] = t
      BY <1>23, <3>1, <3>3
    <3> QED
      BY <1>25, <3>2, <3>3
  <2>3. ASSUME NEW k \in Logs, NEW i \in 1..Len(n[k]) PROVE n[k][i].at <= run'.count /\ n[k][i].at < run'.count
    <3>1. n[k][i].at \in Nat /\ n[k][i].at <= run.count
      BY <1>16, <1>20, LogTypes
    <3> QED
      BY <1>4, <1>7, <1>22, <3>1
  <2>4. from' = "start"
    BY <1>1 DEF IInv, LiveInv
  <2> QED
    BY <1>1, <1>22, <2>1, <2>2, <2>3, <2>4 DEF LiveInv, T, n
<1>29. LogInv'
  <2>1. ASSUME NEW r \in 1..Len(T) PROVE Recorded(n, T[r].begun) /\ Answered(n, T[r])
    <3>1. CASE r \in 1..Len(trail) /\ T[r] = trail[r]
      BY <1>19, <3>1
    <3>2. CASE T[r] = t
      <4>1. Within(n, run)
        BY <1>4, <1>5, <1>16, GrowsWithin DEF Recorded
      <4>2. StreamsFrom(n, run)
        BY <1>5, <1>14 DEF Recorded, StreamsFrom
      <4>3. SyncsFrom(n, run)
        <5>1. run.pos["sync"] = Len(log["sync"])
          BY <1>5, <1>6 DEF Ends
        <5> QED
          BY <1>13, <5>1 DEF SyncsFrom, Extended, Continues
      <4>4. SyncsAfter(n, run')
        <5>1. Len(n["sync"]) \in Nat /\ run'.pos["sync"] = Len(n["sync"])
          BY <1>6, <1>16, <1>22, LogTypes DEF Ends
        <5> QED
          BY <5>1 DEF SyncsAfter
      <4>5. deed \in Commands => run.pos["gpu"] < Len(n["gpu"])
        <5>1. run.pos["gpu"] = Len(log["gpu"])
          BY <1>5, <1>6 DEF Ends
        <5> QED
          BY <1>6, <1>10, <1>12, <5>1 DEF Extended
      <4> QED
        BY <1>23, <3>2, <4>1, <4>2, <4>3, <4>4, <4>5 DEF Recorded, Answered
    <3> QED
      BY <1>25, <3>1, <3>2
  <2> QED
    BY <2>1 DEF LogInv, T, n
<1>30. GpuInv'
  <2> SUFFICES ASSUME ~virgl PROVE GpuInv'
    BY <1>1 DEF GpuInv
  <2>1. /\ log["gpu"] = <<>> /\ log["sync"] = <<>> /\ Unused(run)
        /\ \A r \in 1..Len(trail) : Unused(trail[r].begun)
    BY DEF IInv, GpuInv
  <2>2. deed \notin Commands /\ deed # "write" /\ ~wrote
    BY <1>3 DEF May, Syncs, Commands
  <2>3. Len(n["gpu"]) = 0 /\ Len(n["sync"]) = 0
    BY <1>10, <1>12, <1>13, <2>1, <2>2, EmptySeq DEF Extended
  <2>4. n["gpu"] = <<>> /\ n["sync"] = <<>>
    BY <1>12, <1>13, <2>3, EmptySeq DEF Continues
  <2>5. Unused(run')
    BY <1>22, <2>1, <2>2 DEF Unused
  <2>6. \A r \in 1..Len(T) : Unused(T[r].begun)
    BY <1>23, <1>25, <2>1
  <2> QED
    BY <2>4, <2>5, <2>6 DEF GpuInv, T, n
<1>31. SavedInv'
  <2> SUFFICES ASSUME ~saved.none PROVE SavedInv'
    BY <1>1 DEF SavedInv
  <2>1. saved.round \in 1..(Rounds + 1)
    <3>1. saved \in Snapshot
      BY DEF IInv, TypeInv, NoSnapshot
    <3> QED
      BY <3>1 DEF Snapshot
  <2>2. CASE saved.round <= Len(trail)
    <3>1. saved.round \in 1..Len(trail) /\ saved.round <= Len(T)
      BY <1>4, <1>24, <2>1, <2>2
    <3>2. T[saved.round] = trail[saved.round]
      BY <1>24, <3>1
    <3> QED
      BY <1>1, <2>2, <3>1, <3>2 DEF IInv, SavedInv, T
  <2>3. CASE ~(saved.round <= Len(trail))
    <3>1. saved.round = round
      BY <2>3 DEF IInv, SavedInv
    <3>2. saved.round = Len(T)
      BY <1>4, <1>5, <1>24, <3>1
    <3>3. saved.round <= Len(T) /\ T[saved.round].begun = run
      BY <1>4, <1>23, <1>24, <3>2
    <3> QED
      BY <1>1, <2>3, <3>3 DEF IInv, SavedInv, T
  <2> QED
    BY <2>2, <2>3
<1>32. ReplayInv'
  BY <1>1 DEF ReplayInv
<1>33. SerialInOrder'
  <2>1. run'.m.read \o run'.m.ring = run.m.read \o run.m.ring
    <3>1. SameSerial(Does(run.m, deed, answer, blob), run.m)
      BY <1>4, <1>7, DoesSerial
    <3> QED
      BY <1>22, <3>1 DEF SameSerial
  <2> QED
    BY <1>1, <2>1 DEF IInv, SerialInOrder
<1> QED
  BY <1>26, <1>27, <1>28, <1>29, <1>30, <1>31, <1>32, <1>33 DEF IInv

(* A live run's input point.                                               *)
LEMMA LiveServeKeeps == IInv /\ LiveServe => IInv'
<1> SUFFICES ASSUME IInv, LiveServe PROVE IInv'
  OBVIOUS
<1> DEFINE waiting == backlog \o incoming.uart
           count == Entering(waiting)
           bytes == SubSeq(waiting, 1, count)
           rest == SubSeq(waiting, count + 1, Len(waiting))
           n == log'
<1>1. /\ mode = "live" /\ at = "serve" /\ InputDue(passed, run.count)
      /\ incoming' = Nothing /\ at' = "save" /\ backlog' = rest
      /\ mode' = mode /\ virgl' = virgl /\ passed' = passed /\ round' = round /\ trail' = trail
      /\ asked' = asked /\ typed' = typed /\ saved' = saved /\ from' = from
  BY SMTT(20) DEF LiveServe
<1>0. mode' = "live" /\ typed' = typed /\ incoming' = Nothing /\ backlog' = rest
  BY <1>1
<1>2. PICK finished \in 0..run.m.posted, frames \in {<<>>, <<handed + 1>>}, wrote \in BOOLEAN :
        LET blob == IF wrote THEN Len(log["sync"]) + 1 ELSE run.m.blob
        IN  /\ handed + Len(frames) <= HostInputs
            /\ wrote => TickDue(virgl, run) /\ run.m.blob # NoBlob
            /\ log' = [log EXCEPT
                 !["key"] = @ \o Entries("key", incoming.key), !["uart"] = @ \o Entries("uart", bytes),
                 !["net"] = @ \o Entries("net", frames),
                 !["snd"] = @ \o Entries("snd", [i \in 1..finished |-> 0]),
                 !["sync"] = @ \o Entries("tick", IF wrote THEN <<blob>> ELSE <<>>)]
            /\ run' = Served(virgl, run, incoming.key, bytes, frames, finished, blob, Ends(log'))
            /\ handed' = handed + Len(frames)
  BY Zenon DEF LiveServe
<1> DEFINE blob == IF wrote THEN Len(log["sync"]) + 1 ELSE run.m.blob
           periods == [i \in 1..finished |-> 0]
           sy == IF wrote THEN <<blob>> ELSE <<>>
           whats == [k \in Streams |-> IF k = "key" THEN incoming.key ELSE IF k = "uart" THEN bytes
                                       ELSE IF k = "net" THEN frames ELSE periods]
<1>3. /\ handed' = handed + Len(frames) /\ handed' <= HostInputs
      /\ wrote => TickDue(virgl, run) /\ run.m.blob # NoBlob
      /\ n = [log EXCEPT
           !["key"] = @ \o Entries("key", incoming.key), !["uart"] = @ \o Entries("uart", bytes),
           !["net"] = @ \o Entries("net", frames), !["snd"] = @ \o Entries("snd", periods),
           !["sync"] = @ \o Entries("tick", sy)]
      /\ run' = Served(virgl, run, incoming.key, bytes, frames, finished, blob, Ends(n))
  BY <1>2
<1>4. /\ log \in Log /\ virgl \in BOOLEAN /\ run \in Run /\ run.m \in Machine /\ run.count \in Nat
      /\ Fits(run.m) /\ InOrder(log) /\ trail \in Seq(Step) /\ Len(trail) \in Nat
      /\ round \in Nat /\ Rounds \in Nat
  BY RunFacts
<1>5. /\ run.pos = Ends(log) /\ Len(trail) = round - 1
      /\ \A r \in 1..Len(trail) : trail[r].begun.count < run.count /\ Done(log, trail[r]).count <= run.count
      /\ \A k \in Logs : \A i \in 1..Len(log[k]) : log[k][i].at <= run.count
  BY <1>1, LiveFacts
<1>6. /\ "gpu" \in Logs /\ "sync" \in Logs /\ \A k \in Logs : log[k] \in Seq(Entry) /\ Len(log[k]) \in Nat
  BY <1>4, StreamsAreLogs, LogTypes
<1>7. /\ trail # <<>> /\ run = Done(log, trail[Len(trail)]) /\ passed = trail[Len(trail)].begun.count
      /\ from = "start"
  BY <1>1 DEF IInv, LiveInv
<1>8. Len(trail) \in 1..Len(trail)
  BY <1>4, <1>7, EmptySeq
<1>9. /\ run.m.ring \in Seq(Nat) /\ run.m.read \in Seq(Nat) /\ run.m.posted \in Nat
      /\ run.m.blob \in Nat \cup {NoBlob} /\ Len(run.m.ring) \in Nat /\ Len(run.m.ring) <= RingRoom /\ RingRoom \in Nat
  <2>1. /\ run.m.ring \in Seq(Nat) /\ run.m.read \in Seq(Nat) /\ run.m.posted \in 0..QueueSize
        /\ run.m.blob \in Nat \cup {NoBlob}
    BY <1>4 DEF Machine
  <2>2. run.m.posted \in Nat
    BY <2>1 DEF QueueSize
  <2>3. Len(run.m.ring) \in Nat
    BY <2>1, LenProperties
  <2>4. Len(run.m.ring) <= RingRoom
    BY <1>4 DEF Fits
  <2>5. RingRoom \in Nat
    BY RunAssumption
  <2> QED
    BY <2>1, <2>2, <2>3, <2>4, <2>5
<1>10. /\ incoming.key \in Seq(Nat) /\ incoming.uart \in Seq(Nat) /\ backlog \in Seq(Nat) /\ typed \in Seq(Nat)
       /\ asked \in BOOLEAN /\ handed \in Nat /\ from \in {"start", "snapshot"} /\ passed \in Nat
       /\ round \in 1..(Rounds + 1) /\ Len(trail) <= Rounds + 1
  BY DEF IInv, TypeInv, TypeOK
<1>11. waiting \in Seq(Nat) /\ Len(waiting) \in Nat /\ Len(waiting) = Len(backlog) + Len(incoming.uart)
  BY <1>10, ConcatProperties, LenProperties
<1>12. count \in 0..Len(waiting) /\ count <= RingRoom - Len(run.m.ring)
  <2> HIDE DEF waiting
  <2>1. RingRoom - Len(run.m.ring) \in Nat
    BY <1>9
  <2>2. CASE asked
    <3>1. count = Lower(RingRoom - Len(run.m.ring), Len(waiting))
      BY <2>2 DEF Entering
    <3> QED
      BY <1>11, <2>1, <3>1 DEF Lower
  <2>3. CASE ~asked
    <3>1. count = 0
      BY <2>3 DEF Entering
    <3> QED
      BY <1>11, <2>1, <3>1
  <2> QED
    BY <2>2, <2>3
<1> HIDE DEF waiting, count
<1>13. /\ bytes \in Seq(Nat) /\ rest \in Seq(Nat) /\ Len(bytes) = count
       /\ bytes \o rest = backlog \o incoming.uart
  <2>1. \A i \in 1..Len(waiting) : waiting[i] \in Nat
    BY <1>11, ElementOfSeq
  <2>2. \A i \in 1..count : waiting[i] \in Nat
    BY <1>11, <1>12, <2>1
  <2>3. \A i \in (count + 1)..Len(waiting) : waiting[i] \in Nat
    BY <1>11, <1>12, <2>1
  <2>4. bytes \in Seq(Nat) /\ rest \in Seq(Nat) /\ Len(bytes) = count
    BY <1>11, <1>12, <2>2, <2>3, SubSeqProperties
  <2>5. bytes \o rest = waiting
    BY <1>11, <1>12, SplitAt
  <2> QED
    BY <2>4, <2>5 DEF waiting
<1>14. /\ frames \in Seq(Nat) /\ Len(frames) \in Nat /\ handed' \in Nat /\ finished \in Nat
       /\ periods \in Seq(Nat) /\ Len(periods) = finished /\ blob \in Nat \cup {NoBlob} /\ (wrote => blob \in Nat)
  <2>1. frames \in Seq(Nat) /\ Len(frames) \in Nat /\ handed' \in Nat
    <3>1. handed + 1 \in Nat
      BY <1>10
    <3>2. frames \in Seq(Nat)
      <4>1. CASE frames = <<>>
        BY <4>1
      <4>2. CASE frames = <<handed + 1>>
        BY <3>1, <4>2
      <4> QED
        BY <4>1, <4>2
    <3>3. Len(frames) \in Nat
      BY <3>2, LenProperties
    <3> QED
      BY <1>3, <1>10, <3>2, <3>3
  <2>2. finished \in Nat
    BY <1>9
  <2>3. periods \in Seq(Nat) /\ Len(periods) = finished
    BY <2>2
  <2> QED
    BY <1>6, <1>9, <2>1, <2>2, <2>3
<1>15. /\ sy \in Seq(Nat) /\ Len(sy) = (IF wrote THEN 1 ELSE 0) /\ (wrote => sy[1] = blob)
  BY <1>14
<1> HIDE DEF bytes, rest, periods, sy, blob, n
<1>16. /\ whats \in [Streams -> Seq(Nat)] /\ whats["key"] = incoming.key /\ whats["uart"] = bytes
       /\ whats["net"] = frames /\ whats["snd"] = periods
  BY <1>10, <1>13, <1>14 DEF Streams
<1>17. /\ \A k \in Streams : n[k] = log[k] \o Entries(k, whats[k])
       /\ n["sync"] = log["sync"] \o Entries("tick", sy) /\ n["gpu"] = log["gpu"]
       /\ DOMAIN n = Logs /\ n = [k \in Logs |-> n[k]]
  <2>1. DOMAIN log = Logs /\ DOMAIN n = Logs /\ n = [k \in Logs |-> n[k]]
    BY <1>3, <1>4 DEF Log
  <2>2. /\ n["key"] = log["key"] \o Entries("key", incoming.key) /\ n["uart"] = log["uart"] \o Entries("uart", bytes)
        /\ n["net"] = log["net"] \o Entries("net", frames) /\ n["snd"] = log["snd"] \o Entries("snd", periods)
        /\ n["sync"] = log["sync"] \o Entries("tick", sy) /\ n["gpu"] = log["gpu"]
    BY <1>3, <2>1 DEF Logs, Streams
  <2> QED
    BY <1>16, <2>1, <2>2 DEF Streams
<1> HIDE DEF whats
<1>18. ASSUME NEW k \in Streams
       PROVE  Extended(log[k], n[k], run.count, k, whats[k]) /\ Continues(log[k], n[k], run.count)
  <2> DEFINE l == log[k]
             e == n[k]
  <2>1. l \in Seq(Entry) /\ e = l \o Entries(k, whats[k]) /\ whats[k] \in Seq(Nat)
    BY <1>6, <1>16, <1>17, StreamsAreLogs
  <2>2. k \in {"key", "uart", "net", "snd", "command", "tick"}
    BY DEF Streams
  <2> HIDE DEF l, e
  <2>3. Extended(l, e, run.count, k, whats[k]) /\ Continues(l, e, run.count)
    BY <1>4, <2>1, <2>2, Appended
  <2> QED
    BY <2>3 DEF l, e
<1>19. Extended(log["sync"], n["sync"], run.count, "tick", sy) /\ Continues(log["sync"], n["sync"], run.count)
  <2> DEFINE l == log["sync"]
             e == n["sync"]
  <2>1. l \in Seq(Entry) /\ e = l \o Entries("tick", sy)
    BY <1>6, <1>17
  <2> HIDE DEF l, e
  <2>2. Extended(l, e, run.count, "tick", sy) /\ Continues(l, e, run.count)
    BY <1>4, <1>15, <2>1, Appended
  <2> QED
    BY <2>2 DEF l, e
<1>20. Continues(log["gpu"], n["gpu"], run.count)
  BY <1>6, <1>17, NotExtended
<1>21. /\ n \in Log /\ Grows(log, n)
       /\ \A k \in Logs : \A i \in (Len(log[k]) + 1)..Len(n[k]) : n[k][i].at = run.count
  <2>1. \A k \in Logs : Continues(log[k], n[k], run.count)
    BY <1>18, <1>19, <1>20 DEF Logs
  <2>2. n = [k \in Logs |-> n[k]]
    BY <1>17
  <2>3. GrowsBy(log, n, run.count)
    BY <2>1, <2>2 DEF GrowsBy
  <2>4. log \in Log
    BY <1>4
  <2>5. n \in Log /\ Grows(log, n) /\ NewAt(log, n, run.count)
    BY <2>3, <2>4, LogGrown
  <2> QED
    BY <2>5 DEF NewAt
<1>22. /\ \A r \in 1..Len(trail) : /\ Recorded(n, trail[r].begun) /\ Answered(n, trail[r])
                                   /\ Done(n, trail[r]) = Done(log, trail[r])
       /\ \A r \in 1..(Len(trail) - 1) : trail[r + 1].begun = After(n, virgl, trail[r])
  BY <1>1, <1>21, TrailStays
<1>23. InOrder(n) /\ \A k \in Logs : \A i \in 1..Len(n[k]) : n[k][i].at <= run.count
  BY <1>4, <1>5, <1>21, StaysInOrder
<1>24. /\ wrote => /\ TickDue(virgl, run) /\ Len(n["sync"]) = Len(log["sync"]) + 1
                   /\ n["sync"][Len(log["sync"]) + 1] = [at |-> run.count, kind |-> "tick", what |-> blob]
       /\ ~wrote => Len(n["sync"]) = Len(log["sync"]) /\ blob = run.m.blob
  <2>1. wrote => Len(sy) = 1 /\ 1 \in 1..Len(sy) /\ sy[1] = blob
    BY <1>15
  <2>2. wrote => Len(n["sync"]) = Len(log["sync"]) + 1
    BY <1>19, <2>1 DEF Extended
  <2>3. wrote => n["sync"][Len(log["sync"]) + 1] = [at |-> run.count, kind |-> "tick", what |-> blob]
    BY <1>19, <2>1 DEF Extended
  <2>4. ~wrote => Len(n["sync"]) = Len(log["sync"]) /\ blob = run.m.blob
    BY <1>6, <1>15, <1>19 DEF blob, Extended
  <2> QED
    BY <1>3, <2>2, <2>3, <2>4
<1>25. ReplayServed(n, virgl, run) = run'
  <2>1. Committed(log, n, run.count, whats)
    BY <1>18 DEF Committed
  <2>2. Written(log, n, run, virgl, blob, wrote)
    BY <1>24 DEF Written
  <2>3. ReplayServed(n, virgl, run)
        = Served(virgl, run, whats["key"], whats["uart"], whats["net"], Len(whats["snd"]), blob, Ends(n))
    <3>1. PICK l \in Log, m \in Log, r \in Run, ws \in [Streams -> Seq(Nat)] :
            l = log /\ m = n /\ r = run /\ ws = whats
      <4>1. log \in Log /\ run \in Run
        BY <1>4
      <4>2. n \in Log
        BY <1>21
      <4> QED
        BY <1>16, <4>1, <4>2
    <3>2. PICK g, b : g = virgl /\ b = blob
      OBVIOUS
    <3>3. /\ r.pos = Ends(l) /\ Len(m["gpu"]) = Len(l["gpu"])
          /\ Committed(l, m, r.count, ws) /\ Written(l, m, r, g, b, wrote)
      BY <1>5, <1>17, <2>1, <2>2, <3>1, <3>2
    <3>4. ReplayServed(m, g, r) = Served(g, r, ws["key"], ws["uart"], ws["net"], Len(ws["snd"]), b, Ends(m))
      BY <3>3, ServeLogged, SMTT(20)
    <3> QED
      BY <3>1, <3>2, <3>4
  <2> QED
    BY <1>3, <1>14, <1>16, <2>3
<1>26. /\ run' \in Run /\ Fits(run'.m) /\ run'.count = run.count /\ run'.pos = Ends(n) /\ (~run.dirty => ~run'.dirty)
       /\ run'.nextAlive = (IF TickDue(virgl, run) THEN run.count + AlivePeriod ELSE run.nextAlive)
       /\ run'.m.read = run.m.read /\ run'.m.ring = Pushed(run.m.ring, bytes)
  <2> DEFINE pos == Ends(n)
  <2>1. pos \in [Logs -> Nat]
    BY <1>21, LogTypes DEF Ends
  <2>2. run' = Served(virgl, run, incoming.key, bytes, frames, finished, blob, pos)
    BY <1>3, SMTT(20)
  <2> HIDE DEF pos
  <2> DEFINE u == Served(virgl, run, incoming.key, bytes, frames, finished, blob, pos)
  <2>5. u \in Run /\ Fits(u.m)
    BY <1>4, <1>10, <1>13, <1>14, <2>1, ServedType
  <2>6. u.count = run.count /\ u.pos = pos /\ u.dirty = (run.dirty /\ ~TickDue(virgl, run))
    BY DEF Served
  <2>7. u.nextAlive = (IF TickDue(virgl, run) THEN run.count + AlivePeriod ELSE run.nextAlive)
    BY DEF Served
  <2>3. u.m.read = run.m.read /\ u.m.ring = Pushed(run.m.ring, bytes)
    BY <1>4 DEF Served, Machine
  <2>4. run' = u
    BY <2>2
  <2> HIDE DEF u
  <2> QED
    BY <2>3, <2>4, <2>5, <2>6, <2>7 DEF pos
<1>27. TypeInv'
  <2>1. TypeOK'
    <3>1. mode' \in {"live", "replay"} /\ virgl' \in BOOLEAN /\ at' \in {"round", "serve", "save"}
      BY <1>1, <1>4
    <3>2. run' \in Run /\ Len(run'.m.ring) <= RingRoom /\ Len(run'.m.frames) <= FrameRoom
      BY <1>26 DEF Fits
    <3>3. passed' \in Nat /\ round' \in 1..(Rounds + 1) /\ Len(trail') <= Rounds + 1
      BY <1>1, <1>10
    <3>4. \A k \in Logs : run'.pos[k] <= Len(n[k])
      BY <1>21, <1>26, LogTypes DEF Ends
    <3>5. \A k \in Logs : \A i, j \in 1..Len(n[k]) : i < j => n[k][i].at <= n[k][j].at
      BY <1>23 DEF InOrder
    <3>6. incoming' \in [key : Seq(Nat), uart : Seq(Nat)] /\ Len(incoming'.key) + Len(incoming'.uart) <= IncomingLimit
      <4>1. incoming' = [key |-> <<>>, uart |-> <<>>] /\ IncomingLimit \in Nat
        BY <1>1, RunAssumption DEF Nothing
      <4>2. <<>> \in Seq(Nat) /\ Len(<<>>) = 0
        OBVIOUS
      <4> QED
        BY <4>1, <4>2
    <3>7. backlog' \in Seq(Nat) /\ typed' \in Seq(Nat) /\ asked' \in BOOLEAN /\ handed' \in Nat
      BY <1>1, <1>10, <1>13, <1>14
    <3>8. handed' <= (IF mode' = "live" THEN HostInputs ELSE ReplayInputs) /\ from' \in {"start", "snapshot"}
      BY <1>1, <1>3, <1>10
    <3> QED
      BY <3>1, <3>2, <3>3, <3>4, <3>5, <3>6, <3>7, <3>8 DEF TypeOK, n
  <2> QED
    BY <1>1, <1>21, <2>1 DEF IInv, TypeInv, Log, n
<1>28. TrailInv'
  <2>1. TakenInv'
    BY <1>1 DEF IInv, TrailInv, TakenInv, Taken, May
  <2>2. /\ Len(trail) = (IF mode = "live" THEN round - 1 ELSE Rounds + 1)
        /\ trail # <<>> => trail[1].begun = StartRun
        /\ \A r \in 1..Len(trail) : Fits(trail[r].begun.m)
    BY DEF IInv, TrailInv
  <2> QED
    BY <1>1, <1>22, <2>1, <2>2 DEF TrailInv, n
<1>29. LiveInv'
  <2>1. run' = After(n, virgl, trail[Len(trail)])
    <3> DEFINE t == trail[Len(trail)]
    <3>1. Done(n, t) = run /\ InputDue(t.begun.count, run.count)
      BY <1>1, <1>7, <1>8, <1>22
    <3> HIDE DEF t
    <3>2. run' = After(n, virgl, t)
      BY <1>25, <3>1 DEF After
    <3> QED
      BY <3>2 DEF t
  <2>2. \A r \in 1..Len(trail) : trail[r].begun.count < run'.count /\ Done(n, trail[r]).count <= run'.count
    BY <1>5, <1>22, <1>26
  <2>3. \A k \in Logs : \A i \in 1..Len(n[k]) : n[k][i].at <= run'.count
    BY <1>23, <1>26
  <2> QED
    BY <1>1, <1>7, <1>26, <2>1, <2>2, <2>3 DEF LiveInv, n
<1>30. LogInv'
  BY <1>1, <1>22 DEF LogInv, n
<1>31. GpuInv'
  <2> SUFFICES ASSUME ~virgl PROVE GpuInv'
    BY <1>1 DEF GpuInv
  <2>1. /\ log["gpu"] = <<>> /\ log["sync"] = <<>> /\ Unused(run)
        /\ \A r \in 1..Len(trail) : Unused(trail[r].begun)
    BY DEF IInv, GpuInv
  <2>2. ~TickDue(virgl, run)
    BY DEF TickDue
  <2>3. Len(n["sync"]) = 0
    BY <1>24, <2>1, <2>2
  <2>4. n["gpu"] = <<>> /\ n["sync"] = <<>>
    BY <1>17, <1>19, <2>1, <2>3, EmptySeq DEF Continues
  <2>5. Unused(run')
    BY <1>26, <2>1, <2>2 DEF Unused
  <2>6. log'["gpu"] = <<>> /\ log'["sync"] = <<>>
    BY <2>4 DEF n
  <2> QED
    BY <1>1, <2>1, <2>5, <2>6 DEF GpuInv
<1>32. SavedInv'
  BY <1>1, SavedUnchanged DEF IInv
<1>33. ReplayInv'
  <2>1. mode' = "live"
    BY <1>0, SMTT(20)
  <2> QED
    BY <2>1 DEF ReplayInv
<1>34. SerialInOrder'
  <2>1. run.m.read \o run.m.ring \o backlog \o incoming.uart = typed
    BY <1>1 DEF IInv, SerialInOrder
  <2>2. run.m.read \o Pushed(run.m.ring, bytes) \o rest \o <<>> = run.m.read \o run.m.ring \o backlog \o incoming.uart
    <3>1. Len(bytes) <= RingRoom - Len(run.m.ring)
      BY <1>12, <1>13
    <3>2. bytes \o rest = backlog \o incoming.uart
      BY <1>13
    <3>3. Enters(run.m.read, run.m.ring, backlog, incoming.uart, bytes, rest)
      BY <1>9, <1>10, <1>13, <3>1, <3>2 DEF Enters
    <3>4. Kept(run.m.read, run.m.ring, backlog, incoming.uart, bytes, rest)
      BY <3>3, ServeSerial
    <3> QED
      BY <3>4 DEF Kept
  <2>3. run'.m.read \o run'.m.ring \o backlog' \o incoming'.uart
        = run.m.read \o Pushed(run.m.ring, bytes) \o rest \o <<>>
    BY <1>0, <1>26 DEF Nothing
  <2> QED
    BY <1>0, <2>1, <2>2, <2>3 DEF SerialInOrder
<1> QED
  BY <1>27, <1>28, <1>29, <1>30, <1>31, <1>32, <1>33, <1>34 DEF IInv

(* Every step keeps the invariant.                                         *)
LEMMA StutterKeeps == IInv /\ UNCHANGED vars => IInv'
<1> SUFFICES ASSUME IInv, UNCHANGED vars PROVE IInv'
  OBVIOUS
<1>1. /\ mode' = mode /\ virgl' = virgl /\ at' = at /\ run' = run /\ passed' = passed /\ round' = round
      /\ trail' = trail /\ log' = log /\ incoming' = incoming /\ backlog' = backlog /\ asked' = asked
      /\ handed' = handed /\ typed' = typed /\ saved' = saved /\ from' = from
  BY DEF vars, host
<1>2. TypeInv'
  BY <1>1 DEF IInv, TypeInv, TypeOK
<1>3. TrailInv' /\ LogInv' /\ GpuInv'
  BY <1>1, TrailUnchanged, LogUnchanged, GpuUnchanged DEF IInv
<1>4. LiveInv'
  BY <1>1 DEF IInv, LiveInv
<1>5. ReplayInv'
  BY <1>1 DEF IInv, ReplayInv
<1>6. SavedInv'
  BY <1>1 DEF IInv, SavedInv
<1>7. SerialInOrder'
  BY <1>1 DEF IInv, SerialInOrder
<1> QED
  BY <1>2, <1>3, <1>4, <1>5, <1>6, <1>7 DEF IInv

(* The inductive invariant holds of every run, live or replayed.           *)
THEOREM Invariant == Spec => []IInv
<1>1. Init => IInv
  BY InitHolds
<1>2. IInv /\ [Next]_vars => IInv'
  <2> SUFFICES ASSUME IInv, [Next]_vars PROVE IInv'
    OBVIOUS
  <2>1. CASE Submit
    BY <2>1, SubmitKeeps
  <2>2. CASE LiveRound
    BY <2>2, LiveRoundKeeps
  <2>3. CASE LiveServe
    BY <2>3, LiveServeKeeps
  <2>4. CASE ReplayRound
    BY <2>4, ReplayRoundKeeps
  <2>5. CASE ReplayServe
    BY <2>5, ReplayServeKeeps
  <2>6. CASE NothingToServe
    BY <2>6, NothingToServeKeeps
  <2>7. CASE SaveSnapshot
    BY <2>7, SaveSnapshotKeeps
  <2>8. CASE StartReplay
    BY <2>8, StartReplayKeeps
  <2>9. CASE UNCHANGED vars
    BY <2>9, StutterKeeps
  <2> QED
    BY <2>1, <2>2, <2>3, <2>4, <2>5, <2>6, <2>7, <2>8, <2>9 DEF Next
<1> QED
  BY <1>1, <1>2, PTL DEF Spec

-------------------------------------------------------------------------------
(* Every variable keeps its type, the ring and the queue of frames their   *)
(* limits, the log its order, and the lists of what the host asks for      *)
(* theirs (TypeOK).                                                        *)
THEOREM TypeCorrect == Spec => []TypeOK
<1>1. IInv => TypeOK
  BY DEF IInv, TypeInv
<1> QED
  BY <1>1, Invariant, PTL

(* Every serial byte the live run took from its host is in the guest, the  *)
(* ring, the backlog or the list, once and in the order it came            *)
(* (service_input, try_push_rx).                                           *)
THEOREM SerialCorrect == Spec => []SerialInOrder
<1>1. IInv => SerialInOrder
  BY DEF IInv
<1> QED
  BY <1>1, Invariant, PTL

(* A replay goes through the machines of the run it replays, whatever the  *)
(* host of either asks for and whenever, for runs of any length: from the  *)
(* start in every way, from a snapshot in every way on a machine without a *)
(* 3D GPU, and but for the GPU on one with it (service_input, the logs'    *)
(* replay_next, SaveState::restore).                                       *)
THEOREM ReplaysExact == Spec => []ReplayExact
<1>1. ReplayInv => ReplayExact
  BY DEF ReplayInv, ReplayExact, Alike
<1>2. IInv => ReplayExact
  BY <1>1 DEF IInv
<1> QED
  BY <1>2, Invariant, PTL
=============================================================================
