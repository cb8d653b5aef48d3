--------------------------------- MODULE Virtio ---------------------------------
(***************************************************************************)
(* A virtio device and its driver (src/virtio/): the rings of the MMIO     *)
(* transport, and what the network card, the input devices and the sound   *)
(* card do over them.                                                      *)
(*                                                                         *)
(* A device works in three ways.  Chains that ask for something are        *)
(* answered in the notify ("take": also the block and GPU devices').       *)
(* Chains to be filled wait in the ring for something to fill them with    *)
(* ("fill").  Periods of sound are taken at the notify and held until the  *)
(* host has played or recorded them, the stream is released or the device  *)
(* is reset ("hold").                                                      *)
(*                                                                         *)
(* The device runs on the CPU thread, in an access of the guest's or at an *)
(* input point: the guest stands still while it does.  The driver is the   *)
(* guest's, and external: it posts, notifies, and on an interrupt reads    *)
(* the status, acknowledges it and only then looks at the rings.  What a   *)
(* chain asks for is kept with its head.  A snapshot saves all of this.    *)
(***************************************************************************)
EXTENDS Integers, SequencesExt

CONSTANTS
  Devices,   \* of DeviceKinds
  Streams,   \* of the sound card: {"tx"}, {"rx"} or both
  Wrap,      \* 2^16, where the positions of a queue begin again
  Size,      \* queue_size, of each queue
  Room,      \* RX_LIMIT, and the limit of events
  Items      \* how many frames or events the host makes

DeviceKinds == {"net", "input", "snd"}
Queue == {"receive", "transmit", "event", "statusq", "control", "tx", "rx"}
Requests == {"set_params", "prepare", "start", "stop", "release"}
States == {"Idle", "Ready", "Prepared", "Running", "Stopped"}

ASSUME VirtioAssumption ==
  /\ Devices \subseteq DeviceKinds /\ Streams \subseteq {"tx", "rx"}
  /\ Size \in [Queue -> Nat \ {0}]
  /\ Wrap \in [Queue -> Nat] /\ \A q \in Queue : Size[q] < Wrap[q] /\ Wrap[q] % Size[q] = 0
  /\ {Room, Items} \subseteq Nat \ {0}

None == -1
Heads(q) == 0..(Size[q] - 1)

VARIABLES
  device,      \* which it is
  ready,       \* the driver has set the queues up
  lastAvail,   \* last_avail of each queue
  interrupting,\* interrupt_status, and whether the APLIC's source is asserted
  doing,       \* the queue whose notify or pump runs, "point" or "none"
  hand,        \* the chain in hand
  completed,   \* the local of that name
  waiting,     \* rx_pending or events
  periods,     \* tx and rx: the heads held
  stream,      \* the state of each stream
  rings,       \* guest memory: of each queue [availIdx, avail, usedIdx, used]
  chain,       \* what is in the buffers of each head
  lastUsed, owed, handler,   \* the driver: how far it has looked, whether it
               \* has yet to notify, and what its interrupt handler is about
  came, got, lost   \* items made, read by the driver, and given up

deviceVars == <<ready, lastAvail, interrupting, waiting, periods, stream>>
working == <<doing, hand, completed>>
driver == <<chain, lastUsed, owed, handler>>
history == <<came, got, lost>>
vars == <<device, deviceVars, working, rings, driver, history>>

KindOf == [receive |-> "fill", transmit |-> "take", event |-> "fill", statusq |-> "take",
           control |-> "take", tx |-> "hold", rx |-> "hold"]
Queues == CASE device = "net"   -> {"receive", "transmit"}
            [] device = "input" -> {"event", "statusq"}
            [] device = "snd"   -> {"control"} \cup Streams
Fillable == {q \in Queues : KindOf[q] = "fill"}

(* What a driver may post: the good, and what a device refuses.            *)
Good == <<"good">>
Bad == <<"bad">>
Contents(q) == CASE q \in {"event", "tx", "rx"} -> {Good, Bad}
                 [] q = "control" -> Requests \X Streams
                 [] OTHER -> {Good}

-------------------------------------------------------------------------------
Blank == [head |-> None, item |-> None, told |-> FALSE]
FreshRings == [q \in Queue |-> [availIdx |-> 0, avail |-> [i \in Heads(q) |-> 0], usedIdx |-> 0,
                                used |-> [i \in Heads(q) |-> Blank]]]
Zeros == [q \in Queue |-> 0]
NoChains == [q \in Queue |-> [h \in Heads(q) |-> Good]]

Init ==
  /\ device \in Devices
  /\ ready = FALSE /\ lastAvail = Zeros /\ interrupting = [status |-> FALSE, source |-> FALSE]
  /\ doing = "none" /\ hand = None /\ completed = FALSE
  /\ waiting = <<>> /\ periods = [s \in Streams |-> <<>>] /\ stream = [s \in Streams |-> "Idle"]
  /\ rings = FreshRings
  /\ chain = NoChains /\ lastUsed = Zeros
  /\ owed = [q \in Queue |-> FALSE] /\ handler = "idle"
  /\ came = 0 /\ got = <<>> /\ lost = {}

-------------------------------------------------------------------------------
(* The rings.                                                              *)
Ahead(q, to, from) == (to - from) % Wrap[q]

Offered(q) == [i \in 1..Ahead(q, rings[q].availIdx, lastAvail[q]) |->
                 rings[q].avail[((lastAvail[q] + i - 1) % Wrap[q]) % Size[q]]]
Returned(q) == [i \in 1..Ahead(q, rings[q].usedIdx, lastUsed[q]) |->
                  rings[q].used[((lastUsed[q] + i - 1) % Wrap[q]) % Size[q]]]
InHand(q) == IF doing = q /\ hand # None THEN <<hand>> ELSE <<>>
Held(q) == (IF q \in Streams THEN periods[q] ELSE <<>>) \o InHand(q)

ReturnedHeads(q) == [i \in DOMAIN Returned(q) |-> Returned(q)[i].head]

(* The heads the driver has.                                               *)
Free(q) == Heads(q) \ (Range(Offered(q)) \cup Range(Held(q)) \cup Range(ReturnedHeads(q)))

HasChain(q) == ready /\ lastAvail[q] # rings[q].availIdx

(* A mutant of Complete: the slot is the device's own position's.          *)
CompleteAtTaken(q, head, item, told) ==
  rings' = [rings EXCEPT ![q].used[lastAvail[q] % Size[q]] = [head |-> head, item |-> item, told |-> told],
                         ![q].usedIdx = (@ + 1) % Wrap[q]]

(* complete().  `told` says that an interrupt follows.                     *)
Complete(q, head, item, told) ==
  rings' = [rings EXCEPT ![q].used[rings[q].usedIdx % Size[q]] = [head |-> head, item |-> item, told |-> told],
                         ![q].usedIdx = (@ + 1) % Wrap[q]]

Interrupt == interrupting' = [status |-> TRUE, source |-> TRUE]

-------------------------------------------------------------------------------
(* The device, in a notify or a pump: chain after chain.                   *)

(* A mutant of Works: the pump hands over one item.                        *)
WorksOnce(q) == HasChain(q) /\ ~completed /\ (q \in Fillable => waiting # <<>>)

Works(q) == HasChain(q) /\ (q \in Fillable => waiting # <<>>)

NextChain ==
  /\ doing \in Queues /\ hand = None /\ Works(doing)
  /\ hand' = rings[doing].avail[lastAvail[doing] % Size[doing]]
  /\ lastAvail' = [lastAvail EXCEPT ![doing] = (@ + 1) % Wrap[doing]]
  /\ UNCHANGED <<device, ready, interrupting, doing, completed, waiting, periods, stream,
                 rings, driver, history>>

Asked == chain[doing][hand]

(* Transmit, drain_statusq; the block and GPU devices answer like this.    *)
Answer ==
  /\ doing \in Queues \ {"control"} /\ hand # None /\ KindOf[doing] = "take"
  /\ Complete(doing, hand, None, TRUE)
  /\ hand' = None /\ completed' = TRUE
  /\ UNCHANGED <<device, deviceVars, doing, driver, history>>

(* A mutant of Fill: the event is taken before the buffer is looked at.    *)
FillTakesFirst ==
  /\ doing \in Fillable /\ hand # None
  /\ Complete(doing, hand, IF Asked = Good THEN waiting[1] ELSE None, TRUE)
  /\ waiting' = Tail(waiting)
  /\ hand' = None /\ completed' = TRUE
  /\ UNCHANGED <<device, ready, lastAvail, interrupting, periods, stream, doing, driver, history>>

(* Both pumps.  A buffer that cannot hold an event goes back empty, and    *)
(* the event stays.                                                        *)
Fill ==
  /\ doing \in Fillable /\ hand # None
  /\ IF Asked = Good
     THEN Complete(doing, hand, waiting[1], TRUE) /\ waiting' = Tail(waiting)
     ELSE Complete(doing, hand, None, TRUE) /\ UNCHANGED waiting
  /\ hand' = None /\ completed' = TRUE
  /\ UNCHANGED <<device, ready, lastAvail, interrupting, periods, stream, doing, driver, history>>

(* VirtioSnd::take_io.  What is malformed, or for the wrong stream, is     *)
(* returned without an interrupt.                                          *)
TakeIo ==
  /\ doing \in Streams /\ doing \in Queues /\ hand # None
  /\ IF Asked = Good
     THEN periods' = [periods EXCEPT ![doing] = Append(@, hand)] /\ UNCHANGED rings
     ELSE Complete(doing, hand, None, FALSE) /\ UNCHANGED periods
  /\ hand' = None
  /\ UNCHANGED <<device, ready, lastAvail, interrupting, waiting, stream, doing, completed, driver, history>>

(* VirtioSnd::request: the state a request leaves a stream in.             *)
After(request, s) ==
  CASE request = "set_params" /\ s # "Running" -> "Ready"
    [] request = "prepare" /\ s \notin {"Idle", "Running"} -> "Prepared"
    [] request = "start" /\ s \in {"Prepared", "Stopped"} -> "Running"
    [] request = "stop" /\ s = "Running" -> "Stopped"
    [] request = "release" /\ s \notin {"Idle", "Running"} -> "Ready"
    [] OTHER -> s

Releases(r) == r[1] = "release" /\ stream[r[2]] \notin {"Idle", "Running"}

(* VirtioSnd::flush, before a release is answered: one period after        *)
(* another goes back, and an interrupt follows the last.                   *)
Flush ==
  /\ doing = "control" /\ hand # None /\ Releases(Asked)
  /\ LET s == Asked[2]
     IN  /\ periods[s] # <<>>
         /\ Complete(s, periods[s][1], None, TRUE)
         /\ periods' = [periods EXCEPT ![s] = Tail(@)]
         /\ IF Len(periods[s]) = 1 THEN Interrupt ELSE UNCHANGED interrupting
  /\ UNCHANGED <<device, ready, lastAvail, waiting, stream, working, driver, history>>

Control ==
  /\ doing = "control" /\ hand # None
  /\ Releases(Asked) => periods[Asked[2]] = <<>>
  /\ stream' = [stream EXCEPT ![Asked[2]] = After(Asked[1], @)]
  /\ Complete(doing, hand, None, TRUE)
  /\ hand' = None /\ completed' = TRUE
  /\ UNCHANGED <<device, ready, lastAvail, interrupting, waiting, periods, doing, driver, history>>

Done ==
  /\ doing \in Queues /\ hand = None /\ ~Works(doing)
  /\ IF completed THEN Interrupt ELSE UNCHANGED interrupting
  /\ doing' = "none" /\ completed' = FALSE
  /\ UNCHANGED <<device, ready, lastAvail, hand, waiting, periods, stream, rings, driver, history>>

-------------------------------------------------------------------------------
(* At an input point.                                                      *)

(* A mutant of Arrives: there is no limit.                                 *)
ArrivesUnlimited ==
  /\ came < Items /\ came' = came + 1
  /\ waiting' = Append(waiting, came') /\ lost' = lost
  /\ UNCHANGED <<device, ready, lastAvail, interrupting, periods, stream, hand, completed,
                 rings, driver, got>>

(* What is queued past the limit costs the oldest.                         *)
Arrives ==
  /\ came < Items /\ came' = came + 1
  /\ waiting' = Append(IF Len(waiting) >= Room THEN Tail(waiting) ELSE waiting, came')
  /\ lost' = IF Len(waiting) >= Room THEN lost \cup {waiting[1]} ELSE lost
  /\ UNCHANGED <<device, ready, lastAvail, interrupting, periods, stream, hand, completed,
                 rings, driver, got>>

(* VirtioNet::receive pumps at once; of the input devices' events, any     *)
(* number may come before Memory::pump_input.                              *)
Receive == device = "net" /\ doing = "none" /\ Arrives /\ doing' = "receive"
Push == device = "input" /\ doing \in {"none", "point"} /\ Arrives /\ doing' = "point"
PumpInput ==
  /\ doing = "point" /\ doing' = "event"
  /\ UNCHANGED <<device, deviceVars, hand, completed, rings, driver, history>>

(* A mutant of Finish: no interrupt.                                       *)
FinishSilently(s) ==
  /\ device = "snd" /\ doing = "none" /\ stream[s] = "Running" /\ periods[s] # <<>>
  /\ Complete(s, periods[s][1], None, TRUE)
  /\ periods' = [periods EXCEPT ![s] = Tail(@)]
  /\ UNCHANGED <<device, ready, lastAvail, interrupting, waiting, stream, working, driver, history>>

(* VirtioSnd::finish_tx, finish_rx: the host has played or recorded one.   *)
Finish(s) ==
  /\ device = "snd" /\ doing = "none" /\ stream[s] = "Running" /\ periods[s] # <<>>
  /\ Complete(s, periods[s][1], None, TRUE)
  /\ periods' = [periods EXCEPT ![s] = Tail(@)]
  /\ Interrupt
  /\ UNCHANGED <<device, ready, lastAvail, waiting, stream, working, driver, history>>

-------------------------------------------------------------------------------
(* The driver.                                                             *)
SetUp ==
  /\ doing = "none" /\ ~ready /\ ready' = TRUE
  /\ UNCHANGED <<device, lastAvail, interrupting, waiting, periods, stream, working,
                 rings, driver, history>>

Post(q) ==
  /\ doing = "none" /\ ready
  /\ \E h \in Free(q), c \in Contents(q) :
       /\ rings' = [rings EXCEPT ![q].avail[rings[q].availIdx % Size[q]] = h,
                                 ![q].availIdx = (@ + 1) % Wrap[q]]
       /\ chain' = [chain EXCEPT ![q][h] = c]
  /\ owed' = [owed EXCEPT ![q] = TRUE]
  /\ UNCHANGED <<device, deviceVars, working, lastUsed, handler, history>>

(* Its write to QUEUE_NOTIFY.                                              *)
Notify(q) ==
  /\ doing = "none" /\ owed[q]
  /\ owed' = [owed EXCEPT ![q] = FALSE] /\ doing' = q
  /\ UNCHANGED <<device, deviceVars, hand, completed, rings, chain, lastUsed, handler, history>>

Claim ==
  /\ doing = "none" /\ handler = "idle" /\ interrupting.source
  /\ interrupting' = [interrupting EXCEPT !.source = FALSE] /\ handler' = "claimed"
  /\ UNCHANGED <<device, ready, lastAvail, waiting, periods, stream, working, rings, chain,
                 lastUsed, owed, history>>

ReadStatus ==
  /\ doing = "none" /\ handler = "claimed"
  /\ handler' = IF interrupting.status THEN "read" ELSE "idle"
  /\ UNCHANGED <<device, deviceVars, working, rings, chain, lastUsed, owed, history>>

(* INTERRUPT_ACK of the bit it read.                                       *)
Acknowledge ==
  /\ doing = "none" /\ handler = "read" /\ handler' = "acked"
  /\ interrupting' = [interrupting EXCEPT !.status = FALSE]
  /\ UNCHANGED <<device, ready, lastAvail, waiting, periods, stream, working, rings, chain,
                 lastUsed, owed, history>>

Reap(q) ==
  /\ doing = "none" /\ handler = "acked" /\ Returned(q) # <<>>
  /\ lastUsed' = [lastUsed EXCEPT ![q] = (@ + 1) % Wrap[q]]
  /\ got' = IF Returned(q)[1].item # None THEN Append(got, Returned(q)[1].item) ELSE got
  /\ chain' = [chain EXCEPT ![q][Returned(q)[1].head] = Good]
  /\ rings' = [rings EXCEPT ![q].used[lastUsed[q] % Size[q]] = Blank]
  /\ UNCHANGED <<device, deviceVars, working, owed, handler, came, lost>>

Handled ==
  /\ doing = "none" /\ handler = "acked" /\ \A q \in Queues : Returned(q) = <<>>
  /\ handler' = "idle"
  /\ UNCHANGED <<device, deviceVars, working, rings, chain, lastUsed, owed, history>>

(* STATUS = 0: the queues and what the device holds are forgotten, but for *)
(* the input devices' events; the APLIC's source stays as it is.  The      *)
(* driver gives up its rings, and sets up new ones.                        *)
Reset ==
  /\ doing = "none" /\ handler = "idle" /\ ready /\ ready' = FALSE
  /\ lastAvail' = Zeros /\ interrupting' = [interrupting EXCEPT !.status = FALSE]
  /\ waiting' = IF device = "net" THEN <<>> ELSE waiting
  /\ periods' = [s \in Streams |-> <<>>] /\ stream' = [s \in Streams |-> "Idle"]
  /\ rings' = FreshRings /\ lastUsed' = Zeros /\ owed' = [q \in Queue |-> FALSE]
  /\ lost' = 1..came \ (Range(got) \cup Range(waiting'))
  /\ chain' = NoChains
  /\ UNCHANGED <<device, working, handler, came, got>>

-------------------------------------------------------------------------------
DeviceStep == NextChain \/ Answer \/ Fill \/ TakeIo \/ Flush \/ Control \/ Done \/ PumpInput
Handler == Claim \/ ReadStatus \/ Acknowledge \/ Handled \/ \E q \in Queues : Reap(q)

Next == \/ DeviceStep \/ Receive \/ Push \/ \E s \in Streams : Finish(s)
        \/ Handler \/ SetUp \/ Reset \/ \E q \in Queues : Post(q) \/ Notify(q)

Spec == Init /\ [][Next]_vars

-------------------------------------------------------------------------------
Positions(q) == 0..(Wrap[q] - 1)

TypeOK ==
  /\ device \in Devices /\ doing \in Queues \cup {"none", "point"}
  /\ stream \in [Streams -> States] /\ handler \in {"idle", "claimed", "read", "acked"}
  /\ Len(waiting) <= Room
  /\ \A q \in Queues :
       /\ hand # None /\ doing = q => hand \in Heads(q)
       /\ {rings[q].availIdx, rings[q].usedIdx, lastAvail[q], lastUsed[q]} \subseteq Positions(q)
       /\ ready => Len(Offered(q)) + Len(Held(q)) + Len(Returned(q)) <= Size[q]

(* What comes for the guest reaches it in order, once, and only what the   *)
(* full queue gave up or a reset found is missing (VirtioNet::pump,        *)
(* VirtioInput::pump; a buffer that could not take an event loses none).   *)
Ascending(s) == \A i, j \in DOMAIN s : i < j /\ s[i] # None /\ s[j] # None => s[i] < s[j]
ReturnedItems(q) == [i \in DOMAIN Returned(q) |-> Returned(q)[i].item]
UnreadItems == IF ready /\ device # "snd" THEN ReturnedItems(CHOOSE q \in Fillable : TRUE) ELSE <<>>
NoneTwiceNoneMissing ==
  LET all == got \o UnreadItems \o waiting
  IN  Ascending(all) /\ Range(all) \ {None} = 1..came \ lost

(* While the device is idle, what it could work on is something it is yet  *)
(* to be told of: no chain stays in a ring, with something to fill it      *)
(* with, that no notify or input point will look at (notify, pump).        *)
NoneLeftBehind ==
  doing = "none" => \A q \in Queues : Works(q) => owed[q]

(* While the device is idle, a driver that has not seen all that was       *)
(* returned has an interrupt coming that will make it look: the status     *)
(* bit is not acknowledged away under it (interrupt(), INTERRUPT_ACK).     *)
(* Periods take_io refuses come back without one.                          *)
Told(q) == \E i \in DOMAIN Returned(q) : Returned(q)[i].told
WillHear == \/ handler \in {"read", "acked"}
            \/ interrupting.status /\ (interrupting.source \/ handler = "claimed")
NoneUnheard ==
  doing = "none" /\ ready => \A q \in Queues : Told(q) => WillHear

(* The rings keep the promise of Chains: each chain is taken once, in      *)
(* order, and given back once (pop, complete).                             *)
OfferedNow(q) == IF ready THEN Offered(q) ELSE <<>>
ReturnedNow(q) == IF ready THEN ReturnedHeads(q) ELSE <<>>
C == INSTANCE Chains WITH Chain <- [q \in Queue |-> Heads(q)],
                          offered <- [q \in Queue |-> OfferedNow(q)],
                          held <- [q \in Queue |-> Held(q)],
                          returned <- [q \in Queue |-> ReturnedNow(q)]
ImplementsChains == C!Spec
=================================================================================
