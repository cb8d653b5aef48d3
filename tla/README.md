# DoomV in TLA+

DoomV (`src/src/`) is an RVA23S64 RISC-V emulator that boots bare-metal DOOM,
OpenSBI with Linux, and Ubuntu, on one hart or up to 256, and is lock-stepped
against the Sail model. Its own promise, on top of the architecture's, is that
a run is deterministic: time is counted in steps, input enters at step counts,
and whatever is remembered to make it fast changes nothing a guest can see.

This directory models the parts of it where state is shared, remembered or
interleaved, checks them with TLC on small instances, and proves the main
results with TLAPS for every instance. Paths below are relative to `src/src/`.

## 1. The system

| Component | State | Operations | Interacts with |
|---|---|---|---|
| Rounds (`doom_system.cpp`: `run_round`, `hart_slot`, `begin_wait`, `wait_slot`, `tick_all_harts`, `select_hart`) | the harts; per hart a wait and what its last interrupt check found; `tick_phase`, `reserved` | one slot of a hart, the end of a round, halt and resume | interrupt checks, the timer, the debugger, input between rounds |
| Single-hart loop (`run_fast`, `step`, `run_wait`, `end_step`) | the same for one hart | a batch of simple steps, one step, a wait | fetch, load and store caches, timer |
| Reservations (`hart_slot`, `stores_seen`; `ext_a.cpp`) | `reservation_valid`, `reservation_addr`, `reserved` | LR, SC, stores, snapshot, restore | memory's store log |
| Interrupt delivery (`aplic.cpp`, `imsic.cpp`, `timer.cpp`, `compute_mip`) | sources, targets, IDCs; one IMSIC file per hart and level; `mtime`, compare values | register writes, MSIs, claims, device lines, ticks | devices; `EventGen`, which tells interrupt checks to look again |
| Traps (`ext_zicsr.cpp`: `enter_trap`, `check_and_take_interrupt`, xRET; `ext_zicfilp.hpp`) | mode, `mstatus`, `hstatus`, `vsstatus`, ELP | trap entry to M, HS or VS, return, status writes | everything that raises an exception |
| Address translation (`mmu.cpp`; page caches in `ext_zicsr.cpp` and `doom_system.cpp`) | page tables in guest memory, a TLB per hart, fetch, load and store page caches, generations | translate, fence, CSR writes that make entries stale | PMP, pointer masking, every access |
| PMP (`pmp.cpp`) | `pmpcfg`, `pmpaddr`, the list of active entries | check, write, invalidate | translation |
| Decoder (`riscv_decoder.cpp`) | decode cache, `ExtensionsEpoch` | decode and dispatch | extensions |
| Input, record, replay (`service_input` and around) | queues from window, stdin and script; UART backlog; log positions | commit at input points, record, replay | every device that receives |
| Machine control (`cpu_loop`, `debugger.cpp`, `gdb_*.cpp`) | `halted`, breakpoints, stop, snapshot and halt counts, the gdb session | burst, halt, resume, gdb packets | rounds, snapshots |
| Snapshots (`savestate.cpp`) | the whole machine | save, restore | every component that remembers something |
| virtio (`virtio/`) | queues (`last_avail`, ring addresses), per-device state | register writes, notify, completion, reset | guest memory, APLIC, host |
| User network (`net/usernet.cpp`) | TCP connections, UDP flows, frame queues of two threads | frames, socket events, sweep | virtio-net, host sockets |
| Lock-step (`lockstep*.cpp`) | the reference's records | step, compare | everything |
| Host side (`gui.cpp`, `audio/`, `uart.cpp` console writer, `machine.cpp`) | presentation, start-up | draw, play, print | snapshots of the machine |

What is hard here is not concurrency of threads -- the guest runs on one
thread, and input, network and presentation reach it through queues -- but
three other things:

* **Remembered answers.** Interrupt checks, waits, translations, decoded
  instructions, IMSIC tops, PMP decisions and a count of reservations are all
  kept and reused while some generation has not moved. Each is right only if
  every write that could change the answer moves that generation. A missed one
  shows itself only on a workload that happens to change nothing else.
* **Order among harts.** A round steps each hart once, in order; harts write
  each other's timers and interrupt files and end each other's reservations
  within a round; some are passed over without being selected.
* **Interruption of a sequence.** Traps nest across three levels that share
  registers; a debugger halts in the middle of a round; a snapshot is restored
  by another process that remembers nothing.

Per component, the properties that make it correct:

* reservations: a store by another hart to a reserved set ends the reservation,
  nothing else does (but for divergences 1 and 2, the code has this);
* rounds: the machine that remembers is the machine that looks; every wait
  ends; the clock never stops;
* interrupt delivery: what a file or the APLIC reports is what its registers
  say; a hart told nothing has nothing to see; claims are in priority order and
  lose nothing;
* traps: each level returns to exactly what its last trap interrupted; an
  interrupt is taken only where it may be, and is not left where it must not;
* translation caches: no hit older than the last fence that covers it;
* input and replay: a replay delivers what was recorded, when it was recorded,
  across snapshots;
* virtio: every buffer is returned exactly once, resets included;
* network: bytes acknowledged to one side reach the other.

## 2. Modules

| Module | What it is |
|---|---|
| `Reservations` | the reservations of all harts and the counter that says when to watch stores |
| `HartRounds` | rounds, waits and the clock, every slot looking at every interrupt source: the abstract machine |
| `CachedRounds` | the same rounds with what the code remembers; implements `HartRounds` |
| `Steps` | one hart a step at a time, and what happens between two steps: the abstract machine |
| `FastRun` | `cpu_loop` and `run_fast`, the loop that runs one hart; implements `Steps` |
| `InputReplay` | input points, what host threads ask for, the serial ring, recording and replay |
| `Aia` | APLIC, S-level IMSIC files and each hart's external line |
| `TrapContexts` | what traps and returns promise, as one saved context per level: the abstract machine |
| `Traps` | mode, status registers, trap entry, interrupt choice, returns; implements `TrapContexts` |
| `Translation` | walks, the TLB and the page caches of each hart, and what drops them |
| `Pmp` | the PMP registers, what they allow, and the decoded list that answers for them |
| `Chains` | what a virtqueue promises its driver: the abstract queue |
| `Virtio` | the transport's rings and interrupts, and three kinds of device over them; each queue implements `Chains` |
| `UserNet` | a TCP connection of the user-mode network between the guest's TCP and a host socket |
| `HartsProofs` | the theorems of `Reservations` and `CachedRounds` |
| `MemoryProofs` | the theorems of `Translation` and `Pmp` |
| `FastRunProofs`, `AiaProofs`, `TrapsProofs`, `VirtioProofs`, `InputReplayProofs`, `UserNetProofs` | the theorems of these modules |
| `MC*` | values of constants for TLC |

`CachedRounds` EXTENDS `HartRounds` and `FastRun` EXTENDS `Steps`, so that the
machine with caches is written over the steps of the machine without; `Traps`
and `Virtio` INSTANCE their abstractions under a mapping. The other modules
meet where one's action is another's input, which is said under each.

### Reservations

`reservation[h]` is `reservation_valid` with `reservation_addr` rounded to the
8-byte reservation set; `reserved` is the counter of the same name. Each
action is one `hart_slot`: it decides whether the step is watched
(`OthersReserved` of the hart's reservation *before* the step, or tracing),
lets the instruction run, and applies `stores_seen` (which asks
`OthersReserved` of the reservation *after* it) and the counter's update in
the code's order. The actions differ in what the instruction does: LR, SC,
another store, none, and how it stores. `write8`, `write32` and `write64` log
what they store while the step is watched (`memory.cpp:274-290`), as the store
cache does for itself (`ext_zicsr.cpp:1382`), and every instruction stores
through these (`Store`) but one kind: AMOs and `amocas` of two bytes
(`HalfwordAmo`), which call `write_bytes` (`ext_a.cpp:279`), to RAM a `memcpy`
that logs nothing (`memory.cpp:321-328`). So `HartSlot` takes two sets, what is
logged and what is stored besides. Any step may also store through its page walk
if `Svadu` (A and D bits, logged). Two histories say what the reservations would
be: `seen` if every step were watched, `promised` if every store of every step
ended the others' reservations. `WatchingEnough` compares with the first and
holds; `StoresEndOthers` compares with the second and does not (divergence 1).
`Save` and `Restore` are a snapshot, which records reservations and not the
counter. Stores of devices (DMA) are not in the module: they are made by
`write_bytes` too and, for the same reason, end no reservation.

### HartRounds and CachedRounds

A state is a point between two slots of a round: `slot` is the next hart.
`HartRounds` is `run_round` as it would be without the shortcut and with the
interrupt check made in every slot. Instructions are grouped by what they do
to what the check reads: writes to a compare register, `mtime`, `htimedelta`,
`mie` (which stands for `mie` and the STCE enables), a level someone else
writes (`msip`, IMSIC files, software-set bits: `"other"`), the hart's masking
state (`masked` stands for privilege, `mstatus`, `vsstatus` and delegation,
which `Traps` has in full), taking and losing a reservation, beginning a wait,
halting, and everything else. `Does` says which a hart's software performs.

`CachedRounds` adds `irqUntil[h]` (`irq_deadline`, while `irq_key` is
`EventGen`), `waitUntil[h]` (`wait_until`, while `wait_event` is `EventGen`)
and `now`, `mtime` as `run_round` read it at the start of the round. `EventGen`
itself is not a variable: it only grows, so a remembered value is either good
or never read again, and a bump is the zeroing of all remembered values. Every
`HartRounds` action has its form here with the bump the code makes;
`SkipWait` is the shortcut; `SnapshotRestored` forgets. Selecting a hart whose
`misa` differs from the last one's (`differ`) bumps as well.

### Steps and FastRun

`Steps` is the machine with `DOOMV_FAST=0`: each action is one `step` -- take a
due interrupt, run an instruction, trap, or a round of a wait -- followed by
`end_step` (`count`, `minstret`, `phase`, and the clock every second step), and
between steps what `cpu_loop` does at its points: an input point at each
multiple of `Period`, a snapshot, a halt, the end of the run. `ahead` are the
points to come and `served` the last input point; an overdue point disables
every step, so a machine that steps over one cannot implement this one. A halt
is the user's, a breakpoint (`watched`), or `HaltAt`; a resume steps over the
breakpoint it stands on (`skip`).

`FastRun` adds the thread's place in `cpu_loop` and `run_fast` (`at`), what is
left of the burst (`budget`) and of `run_fast`'s `n` (`left`), the run in
progress (`limit`, `done`), the remembered interrupt deadline (`irqUntil`) and
counter enables (`counts`, `countsOk`). A run takes `Plain` instructions
without counting them and ends before any instruction it cannot take -- which
those are is data, so a run may end anywhere. The refinement mapping adds what
the run owes: `done` to the step count and `minstret`, `TicksOf(done)` to the
clock, and so on. An instruction that reads the clock or a counter is not
simple, and finds them made up.

### InputReplay

`run` is where the process is: its step count, its machine `m` (what a snapshot
saves and the guest sees: the serial ring, frames, the sound card's periods,
what a GPU answered, the cursor's blob), how far it is in each log, and
`dirty` and `nextAlive`, which no snapshot saves. `incoming`, `backlog` and
`asked` are the emulator's too. What a round and an input point make of a
process are operators on it (`Worked`, `Served`), which a live run and a replay
share: they differ in where the answers and events come from.
A live run is a number of rounds; each is a deed of the guest (what it does to
devices) and a stride (how many steps), kept in `trail` with the process before
it. `LiveServe` is `service_input` where the round passed a multiple of
`Period`: the batch of `incoming`, frames, periods, GPU syncs, each logged with
the step count. `StartReplay` kills the process and starts another, from the
start or from `saved`, with `pos` as `restore` sets it. `ReplayRound` does the
deed of `trail` -- the guest is deterministic, and `ReplayExact` says the
machine is the one it did it in -- and `ReplayServe` commits what the log has
up to this count. `ReplayExact` compares with `trail` round by round: the
machine, its step count, and on a machine with a 3D GPU that was restored, all
but the GPU.

### Aia

One file per hart with its remembered `top`; the APLIC's registers with a
source's pending and enabled bits as sets; `looked[h]`: the hart's interrupt
check found its line down and `EventGen` is the one it found it under -- all
that `CachedRounds` needs of the delivery path. A machine either has the AIA
CSRs (`ssaia`), and software programs files and may turn on MSI forwarding, or
has not, and uses direct delivery. `served` is what this step's read of
`stopei` or `claimi` returned.

### TrapContexts and Traps

`TrapContexts` keeps, for M, HS and VS, an interrupt enable and one saved
context (mode, enable, landing-pad expectation). `Traps` has the fields of
`mstatus`, `hstatus` and `vsstatus` and translates `enter_trap`, SRET, MRET,
the interrupt choice and the landing-pad rules. The refinement mapping reads a
saved context out of the fields: HS's is SPP with SPV, SPIE, SPELP; M's is MPP
with MPV, MPIE, MPELP; VS's is `vsstatus`.SPP in a guest. The pending and
enabled interrupts are an input of each check.

### Translation

`table` is the last level of the page tables in memory: one superpage slot and
one slot per page. `tlb[h]` and `kept[h]` are the live entries of the TLB and
of the fetch, load and store page caches, each with the fields of its key; a
generation that moves (`mmu_tlb_gen`, `state_gen`, `ExtensionsEpoch`) is the
removal of the entries made under it, since it only grows and they never match
again. Cache sets are kept (`Sets`), so an entry also goes when another takes
its place. `mega[h]` is `superpage_regions`. `Untranslated`, `TlbHit` and
`Walk` are the three ways an access that no page cache answers may succeed,
each with what it leaves in the TLB and in a page cache; a fault leaves
nothing but perhaps an A or D bit. `borrow[h]` is MPP while MPRV is set.
`since[h][p]` is history: the leaves page `p` has had under the hart's root
since the hart's last fence of it -- what the architecture lets a translation
be. The properties are about hits as an access would make them now: a TLB or
page cache hit is an answer some leaf in `since` gives to this access, at its
privilege and with its flags, with A and D as it needs them, and neither PMP,
V nor MPRV has changed under it.

`Translation` does not use `EventGen`; it shares with `Reservations` the
stores of a walk that sets A or D, and with `Traps` the changes of mode.

### Pmp

`cfg` and `addr` are the registers of each hart, `list` is `cache` and `active`
with whose they are (`cache_regs`); losing the list is moving `cache_gen`.
`WriteCfg` and `WriteAddr` are whole register writes with their legalisation,
locks and grain; `Rebuild` is what a check or a page question changes, if
anything. `Check` and `PagePermits` answer from the list. `Allowed` is the
architecture's rule byte by byte: the first entry that matches any byte of an
access must match all of it. NAPOT is matched by comparing numbers above the
lowest zero bit there, and by masks and intervals in the code's `region_of`.
`Translation` has who asks `check` and `page_permits`, at which privilege, and
what a write of a PMP register drops.

### Chains and Virtio

A queue has three parts: what is in guest memory (`rings`: both indices and
rings, and in `chain` what is in the buffers of a head), what the device keeps
(`lastAvail`, `waiting` for the network card and input devices, `periods` and
`stream` for the sound card, `interrupting`: status bit and APLIC source), and
the driver (`lastUsed`, `owed`: it has posted and is yet to notify, `handler`).
Positions are 16-bit counters (`Wrap`) reduced by the queue's size. Queues are
of three kinds by when a chain comes back: in the notify (`take`; also the block
and GPU devices' queues), when something comes to fill it (`fill`: receive and
event queues), or when the host has played or recorded it (`hold`). A notify,
pump or input point is a loop over chains, so it is several steps here
(`doing`, `hand`, `completed`), during which the guest stands still, as it does
in the code. The driver is external: it posts good and malformed chains,
notifies at any time after, and on an interrupt claims, reads the status,
acknowledges and looks at the rings, in that order. A reset is at any time
between. `C` is `Chains` with what is offered, held and returned in each queue
read out of these.

### UserNet

`conn` is the entry of `tcp`: state, `snd_una`, `snd_nxt`, `rcv_nxt`, the
guest's window, `to_host`, the FIN and `dead` flags. Frames from the guest wait
in `in`, frames for it in `out` until an input point moves them to `rx`; what
finds `in` full is dropped, what finds `rx` full costs the oldest. The network
thread's steps are `HandleTcp` (all of `handle_tcp` for a frame), `Connected`,
`Writable`, `Readable` (its `select` loop's three cases) and `Sweep`. The
guest's TCP and the host's socket are external and are written from what the
code relies on: the guest sends again what was not acknowledged, advertises the
room it has and says so when it opens, and takes only what is in order. Sequence
numbers are modulo `Seqs`; `una` and `nxt` of the guest, which is external, count
bytes, and an acknowledgement is read relative to the one before. `Segments` is
the loop of `read_host` in closed form: the frames it makes of what it read.
`lossy` and `host.early` (the host closed its side
before it had everything) are history.

The network is built for Windows hosts only: all but a stub of `usernet.cpp` is
under `_WIN32` (lines 23-709; elsewhere `start` fails with a message), and that
is the code modelled. The guest here sends segments of one byte, which
`Taken` takes whole or not at all; that it takes the front of a longer one for
which there is room in part is not exercised.

## 3. Runs

| Run | Shows |
|---|---|
| `harts` | remembered answers are right and the rounds refine `HartRounds` (2 harts, `mtime` 0..3, waits of 2 rounds); counter exact, watching the steps it points at is enough (3 harts, 2 sets, without Svadu) |
| `reservations_halfword` | **violated**, as divergence 1 says: a halfword AMO ends no other hart's reservation |
| `rounds_live` | every wait ends, the clock never stops |
| `fast_run` | no interrupt and no point missed, the loop refines `Steps`, the run ends (9 steps, bursts of 5, input every 4, a snapshot at 7, a halt at 3) |
| `replay` | serial bytes in order; each replay goes through the machines of the live run (4 rounds of 2 harts, input every 3 steps, a ring of 1, room for 1 frame) |
| `virtio` | items in order and none twice, no chain left behind, no interrupt missed, every queue refines `Chains` (3 devices, queues of 1 and 2, positions that wrap) |
| `aia` | tops, lines, `EventGen`, claims (2 harts, 2 identities, 2 sources; both kinds of machine) |
| `traps` | refinement of `TrapContexts`, interrupt choice (an interrupt of each level and two of HS's, exceptions of each delegation) |
| `translation` | every TLB and page cache hit is right (1 hart, a superpage over 2 pages, 4 frames; fetches and stores at S and M) |
| `pmp` | the list's answers are the registers', for one access and for pages; locks hold (2 harts, 3 entries, 8 granules, pages of 4) |
| `usernet` | both streams in order whatever is lost, no window overrun, nothing acknowledged forgotten (3 bytes each way, windows of 2, room for 2 frames) |
| `usernet_live` | both streams arrive whole and the connection is forgotten (3 bytes each way, windows of 1) |

All pass but `reservations_halfword`, which finds what it is there to show, in
three states: `lr.w` by one hart, a halfword AMO to the set by another, and the
reservation stands. The largest take a minute or two each. `harts` looks at two
things that share no state, the rounds and the reservations, one at a time:
`SeveralNext` moves either while the other is as it starts.

**Bounds.** Three harts are what `reserved` can get wrong with: the one that
runs, one whose reservation must end, one whose must stand. Two sets tell a
store that matters from one that does not. In the rounds, two harts suffice for
one to act between another's look and its next slot; a round has two slots, so
both orders occur; `MaxTime = 3` has a compare value behind, at, one and two
ahead of the clock, and offsets that wrap; `MaxWait = 2` has a wait's first,
middle and last round. `InsnsPerTick` is the code's 2. `Does` gives the harts
different software, so that each kind of write by one hart meets each kind of
reader in the other.

In `fast_run` the points are at distances that do not divide each other: the
halt falls in a burst, the burst ends between input points, the snapshot and
the end between them too, and an odd number of steps is left at each. The run
follows `minstret` and leaves `mcycle`, which moves with the clock, to the
theorem. In `replay` rounds of two steps pass a point of three on it, past it
and not at all; `SnapshotAt` comes after the first input and before the last.
In `virtio` a queue of two is the least in which order matters and one can be
held while another comes back; `Wrap = 2 * Size` lets the positions wrap twice
over the items. `device` is chosen at the start, so the run is three. In `pmp`
one of three entries cannot be written, the grains are none and one that fixes
low bits in both modes, and the accesses lie inside, at the edges of, and around
a four-byte region; one hart opens everything, so another's list would show.
In `usernet` a window of two can be half open; sequence numbers wrap in each
stream; two frames of room are overrun by three.

In `translation`, two pages are the fenced one and the other, which the
superpage covers as well; an entry of page 1's own below the superpage makes the
same page change its frame; the four frames are one with `tohost`, a
framebuffer, plain RAM and a device, so that each reason not to keep a page
occurs, and one cache set makes the pages evict each other. Other harts are in
it as the writes to the tables, which any of them may make; that several harts'
own TLBs and generations do not mix is not exercised by TLC with one hart, and
is what the theorems, for any set of harts, are for. The theorems below
have none of these bounds.

Deadlock is checked but where the system may stop: the clock of `harts` may not
pass its last value; `fast_run` ends at `StopAt`; in `translation` an access
that faults changes nothing, and the state in which all fault has no step; a
connection of `usernet` ends.

**Fairness.** Nothing is assumed of which instruction a hart runs, of devices,
or of a user who would have to resume a halted machine.
`rounds_live`: `WF_vars(RoundStep)`, the CPU thread runs `run_round` in a loop
as long as the machine is not halted (`cpu_loop`); both properties are
conditional on the machine not being halted from some point on.
`fast_run`: `WF_vars(Loop)`, the same thread in `cpu_loop` and `run_fast`; the
property leaves room for a machine that stays halted.
`usernet_live`: each thread goes on while it has something to do -- the network
thread with its frames and with its sockets, the CPU thread at its input points
-- and the external parties do theirs: the host closes in the end, the guest's
TCP sends, takes and acknowledges. Nothing is assumed of sending again, so the
property ends at a lost frame, a reset and a socket error: after a loss a
stream may stay where it is (below).

### Known divergences

Where the code does other than its comments say. Each was met while modelling.
The first is shown by a run of its own and is the finding of `PROJECT.json`; the
properties of the other runs exclude the others by the condition named, so they
hold.

1. *Reservations, halfword AMOs.* With Zabha, `amo*.h` and `amocas.h` store by
   `Memory::write_bytes` (`ext_a.cpp:279`), whose path to RAM is a `memcpy`
   without a `StoreCapture` (`memory.cpp:321-328`). The store is in no
   `store_log`, watched step or not, so it ends no other hart's reservation,
   though "A store this step made ends any other hart's reservation on it"
   (`doom_system.hpp:455`): `lr.w` by one hart, `amoadd.h` to the same word by
   another, and the first one's `sc.w` succeeds. `reservations_halfword` shows
   it (`StoresEndOthers`). The counter is right all the same, and
   `WatchingEnough` does not speak of stores no log has.
2. *Reservations, Svadu.* `stores_seen` (`doom_system.cpp:181`) compares the counter,
   not yet updated, with the hart's own reservation, already taken. An LR whose
   page walk sets an A bit therefore does not end the one other reservation on
   that page-table entry, though "A store this step made ends any other hart's
   reservation on it" (`doom_system.hpp:455`). Excluded by `~Svadu`: an LR then
   stores nothing. (`WatchingEnough` of
   `MCReservations` with `Svadu = TRUE` shows it.)
3. *Rounds.* With an `htimedelta`, `interrupt_may_be_due` means to "look again
   at every tick" (`doom_system.cpp:574-575`) and asks for `mtime + 1` (`577`),
   which is not above `mtime` when that is all-ones. Excluded by `ClockFits`.
4. *APLIC.* Writes to `domaincfg`, `sourcecfg` and `target` (`aplic.cpp:106-119`)
   do not move `EventGen`, though "every write that bumps one of those
   generations bumps this one too" (`event_gen.hpp:15-17`); with direct delivery
   they can raise a line a hart does not look at. `ChangesCounted` names the
   three; `LineSeenMsi` is for machines that use MSIs.
5. *Interrupt choice.* `check_and_take_interrupt` tries only the first pending
   interrupt in priority order (`ext_zicsr.cpp:1808`), so a delegated one that
   is masked hides an undelegated one of lower priority, though "a mode below M
   can never mask one that isn't delegated to it" (`1836-1838`). With delegation
   that follows the priority order -- what firmware sets -- it cannot happen
   (`PriorityFollowsLevels` in `InterruptsRight`).
6. *Pointer masking.* The load and store page caches are keyed by the address as
   the program forms it, while `fence_page` (`ext_zicsr.cpp:1255-1259`) compares
   with the page of the fence's address: a page reached through a tagged address
   survives the fence of that page, though a fence "drops the page holding vaddr
   from the TLB, both data caches" (`riscv_core.hpp:87-90`). Excluded by
   `Untagged` (`Tags = {0}`).
7. *MPRV.* MRET does not clear it (`ext_zicsr.cpp:2053-2075`). `mmu_translate`
   heeds it only in M-mode, `translate_or_trap` (`1515`) in every mode, so after
   M-mode returns to S with MPRV set, loads and stores are translated at S and
   checked by PMP at MPP -- not "matching the translation the MMU just did"
   (`1491-1492`). A page is kept only while MPRV is off, so `KeptAllowed` does
   not depend on which of the two is meant; the check of an access that no page
   cache answers is not in `Translation`.
8. *Replay from a snapshot.* `restore` moves `replay_pos`, `replay_net_pos` and
   `replay_snd_pos` past what was delivered (`savestate.cpp:780-782`), but not
   `replay_gpu_pos` and `replay_vsync_pos`, though "what it delivered up to the
   snapshot's step is already in the machine" (`777-778`): with a 3D GPU the
   results of commands before the snapshot are handed to those after it. Nor is
   `next_alive` saved (`virtio_gpu.hpp:88`). `ReplayExact` excludes it by `(virgl =>
   from = "start")`: a machine with a 3D GPU that was restored is compared in
   everything but the GPU. Drop the condition and TLC shows it.
9. *PMP.* `check` looks at an access's first and last byte (`pmp.cpp:227-228`),
   so a four-byte entry in the middle of eight bytes that are not aligned is not
   seen, though "The whole access has to fall in one entry" (`213`).
   `ChecksRight` excludes it by `Within`; `page_permits` does not have it.
10. *PMP locks with a grain.* The bottom of a locked TOR entry reads with or
   without its low bits by the mode of the entry before (`pmp.cpp:22-30`, `51`),
   which can be written, though it "would resize a region that is supposed to be
   immutable" (`198-200`). The Sail model does the same. Excluded by `grain = 0`
   in `LockedStays`.
11. *TCP, the end.* A connection is forgotten when both FINs are sent and
   acknowledged (`usernet.cpp:623`), without a look at `to_host`, though the
   comment has "everything acknowledged" (`620-621`): if the host closed its side
   first, bytes acknowledged to the guest may be left in it. Excluded by
   `host.early` in `OverWhenWritten`. A `send()` that fails (`517`) marks the
   connection dead without a word to the guest.
12. *TCP, losses.* What the network sends it does not keep: a frame dropped at
   `RX_LIMIT` or a lost SYN-ACK is never sent again. `StreamsInOrder` holds all
   the same; `Served` ends at the first loss.
13. *virtio.* A sound period that is malformed or of the wrong stream comes back
   in `take_io` without an interrupt of its own (`virtio_snd.cpp:190-214`;
   `NoneUnheard` leaves it out by `told`). A queue size that does not divide
   2^16 would make positions jump at the wrap; the device does not check it
   (`virtio_mmio.cpp:61`; excluded by `VirtioAssumption`). That a period "finishes
   only through finish_tx() and finish_rx()" (`virtio_snd.hpp:14`) leaves out the
   release of a stream, which returns them all.

## 4. Proofs

`tlapm` proves, for every value of the constants that satisfies the modules'
assumptions:

| Theorem | Statement |
|---|---|
| `HartsProofs!CountCorrect`, `ReservationsTypeCorrect` | `ReservationsSpec => [](ReservationsTypeOK /\ ReservedCounts)`, with or without Svadu |
| `HartsProofs!WatchingSuffices` | `~Svadu => (ReservationsSpec => []WatchingEnough)` |
| `HartsProofs!CachesSound`, `TypeCorrect` | `ClockFits => (CachedSpec => [](TypeOK /\ IrqCacheSound /\ SkipSound))` |
| `HartsProofs!Refinement` | `ClockFits => (CachedSpec => ImplementsRounds)` |
| `FastRunProofs!TypeCorrect`, `InterruptsNotMissed`, `PointsNotPassed` | `FastSpec => []TypeOK`, `[]NoneMissed`, `[]NoPointPassed` |
| `FastRunProofs!Refinement` | `FastSpec => ImplementsSteps` |
| `AiaProofs!DeliverySound`, `TypeCorrect`, `TopsCorrect` | `Spec => [](TypeOK /\ TopIsFirst /\ LineSeenMsi)` |
| `AiaProofs!ClaimsInTurn`, `ChangesAreCounted` | `Spec => ClaimedInTurn`, `Spec => ChangesCounted` |
| `TrapsProofs!TypeCorrect`, `InterruptsSound` | `Spec => []TypeOK`, `Spec => []InterruptsRight` |
| `TrapsProofs!ContextsImplemented` | `Spec => ImplementsContexts` |
| `MemoryProofs!TranslationsSound`, `TypeCorrect`, `TlbCorrect`, `KeptCorrect` | `Untagged => (Spec => [](TypeOK /\ TlbSound /\ KeptSound /\ KeptAllowed))` |
| `MemoryProofs!PmpTypeCorrect`, `AnswersCorrect` | `PmpSpec => []PmpTypeOK`, `PmpSpec => []AnswersRight` |
| `MemoryProofs!LocksHold` | `PmpSpec => LockedStays` |
| `VirtioProofs!TypeCorrect`, `ItemsOnce` | `Spec => []TypeOK`, `Spec => []NoneTwiceNoneMissing` |
| `VirtioProofs!NothingLeftBehind`, `NothingUnheard` | `Spec => []NoneLeftBehind`, `Spec => []NoneUnheard` |
| `VirtioProofs!ChainsImplemented` | `Spec => ImplementsChains` |
| `InputReplayProofs!TypeCorrect`, `SerialCorrect` | `Spec => []TypeOK`, `Spec => []SerialInOrder` |
| `InputReplayProofs!ReplaysExact` | `Spec => []ReplayExact` |
| `UserNetProofs!InvariantHolds`, `TypeCorrect` | `Spec => []IInv`, `Spec => []TypeOK` |
| `UserNetProofs!StreamsCorrect`, `NeverOverruns` | `Spec => []StreamsInOrder`, `Spec => []NeverOverrun` |
| `UserNetProofs!OverIsWritten` | `Spec => OverWhenWritten` |

* *Reservations.* The counter is the cardinality of the holders; a step
  changes it by the hart's own change and by the reservations it ended, which
  are a subset of the other holders. `WatchingEnough` needs the counter to be
  right (then a step not watched has no other holder to hurt) and, for
  snapshots, that the saved pair agrees (`SavedEnough`). Without Svadu no step
  both takes a reservation and stores, which is where divergence 2 comes in. The
  theorem is about when the code looks and not about what a log has; that a
  store-conditional fails when it must does not follow from it, and is false for
  halfword AMOs (divergence 1).
* *Rounds.* `IrqCacheSound` is not inductive: it speaks of the clock as it is,
  and the clock moves. `Quiet(h, until)` says the same of the registers: no
  enabled level is up and every enabled timer is set no earlier than `until`
  (with an `htimedelta`, for one tick only, `OneTick`). `IInv` is `TypeOK`,
  `Quiet` for both kinds of remembered value, and that for a hart still to come
  in the round `now = mtime`, because any hart that wrote `mtime` bumped. The
  refinement then follows step by step: a slot that does not look would have
  found nothing, a skipped round is `WaitGoesOn`.
  The assumption `ClockFits` (the clock does not pass its last value, or no
  `htimedelta` other than 0 is ever written) is needed because of divergence 3.
* *FastRun.* `IInv` is `TypeOK` with what each place in the loop knows:
  `AnswerInv`, that a remembered deadline is one no interrupt is due before (of
  the registers, so that it survives the clock); `KeyInv`, that the counter
  enables remembered are the present ones; `RunInv`, that within a run the
  limit stays short of the deadline, counted in steps with the phase the run
  began at; `CountInv`, that `left` and `limit` stay short of the next point.
  The refinement then has each run's instruction as a `Plain` step of `Steps` at
  `count + done`, and the end of a run as a stutter: what it adds is what the
  mapping had added. The arithmetic -- how many ticks `done` steps make, that a
  step count is a multiple of `Period` only at the end of `left` -- is in lemmas
  of its own.
* *Aia.* `TopIsFirst` is inductive because every change of a file is followed
  by `refresh`; `LineSeenMsi` needs it, and that direct delivery is off or idle
  on a machine with the CSRs.
* *Traps.* The type invariant carries `virt => priv # "M"`. The refinement has
  one lemma per action: which context each register write changes, and that the
  other levels' are left as they are.

* *Translation.* The properties speak of hits in the hart's present mode; the
  invariant must speak of every live entry, because a change of privilege, SUM
  or MXR makes old entries current again. `TlbInv`, `KeptInv` and `AllowedInv`
  say it of each entry at the privilege and flags in its key; `SinceInv` that
  the tables' present leaves are in `since`; `RangeInv` that leaves point into
  the frames; and `CountedAnswers` that an entry that rests on a superpage leaf
  finds `mega` set, which is what an address fence relies on. Most actions are
  one of two kinds for a hart's entries -- they drop them, or leave alone or
  only enlarge what they rest on (`EntriesStay`) -- accesses add an entry
  (`KeepGood`, `WalkStep`), and the address fence is a case of its own. The
  assumption `Untagged` is needed because of divergence 6.

* *Pmp.* `PmpTypeOK` says that the list, if there is one, is what `rebuild_cache`
  would make of its owner's registers now; every write loses it, so this is
  inductive. From there on it is about the registers: `RegionRight`, that a
  byte is in an entry's interval exactly when the entry matches it (for NAPOT,
  that numbers agree above a power of two exactly when one lies in the other's
  aligned block); `CheckDecoded`, that if no entry lies within an access, the
  entries with its first or last byte are those with any byte; `PageDecoded`,
  that the first entry touching a page, if it covers the page, is the first that
  touches any access inside. `BinaryAssumption` states the facts about powers
  of two that the provers do not have (every number has a lowest zero bit;
  setting or clearing low bits stays in range); TLC evaluates it.

* *Virtio.* No property is inductive: a slot is reused as positions wrap, so
  each needs that none is overwritten while someone still reads it, and that
  comes from counting the chains. `RingInv` has the three sequences of a queue
  (offered, held, returned) without a repetition in or across them (`Sound`),
  so that they are never longer than the queue together (`SoundBound`, by the
  pigeonhole principle), and nothing in them while the device is not set up.
  The arithmetic is below that: positions are compared and advanced modulo
  `Wrap`, slots modulo `Size`, which divides it, so slots of positions less than
  `Size` apart differ (`SlotsApart`), and a write at one end of a span of
  positions appends to what is read from it (`SpanGrows`), while moving the
  other end drops the first (`SpanShrinks`). Each action then has one lemma:
  which queue it moves a chain of and how, the others unchanged (`QueueStep`,
  `Rest`), which is the refinement's step. `LeftInv` adds the queue that is
  being worked on, `HeardInv` what is still to be told by the pump or flush that
  runs, and `ItemsInv` that what was read, is returned and waits is ascending
  and complete (`Accounted`), with only one queue that returns items.

* *InputReplay.* A replay meets each log entry long after it was made, so the
  invariant says of every round of the trail how the log reads there, and that
  what is logged later leaves this as it is. `TrailInv`: the trail is one run,
  each process in it the one before after a round and perhaps an input point,
  both *as a replay would take them from the log* (`After`). `LogInv`: where a
  round begins, an entry of the input streams is behind the process exactly if
  its step count is no later (`StreamsFrom`, which is also why counting entries
  up to a step gives a restored process its place), and the first sync not read
  is of a later point or of this round (`SyncsFrom`); a command has its answer
  (`Answered`). `LiveInv`: the live process is at the end of the log and what its
  last round left, and every entry is of a count it has reached. From these,
  `ReplayInv` has the replaying process where the trail's was (`Alike` but for
  the GPU, equal if it may be) and `SavedInv` the same of the snapshot; `GpuInv`
  is for machines without a 3D GPU, whose two logs stay empty. A live step adds
  entries at its own count, and each reading of an earlier round is unmoved by
  them; a replay's step is one application of the operators to processes alike.
  TLC checks all parts of the invariant on the instance of `replay`.

* *UserNet.* That a receiver takes the right bytes is a matter of numbers that
  wrap on queues that lose frames. A number tells positions apart only within a
  turn of `Seqs`, so the invariant counts positions without wrapping (`Pos`, from
  where the receiver is) and says that all that is on its way lies within a
  window of its receiver; `NetAssumption` (`2 * Window + 2 < Seqs`; in the code 131072
  and 2^32) is what makes that enough (`WithinATurn`).
  `IInv` has, for frames `q` from the guest and `d` for it: the bytes taken are the
  first of the stream (`Stream`); the two ends of a live connection agree --
  neither is more than a window behind what the other has sent (`Link`); each
  frame carries the bytes of its place, and the frames of a queue follow one
  another without an overlap, acknowledging ever more (`ToGuest`, `FromGuest`, both
  by `Ordered`); every window on its way ends within the guest's room (`Windows`),
  which is `NeverOverrun`; and, for the opening, that SYNs come first, a reset
  last, and while a SYN may still be about no byte has passed (`Syns`, `SynAcks`,
  `Early`, `Fresh`, `Dead`). Without these parts a SYN could open a connection
  under one end that has already moved on. The parts are stated of a connection,
  two queues, a guest and a host, because a step of the network is several
  changes: each change (a frame lost, taken or sent, an acknowledgement heard,
  bytes taken, written or read) has a lemma, and each action is a chain of
  `Stage`s that `Fits`.
  `OverIsWritten` follows since `Sweep` alone forgets a connection (`Stays`) and the
  network's FIN waits for the host's (`HostOK`).

Only model-checked: liveness (`WaitsEnd`, `ClockTicks`, `RunEnds`, `Served`),
which is outside the prover's reach; every invariant and every other action
property or refinement a run checks is also proved. No module declares a
RECURSIVE operator.

## 5. Not modelled, and what could follow

Partly modelled: trap values and vectors, the CSRs' WARL masks; the levels of a
walk above the leaf, the second stage and shadow stack pages (an entry of the
TLB does not say under which `xenvcfg.SSE` it was made, `mmu.cpp:237`); the
snapshot's file format; gdb's packets; config space and descriptor chains of
virtio, what the block and GPU devices do with a request; UDP, ping, DHCP, ARP
and DNS, which promise no delivery, and several TCP connections, which share
only the queues; the console writer's thread and the RTC's alarm.

Not modelled:

* the decoder and its cache: a large pure table, and a cache keyed by the
  encoding and `ExtensionsEpoch`;
* instruction arithmetic, floating point, vectors, compressed instructions:
  data, lock-stepped against the Sail model;
* the 9P server: host file system calls behind a table of fids;
* the virgl backend: an external library's state;
* the window, sound output, boot loading, lock-step's comparison: host
  presentation, one-time set-up, and a sequential comparison of data.

What would add most next: the second stage and shadow stacks in `Translation`;
the 9P fid table, as a fourth kind of device over `Virtio`; CSR legalisation as
operators checked against a reference definition.
