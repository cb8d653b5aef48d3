---------------------------------- MODULE Pmp ----------------------------------
(***************************************************************************)
(* Physical memory protection (src/pmp.cpp): the registers, what they      *)
(* allow, and the list of decoded regions that answers for them.  There is *)
(* one list for all harts; it is made again for a check by another hart    *)
(* than the last, or after a write.                                        *)
(*                                                                         *)
(* The entries' registers are numbers of granules of four bytes, regions   *)
(* and accesses are bytes.  cache_gen only grows, so that moving it is     *)
(* losing the list.                                                        *)
(***************************************************************************)
EXTENDS Integers

CONSTANTS
  Harts,
  Entries, Usable,  \* -pmp=N:U: how many there are (with none, all is permitted),
                    \* and how many can be written
  PerCsr,           \* entries in a pmpcfg register (8)
  AddrBits,         \* physaddr_bits - 2
  Grains,           \* -pmp-grain
  Page,             \* bytes of a page
  Bytes, Lengths,   \* addresses and sizes of accesses
  CfgWrites,        \* what software writes: of each hart, functions from a
                    \* register's entries to bytes,
  AddrWrites,       \* and numbers
  Snapshots         \* registers [cfg, addr] a snapshot may hold

Entry == 0..(Entries - 1)
Addr == 0..((2 ^ AddrBits) - 1)
Mode == {"OFF", "TOR", "NA4", "NAPOT"}
Kind == {"r", "w", "x"}
Priv == {"U", "S", "M"}
Cfg == [a : Mode, perm : SUBSET Kind, l : BOOLEAN]
Off == [a |-> "OFF", perm |-> {}, l |-> FALSE]

(* pmpaddr as it reads, with grain g.                                      *)
ReadAs(g, a, v) ==
  IF a # "NAPOT" THEN v - (v % (2 ^ g))
  ELSE IF g >= 2 THEN (v - (v % (2 ^ (g - 1)))) + ((2 ^ (g - 1)) - 1)
  ELSE v

ASSUME PmpAssumption ==
  /\ Entries \in Nat \ {0} /\ Usable \in 0..Entries /\ PerCsr \in Nat \ {0}
  /\ AddrBits \in Nat /\ Grains \subseteq 0..AddrBits /\ Page \in Nat \ {0}
  /\ Bytes \subseteq Nat /\ Lengths \subseteq Nat \ {0}
  /\ AddrWrites \in [Harts -> SUBSET Nat]
  /\ CfgWrites \in [Harts -> SUBSET [0..(PerCsr - 1) -> Cfg]]
  /\ \A s \in Snapshots :
       /\ s.cfg \in [Harts -> [Entry -> Cfg]] /\ s.addr \in [Harts -> [Entry -> Addr]]
       /\ \A h \in Harts, i \in Usable..(Entries - 1) : s.cfg[h][i] = Off

(* Arithmetic of powers of two: a number has a lowest zero bit.            *)
ASSUME BinaryAssumption ==
  /\ 2 ^ 0 = 1 /\ \A k \in 0..(AddrBits + 1) : 2 ^ k \in Nat \ {0}
  /\ \A v \in Addr : \E k \in 0..AddrBits : v % (2 ^ (k + 1)) = (2 ^ k) - 1
  /\ \A g \in Grains, a \in Mode, v \in Addr : ReadAs(g, a, v) \in Addr

VARIABLES
  grain,    \* Machine.pmp_grain
  cfg,      \* pmpcfg of each hart's entries
  addr,     \* pmpaddr
  list      \* cache and active: [owner, region, cfg], or NoList

pmpVars == <<grain, cfg, addr, list>>

NoList == [owner |-> {}, region |-> [i \in Entry |-> <<0, 0>>], cfg |-> [i \in Entry |-> Off]]

PmpInit ==
  /\ grain \in Grains
  /\ cfg = [h \in Harts |-> [i \in Entry |-> Off]]
  /\ addr = [h \in Harts |-> [i \in Entry |-> 0]]
  /\ list = NoList

-------------------------------------------------------------------------------
(* region_of: the bytes from the first number up to the second.            *)
AddrOf(h, i) == ReadAs(grain, cfg[h][i].a, addr[h][i])
LowestZero(v) == CHOOSE k \in 0..AddrBits : v % (2 ^ (k + 1)) = (2 ^ k) - 1
Napot(v) == LET size == 2 ^ (LowestZero(v) + 1)
                low == v - (v % size)
            IN  <<4 * low, 4 * (low + size)>>
RegionOf(h, i) ==
  CASE cfg[h][i].a = "OFF"   -> <<0, 0>>
    [] cfg[h][i].a = "TOR"   -> <<IF i = 0 THEN 0 ELSE 4 * AddrOf(h, i - 1), 4 * AddrOf(h, i)>>
    [] cfg[h][i].a = "NA4"   -> <<4 * AddrOf(h, i), 4 * AddrOf(h, i) + 4>>
    [] cfg[h][i].a = "NAPOT" -> Napot(AddrOf(h, i))

(* rebuild_cache, for the hart a check is made by.                         *)
Decoded(h) == [owner |-> {h}, region |-> [i \in Entry |-> RegionOf(h, i)], cfg |-> cfg[h]]

(* A mutant of UpToDate: the list is anybody's.                            *)
UpToDateForAll(h) == list # NoList

UpToDate(h) == list.owner = {h}
Rebuild(h) ==
  /\ ~UpToDate(h)
  /\ list' = Decoded(h)
  /\ UNCHANGED <<grain, cfg, addr>>

-------------------------------------------------------------------------------
(* The answers, from a list d.  The active entries are looked at in the    *)
(* order of their numbers.                                                 *)
Active(d) == {i \in Entry : d.region[i][1] < d.region[i][2]}
First(i, S) == i \in S /\ \A j \in S : i <= j
Holds(d, i, b) == d.region[i][1] <= b /\ b < d.region[i][2]
EntryPermits(c, kind, priv) == (priv = "M" /\ ~c.l) \/ kind \in c.perm

Check(d, first, last, kind, priv) ==
  LET hit == {i \in Active(d) : Holds(d, i, first) \/ Holds(d, i, last)}
  IN  \/ hit = {} /\ priv = "M"
      \/ \E i \in hit : /\ First(i, hit)
                        /\ Holds(d, i, first) /\ Holds(d, i, last)
                        /\ EntryPermits(d.cfg[i], kind, priv)

PagePermits(d, page, kind, priv) ==
  LET touching == {i \in Active(d) : d.region[i][2] > page /\ d.region[i][1] < page + Page}
  IN  \/ touching = {} /\ priv = "M"
      \/ \E i \in touching : /\ First(i, touching)
                             /\ d.region[i][1] <= page /\ d.region[i][2] >= page + Page
                             /\ EntryPermits(d.cfg[i], kind, priv)

-------------------------------------------------------------------------------
(* write_cfg, of one byte.                                                 *)
Legal(old, new) ==
  IF old.l THEN old
  ELSE [new EXCEPT !.perm = IF "r" \in @ THEN @ ELSE @ \ {"w"},
                   !.a = IF grain >= 1 /\ @ = "NA4" THEN "OFF" ELSE @]

(* A register at a time: `base` is its first entry.                        *)
WriteCfg(h, base, bytes) ==
  /\ cfg' = [cfg EXCEPT ![h] = [i \in Entry |->
               IF i \in base..(base + PerCsr - 1) /\ i < Usable THEN Legal(@[i], bytes[i - base]) ELSE @[i]]]
  /\ list' = NoList
  /\ UNCHANGED <<grain, addr>>

(* A mutant of Fixed: the bottom of a locked region may move.              *)
FixedByOwnLock(h, i) == i >= Usable \/ cfg[h][i].l

(* write_addr.                                                             *)
Fixed(h, i) ==
  \/ i >= Usable \/ cfg[h][i].l
  \/ i + 1 < Usable /\ cfg[h][i + 1].l /\ cfg[h][i + 1].a = "TOR"

WriteAddr(h, i, v) ==
  /\ addr' = IF Fixed(h, i) THEN addr ELSE [addr EXCEPT ![h][i] = v % (2 ^ AddrBits)]
  /\ list' = NoList
  /\ UNCHANGED <<grain, cfg>>

(* A snapshot is restored (savestate.cpp): the registers are written past  *)
(* write_cfg and write_addr, and the list is invalidated.                  *)
Restore(s) ==
  /\ cfg' = s.cfg /\ addr' = s.addr
  /\ list' = NoList
  /\ UNCHANGED grain

PmpRestored == \E s \in Snapshots : Restore(s)
PmpNext ==
  \/ \E h \in Harts : \/ Rebuild(h)
                     \/ \E base \in {i \in Entry : i % PerCsr = 0}, bytes \in CfgWrites[h] : WriteCfg(h, base, bytes)
                     \/ \E i \in Entry, v \in AddrWrites[h] : WriteAddr(h, i, v)
  \/ PmpRestored

PmpSpec == PmpInit /\ [][PmpNext]_pmpVars

-------------------------------------------------------------------------------
(* What the architecture says of a byte, an entry and an access.  An entry *)
(* of a naturally aligned power of two has the granules that agree with    *)
(* its number above that number's lowest zero bit.                         *)
Matches(h, i, b) ==
  LET a == AddrOf(h, i)
      granule == b \div 4
      size == 2 ^ (LowestZero(a) + 1)
  IN  CASE cfg[h][i].a = "OFF"   -> FALSE
        [] cfg[h][i].a = "TOR"   -> (i = 0 \/ AddrOf(h, i - 1) <= granule) /\ granule < a
        [] cfg[h][i].a = "NA4"   -> granule = a
        [] cfg[h][i].a = "NAPOT" -> granule \div size = a \div size

(* The first entry that matches any byte must match them all; what none    *)
(* matches is M-mode's.                                                    *)
Allowed(h, first, last, kind, priv) ==
  \/ (\A i \in Entry, b \in first..last : ~Matches(h, i, b)) /\ priv = "M"
  \/ \E i \in Entry :
       /\ \A b \in first..last : Matches(h, i, b)
       /\ \A j \in Entry, b \in first..last : j < i => ~Matches(h, j, b)
       /\ EntryPermits(cfg[h][i], kind, priv)

(* An entry has bytes of the access, and neither its first nor its last:   *)
(* four bytes in the middle of eight that are not aligned.  check() looks  *)
(* at the first and the last only.                                         *)
Within(h, i, first, last) ==
  /\ ~Matches(h, i, first) /\ ~Matches(h, i, last)
  /\ \E b \in first..last : Matches(h, i, b)

PmpTypeOK ==
  /\ grain \in Grains
  /\ cfg \in [Harts -> [Entry -> Cfg]] /\ addr \in [Harts -> [Entry -> Addr]]
  /\ \A h \in Harts, i \in Usable..(Entries - 1) : cfg[h][i] = Off
  /\ list = NoList \/ \E h \in Harts : list = Decoded(h)

(* The list gives the architecture's answer for an access of a hart,       *)
(* whatever was written since it was made and for whom, if no entry lies   *)
(* within the access (check).                                              *)
ChecksRight ==
  \A h \in Harts : UpToDate(h) =>
    \A first \in Bytes, n \in Lengths, kind \in Kind, priv \in Priv :
      (\A i \in Entry : ~Within(h, i, first, first + n - 1)) =>
        (Check(list, first, first + n - 1, kind, priv) <=> Allowed(h, first, first + n - 1, kind, priv))

(* A page the page caches may keep: every access inside it, of any size    *)
(* and alignment, is one the architecture allows, and check gives the      *)
(* answer page_permits gave.                                               *)
PagesRight ==
  \A h \in Harts : UpToDate(h) =>
    \A first \in Bytes, n \in Lengths, page \in Bytes, kind \in Kind, priv \in Priv :
      page <= first /\ first + n <= page + Page /\ PagePermits(list, page, kind, priv) =>
        /\ Check(list, first, first + n - 1, kind, priv)
        /\ Allowed(h, first, first + n - 1, kind, priv)

(* What the decoded list answers, rebuilt or not, is right: check for one  *)
(* access and page_permits for all the accesses of a page.                 *)
AnswersRight == ChecksRight /\ PagesRight

(* The configuration of a locked entry stays until a reset, whoever writes *)
(* what, and without a grain so does its region, the bottom that the entry *)
(* before holds included.  (With one, the mode of the entry before decides *)
(* which of its low bits read as ones.)  A snapshot may bring another.     *)
LockedStays ==
  [][PmpRestored \/ \A h \in Harts, i \in Entry : cfg[h][i].l =>
       /\ cfg'[h][i] = cfg[h][i]
       /\ grain = 0 => RegionOf(h, i)' = RegionOf(h, i)]_pmpVars
===============================================================================
