------------------------------ MODULE Translation ------------------------------
(***************************************************************************)
(* Address translation and what remembers it (src/mmu.cpp, the data page   *)
(* caches of src/extensions/ext_zicsr.cpp, the fetch page cache of         *)
(* src/doom_system.cpp).                                                   *)
(*                                                                         *)
(* An access goes through a page table walk, a TLB that remembers walks,   *)
(* and, for fetches, loads and stores, a cache of whole pages that         *)
(* remembers walk, PMP and memory attributes together.  Nothing watches    *)
(* the page tables in memory: software writes them and then fences, and    *)
(* the caches are right as long as what they answer was in the tables at   *)
(* some time since the hart's last fence of that page.  since is the       *)
(* history that says so.  Registers that a remembered answer depends on    *)
(* are in its key or drop it when they change.                             *)
(*                                                                         *)
(* Data: one region of pages, mapped by one superpage entry or by an entry *)
(* per page.  A data address may carry a tag in the bits pointer masking   *)
(* ignores.  The generations that make an entry stale only grow, and a     *)
(* stale entry never matches again, so here it is dropped.  An access by a *)
(* guest goes through both stages every time and remembers nothing; only   *)
(* that is modelled of it.  Shadow stack pages are left out.               *)
(***************************************************************************)
EXTENDS Naturals

CONSTANTS
  Hart,       \* the harts
  Pages,      \* the virtual pages of the region, numbered from 1
  Tags,       \* the tags that data addresses carry; 0 is none
  Frames,     \* the physical pages; page p untranslated is frame p
  Ram,        \* those that are RAM or a framebuffer from end to end
  Screen,     \* those of them that are a framebuffer
  Tohost,     \* the frame of the tohost register
  Sets,       \* the number of sets of each cache
  Roots,      \* the page tables
  Ptes,       \* the entries software writes into each of their slots
  PmpStates,  \* the PMP settings: per frame, what S and U may do
  Types,      \* the kinds of access software makes
  Privs,      \* the privileges it runs at
  Flags,      \* the values of <<SUM, MXR>> it sets
  Adue        \* menvcfg.ADUE: whether a walk sets A and D itself

Mega == 0   \* the superpage's slot in a table
Bare == 0   \* satp.MODE = Bare
Slots == {Mega} \cup Pages
AccessTypes == {"fetch", "load", "store", "amo", "cbo"}
Kinds == {"fetch", "load", "store"}   \* those with a page cache
Pte == [frame : Frames \cup {0}, perm : SUBSET {"r", "w", "x"}, u : BOOLEAN,
        a : BOOLEAN, d : BOOLEAN, pbmt : BOOLEAN]
Leaf == [slot : Slots, pte : Pte]
Address == [page : Pages, tag : Tags]

ASSUME PagesAssumption == /\ Pages \subseteq Nat \ {0} /\ Pages \subseteq Frames
                          /\ Frames \subseteq Nat /\ Ram \subseteq Frames /\ Screen \subseteq Ram
                          /\ Sets \in Nat \ {0}
ASSUME TablesAssumption == /\ Roots \subseteq Nat \ {Bare} /\ Ptes \in [Slots -> SUBSET Pte]
                           /\ PmpStates \subseteq [Frames -> SUBSET Kinds]
ASSUME RangeAssumption ==
  \A slot \in Slots : \A pte \in Ptes[slot] :
    pte.perm # {} => IF slot = Mega THEN \A p \in Pages : pte.frame + p \in Frames
                                   ELSE pte.frame \in Frames
ASSUME UseAssumption == /\ Types \subseteq AccessTypes /\ Privs \subseteq {"U", "S", "M"}
                        /\ Flags \subseteq BOOLEAN \X BOOLEAN
                        /\ Tags \subseteq Nat /\ Adue \in BOOLEAN

VARIABLES
  table,    \* the page tables, in memory
  since,    \* per hart and page, the leaves its table had since the last fence
  priv,     \* the privilege
  borrow,   \* MPP while MPRV is set, "off" while it is not
  virt,     \* V
  sum,      \* mstatus.SUM
  mxr,      \* mstatus.MXR
  satp,     \* the root in force, or Bare
  pmp,      \* the PMP setting in force
  pbmte,    \* menvcfg.PBMTE
  tlb,      \* the live TLB entries of each hart
  kept,     \* the live entries of its fetch, load and store page caches
  mega      \* superpage_regions: a superpage may be in them in pieces

memory == <<table, since>>
mode   == <<priv, borrow, virt>>
flags  == <<sum, mxr>>
regs   == <<mode, flags, satp, pmp, pbmte>>
caches == <<tlb, kept, mega>>
vars   == <<table, since, priv, borrow, virt, sum, mxr, satp, pmp, pbmte, tlb, kept, mega>>

-------------------------------------------------------------------------------
(* The leaf a walk of table tab finds for page p: the superpage if there   *)
(* is one.  An entry without permissions is not a leaf.                    *)
LeafOf(tab, p) == IF tab[Mega].perm # {} THEN [slot |-> Mega, pte |-> tab[Mega]]
                                         ELSE [slot |-> p, pte |-> tab[p]]

(* The leaf that each page has under a root, if it has one.                *)
CurrentLeaves(tabs, root) ==
  [p \in Pages |-> IF root = Bare THEN {}
                   ELSE {leaf \in {LeafOf(tabs[root], p)} : leaf.pte.perm # {}}]

(* A mutant of FrameOf: the pieces of a superpage are numbered from 0.     *)
FrameOfFromZero(leaf, p) ==
  IF leaf.slot = Mega THEN leaf.pte.frame + p + 1 ELSE leaf.pte.frame

(* The low bits of the frame come from the address under a superpage.      *)
FrameOf(leaf, p) == IF leaf.slot = Mega THEN leaf.pte.frame + p ELSE leaf.pte.frame

(* The permission checks of the walk: R, W, X, MXR, U and SUM.  W without  *)
(* R is reserved.                                                          *)
Permits(pte, type, pr, s, m) ==
  /\ "w" \in pte.perm => "r" \in pte.perm
  /\ type = "fetch" => "x" \in pte.perm
  /\ type = "load"  => "r" \in pte.perm \/ (m /\ "x" \in pte.perm)
  /\ type = "store" => "w" \in pte.perm
  /\ type = "amo"   => {"r", "w"} \subseteq pte.perm
  /\ type = "cbo"   => "r" \in pte.perm
  /\ pr = "U" => pte.u
  /\ pr = "S" /\ pte.u => s /\ type # "fetch"

Writes(type) == type \in {"store", "amo"}

(* The A and D bits the access needs.                                      *)
AdSet(pte, type) == pte.a /\ (Writes(type) => pte.d)
WithAd(pte, type) == [pte EXCEPT !.a = TRUE, !.d = @ \/ Writes(type)]

(* The Svpbmt field is legal.                                              *)
Encoded(h, pte) == pte.pbmt => pbmte[h]

(* The privilege an access is made at.  MPRV never affects a fetch.        *)
EffPriv(h, type) ==
  IF type # "fetch" /\ priv[h] = "M" /\ borrow[h] # "off" THEN borrow[h] ELSE priv[h]

Paging(h, type) == EffPriv(h, type) # "M" /\ satp[h] # Bare

(* Pointer masking, enabled for S and U, ignores the tag unless MXR is in  *)
(* effect; an address with a tag that is not ignored is not canonical.     *)
Reaches(h, v, type) ==
  v.tag = 0 \/ (type # "fetch" /\ EffPriv(h, type) # "M" /\ ~mxr[h])

Index(p) == p % Sets

-------------------------------------------------------------------------------
(* The page caches.  The privilege is in the key of every entry, SUM and   *)
(* MXR only in those of data; what else the answer depends on drops them.  *)
KeptEntry(h, kind, v, f) ==
  [kind |-> kind, page |-> v.page, tag |-> v.tag, priv |-> priv[h],
   sum |-> kind # "fetch" /\ sum[h], mxr |-> kind # "fetch" /\ mxr[h], frame |-> f]

Kept(h, kind, v) == {f \in Frames : KeptEntry(h, kind, v, f) \in kept[h]}

(* pmp::page_permits for a page that one entry decides as a whole.         *)
PmpPermits(h, pr, kind, f) == pr = "M" \/ kind \in pmp[h][f]

(* fetch16 and remember_data_page keep the page only if every access of    *)
(* the kind inside it would get the same answer.                           *)
MayKeep(h, kind, f) ==
  /\ ~virt[h]
  /\ kind # "fetch" => borrow[h] = "off"
  /\ PmpPermits(h, priv[h], kind, f)
  /\ f \in Ram
  /\ kind = "fetch" => f \notin Screen
  /\ kind = "store" => f # Tohost

(* What an access of the type to address v that came out at frame f keeps. *)
Keep(h, v, type, f) ==
  kept' = IF type \in Kinds /\ MayKeep(h, type, f)
          THEN [kept EXCEPT ![h] =
                  {e \in @ : e.kind # type \/ Index(e.page) # Index(v.page)}
                  \cup {KeptEntry(h, type, v, f)}]
          ELSE kept

-------------------------------------------------------------------------------
(* The TLB.  The access type is in the index modulo 4.                     *)
Column(type) == IF type \in {"fetch", "cbo"} THEN 0
                ELSE IF type = "load" THEN 1 ELSE IF type = "store" THEN 2 ELSE 3

TlbEntry(h, p, type, f) ==
  [page |-> p, type |-> type, priv |-> EffPriv(h, type),
   sum |-> sum[h], mxr |-> mxr[h], frame |-> f]

InTlb(h, p, type) == {f \in Frames : TlbEntry(h, p, type, f) \in tlb[h]}

Insert(h, p, type, f) ==
  tlb' = [tlb EXCEPT ![h] =
            {e \in @ : Index(e.page) # Index(p) \/ Column(e.type) # Column(type)}
            \cup {TlbEntry(h, p, type, f)}]

(* The generation a page cache entry was made under is over.               *)
DropKept(h) == kept' = [kept EXCEPT ![h] = {}]

(* mmu_tlb_flush.  The TLB generation is in the page caches' keys.         *)
Flush(h) ==
  /\ tlb' = [tlb EXCEPT ![h] = {}]
  /\ DropKept(h)
  /\ mega' = [mega EXCEPT ![h] = FALSE]

-------------------------------------------------------------------------------
Init ==
  /\ table = [r \in Roots |-> [s \in Slots |->
       [frame |-> 0, perm |-> {}, u |-> FALSE, a |-> FALSE, d |-> FALSE, pbmt |-> FALSE]]]
  /\ since = [h \in Hart |-> [p \in Pages |-> {}]]
  /\ priv = [h \in Hart |-> "M"]
  /\ borrow = [h \in Hart |-> "off"]
  /\ virt = [h \in Hart |-> FALSE]
  /\ sum = [h \in Hart |-> FALSE]
  /\ mxr = [h \in Hart |-> FALSE]
  /\ satp = [h \in Hart |-> Bare]
  /\ pmp \in [Hart -> PmpStates]
  /\ pbmte = [h \in Hart |-> FALSE]
  /\ tlb = [h \in Hart |-> {}]
  /\ kept = [h \in Hart |-> {}]
  /\ mega = [h \in Hart |-> FALSE]

(* An access by hart h that its page cache does not answer.                *)
Misses(h, v, type) == ~virt[h] /\ Reaches(h, v, type) /\ Kept(h, type, v) = {}

(* M-mode, or no paging: the address is physical.                          *)
Untranslated(h, v, type) ==
  /\ Misses(h, v, type) /\ ~Paging(h, type)
  /\ Keep(h, v, type, v.page)
  /\ UNCHANGED <<memory, regs, tlb, mega>>

TlbHit(h, v, type) ==
  /\ Misses(h, v, type) /\ Paging(h, type)
  /\ \E f \in InTlb(h, v.page, type) : Keep(h, v, type, f)
  /\ UNCHANGED <<memory, regs, tlb, mega>>

(* A table changes: it is what the pages translate to from now on, too,    *)
(* for every hart that uses it.                                            *)
TableBecomes(tabs) ==
  /\ table' = tabs
  /\ since' = [h \in Hart |-> [p \in Pages |-> since[h][p] \cup CurrentLeaves(tabs, satp[h])[p]]]

(* A walk of the tables.  Whatever it finds wrong is a fault, and nothing  *)
(* is remembered of it; but the A and D bits were set by then if only the  *)
(* memory type was wrong.                                                  *)
Walk(h, v, type) ==
  LET leaf == LeafOf(table[satp[h]], v.page)
      f    == FrameOf(leaf, v.page)
      Uses == /\ mega' = [mega EXCEPT ![h] = @ \/ leaf.slot = Mega]
              /\ Keep(h, v, type, f)
  IN  /\ Misses(h, v, type) /\ Paging(h, type) /\ InTlb(h, v.page, type) = {}
      /\ leaf.pte.perm # {}
      /\ Permits(leaf.pte, type, EffPriv(h, type), sum[h], mxr[h])
      /\ \/ /\ AdSet(leaf.pte, type) /\ Encoded(h, leaf.pte)
            /\ Uses
            /\ Insert(h, v.page, type, f)
            /\ UNCHANGED memory
         \/ /\ ~AdSet(leaf.pte, type) /\ Adue
            /\ TableBecomes([table EXCEPT ![satp[h]][leaf.slot] = WithAd(@, type)])
            /\ IF Encoded(h, leaf.pte) THEN Uses ELSE UNCHANGED <<kept, mega>>
            /\ UNCHANGED tlb
      /\ UNCHANGED regs

-------------------------------------------------------------------------------
(* Software stores an entry into a table.  Nothing in the machine notices. *)
WritePte(root, slot, pte) ==
  /\ TableBecomes([table EXCEPT ![root][slot] = pte])
  /\ UNCHANGED <<regs, caches>>

(* A write of mstatus or sstatus.  SUM and MXR are in the data key; MPRV,  *)
(* and MPP while it counts, move state_gen.                                *)
WriteStatus(h, s, m, b) ==
  /\ ~virt[h] /\ priv[h] \in {"S", "M"}
  /\ b # borrow[h] => priv[h] = "M"
  /\ sum' = [sum EXCEPT ![h] = s]
  /\ mxr' = [mxr EXCEPT ![h] = m]
  /\ borrow' = [borrow EXCEPT ![h] = b]
  /\ IF b # borrow[h] THEN DropKept(h) ELSE UNCHANGED kept
  /\ UNCHANGED <<memory, priv, virt, satp, pmp, pbmte, tlb, mega>>

(* A trap or a return from one.  A trap to M leaves the privilege it comes *)
(* from in MPP and MRET leaves U there; neither touches MPRV.  set_virt    *)
(* moves state_gen whether or not V changes, but only a hart with H calls  *)
(* it.                                                                     *)
ChangeMode(h, p, b, g) ==
  /\ p = "M" => ~g
  /\ IF borrow[h] = "off" THEN b = "off"
     ELSE \/ p = "M" /\ b = priv[h]
          \/ p = borrow[h] /\ priv[h] = "M" /\ b = "U"
          \/ p # "M" /\ b = borrow[h]
  /\ priv' = [priv EXCEPT ![h] = p]
  /\ borrow' = [borrow EXCEPT ![h] = b]
  /\ virt' = [virt EXCEPT ![h] = g]
  /\ DropKept(h) \/ (g = virt[h] /\ b = borrow[h] /\ UNCHANGED kept)
  /\ UNCHANGED <<memory, flags, satp, pmp, pbmte, tlb, mega>>

(* write_satp_warl, of a value satp does not have already.  The root may   *)
(* be the same, if only the ASID differs; and a mode the hart does not     *)
(* have is not written, but flushes.                                       *)
WriteSatp(h, root) ==
  /\ ~virt[h] /\ priv[h] \in {"S", "M"}
  /\ satp' = [satp EXCEPT ![h] = root]
  /\ since' = [since EXCEPT ![h] = CurrentLeaves(table, root)]
  /\ Flush(h)
  /\ UNCHANGED <<table, mode, flags, pmp, pbmte>>

(* A mutant of WritePmp: PMP is taken for part of what the key holds.      *)
WritePmpQuietly(h, state) ==
  /\ priv[h] = "M" /\ state # pmp[h]
  /\ pmp' = [pmp EXCEPT ![h] = state]
  /\ UNCHANGED <<memory, mode, flags, satp, pbmte, caches>>

(* pmp::write_cfg, write_addr: a CSR write, so state_gen moves.            *)
WritePmp(h, state) ==
  /\ priv[h] = "M" /\ state # pmp[h]
  /\ pmp' = [pmp EXCEPT ![h] = state]
  /\ DropKept(h)
  /\ UNCHANGED <<memory, mode, flags, satp, pbmte, tlb, mega>>

(* A write to menvcfg flushes.                                             *)
WriteEnvcfg(h, b) ==
  /\ priv[h] = "M"
  /\ pbmte' = [pbmte EXCEPT ![h] = b]
  /\ Flush(h)
  /\ UNCHANGED <<memory, mode, flags, satp, pmp>>

(* What may still be answered after a fence of page p: the leaf it has,    *)
(* and for another page what it had, less the superpage that covered both. *)
SinceFence(h, p) ==
  [q \in Pages |-> CurrentLeaves(table, satp[h])[q] \cup
                   IF q = p THEN {} ELSE {leaf \in since[h][q] : leaf.slot # Mega}]

(* A mutant of FencePage: the page alone is dropped, superpage or not.     *)
FencePageOnly(h, p) ==
  /\ ~virt[h] /\ priv[h] \in {"S", "M"}
  /\ since' = [since EXCEPT ![h] = SinceFence(h, p)]
  /\ tlb' = [tlb EXCEPT ![h] = {e \in @ : e.page # p}]
  /\ kept' = [kept EXCEPT ![h] = {e \in @ : e.page # p \/ e.tag # 0}]
  /\ UNCHANGED <<table, regs, mega>>

(* A mutant of FencePage: the page caches keep the page.                   *)
FencePageTlbOnly(h, p) ==
  /\ ~virt[h] /\ priv[h] \in {"S", "M"}
  /\ since' = [since EXCEPT ![h] = SinceFence(h, p)]
  /\ IF mega[h] THEN Flush(h)
     ELSE /\ tlb' = [tlb EXCEPT ![h] = {e \in @ : e.page # p}]
          /\ UNCHANGED <<kept, mega>>
  /\ UNCHANGED <<table, regs>>

(* SFENCE.VMA and SINVAL.VMA with an address, outside a guest: fence_page. *)
(* A superpage's pieces are everywhere, so with one about everything goes. *)
FencePage(h, p) ==
  /\ ~virt[h] /\ priv[h] \in {"S", "M"}
  /\ since' = [since EXCEPT ![h] = SinceFence(h, p)]
  /\ IF mega[h] THEN Flush(h)
     ELSE /\ tlb' = [tlb EXCEPT ![h] = {e \in @ : e.page # p}]
          /\ kept' = [kept EXCEPT ![h] = {e \in @ : e.page # p \/ e.tag # 0}]
          /\ UNCHANGED mega
  /\ UNCHANGED <<table, regs>>

(* The fences without an address and a guest's, and writes of vsatp, hgatp *)
(* and the other envcfgs: all of them flush.  HFENCE and HINVAL drop       *)
(* nothing, as nothing of a guest's is remembered.                         *)
FenceAll(h) ==
  /\ priv[h] \in {"S", "M"}
  /\ since' = [since EXCEPT ![h] = CurrentLeaves(table, satp[h])]
  /\ Flush(h)
  /\ UNCHANGED <<table, regs>>

(* misa turns an extension on or off: ExtensionsEpoch is in the keys of    *)
(* every hart's page caches, the TLB is only flushed for this hart.        *)
WriteMisa(h) ==
  /\ priv[h] = "M"
  /\ tlb' = [tlb EXCEPT ![h] = {}]
  /\ kept' = [g \in Hart |-> {}]
  /\ mega' = [mega EXCEPT ![h] = FALSE]
  /\ UNCHANGED <<memory, regs>>

(* A snapshot restored: every hart is as it was, and remembers nothing.    *)
Restored ==
  /\ since' = [h \in Hart |-> CurrentLeaves(table, satp[h])]
  /\ tlb' = [h \in Hart |-> {}]
  /\ kept' = [h \in Hart |-> {}]
  /\ mega' = [h \in Hart |-> FALSE]
  /\ UNCHANGED <<table, regs>>

Next ==
  \/ \E h \in Hart, v \in Address, type \in Types :
       Untranslated(h, v, type) \/ TlbHit(h, v, type) \/ Walk(h, v, type)
  \/ \E root \in Roots, slot \in Slots : \E pte \in Ptes[slot] : WritePte(root, slot, pte)
  \/ \E h \in Hart, f \in Flags, b \in Privs \cup {"off"} : WriteStatus(h, f[1], f[2], b)
  \/ \E h \in Hart, p \in Privs, b \in {"U", "S", "M", "off"}, g \in BOOLEAN :
       ChangeMode(h, p, b, g)
  \/ \E h \in Hart, root \in Roots \cup {Bare} : WriteSatp(h, root)
  \/ \E h \in Hart, state \in PmpStates : WritePmp(h, state)
  \/ \E h \in Hart, b \in BOOLEAN : WriteEnvcfg(h, b)
  \/ \E h \in Hart, p \in Pages : FencePage(h, p)
  \/ \E h \in Hart : FenceAll(h) \/ WriteMisa(h)
  \/ Restored

Spec == Init /\ [][Next]_vars

-------------------------------------------------------------------------------
TlbEntries == [page : Pages, type : AccessTypes, priv : {"U", "S"},
               sum : BOOLEAN, mxr : BOOLEAN, frame : Frames]
KeptEntries == [kind : Kinds, page : Pages, tag : Tags, priv : {"U", "S", "M"},
                sum : BOOLEAN, mxr : BOOLEAN, frame : Frames]

TypeOK ==
  /\ table \in [Roots -> [Slots -> Pte]]
  /\ since \in [Hart -> [Pages -> SUBSET Leaf]]
  /\ priv \in [Hart -> {"U", "S", "M"}]
  /\ borrow \in [Hart -> {"U", "S", "M", "off"}]
  /\ virt \in [Hart -> BOOLEAN]
  /\ sum \in [Hart -> BOOLEAN]
  /\ mxr \in [Hart -> BOOLEAN]
  /\ satp \in [Hart -> Roots \cup {Bare}]
  /\ pmp \in [Hart -> PmpStates]
  /\ pbmte \in [Hart -> BOOLEAN]
  /\ tlb \in [Hart -> SUBSET TlbEntries]
  /\ kept \in [Hart -> SUBSET KeptEntries]
  /\ mega \in [Hart -> BOOLEAN]

(* Frame f is an answer a walk may give: some leaf the page had since the  *)
(* hart's last fence of it translates so, allows the access at the         *)
(* privilege and with the flags it is made, and needs no A or D set.       *)
Grants(h, p, type, leaf, pr, s, m, f) ==
  /\ Permits(leaf.pte, type, pr, s, m) /\ AdSet(leaf.pte, type) /\ Encoded(h, leaf.pte)
  /\ FrameOf(leaf, p) = f

Answers(h, p, type, pr, s, m, f) ==
  \E leaf \in since[h][p] : Grants(h, p, type, leaf, pr, s, m, f)

(* A TLB hit is an answer the tables gave since the last fence: "a stale   *)
(* entry is a guest reading another process's memory, silently and much    *)
(* later" (src/mmu.hpp, 34-41).                                            *)
TlbSound ==
  \A h \in Hart, p \in Pages, type \in AccessTypes :
    ~virt[h] /\ Paging(h, type) =>
      \A f \in InTlb(h, p, type) :
        Answers(h, p, type, EffPriv(h, type), sum[h], mxr[h], f)

(* So is the page that a fetch, load or store finds in its page cache, as  *)
(* the access is made now (ext_zicsr.cpp, 1216-1249; the "address fence"   *)
(* of riscv_core.hpp, 87-90).                                              *)
KeptSound ==
  \A h \in Hart, kind \in Kinds, v \in Address : \A f \in Kept(h, kind, v) :
    /\ Reaches(h, v, kind)
    /\ IF Paging(h, kind)
       THEN Answers(h, v.page, kind, EffPriv(h, kind), sum[h], mxr[h], f)
       ELSE f = v.page

(* And what is not translation about it holds now too: the access is not   *)
(* a guest's, PMP allows it, the page has no side effects.                 *)
KeptAllowed ==
  \A h \in Hart, kind \in Kinds, v \in Address : \A f \in Kept(h, kind, v) :
    /\ ~virt[h]
    /\ PmpPermits(h, EffPriv(h, kind), kind, f)
    /\ f \in Ram
    /\ kind = "store" => f # Tohost

(* The invariant behind them says the same of every entry, whatever the    *)
(* hart's present mode, and that a leaf a superpage gave is counted in     *)
(* superpage_regions.                                                      *)
CountedAnswers(h, p, type, pr, s, m, f) ==
  \E leaf \in since[h][p] :
    Grants(h, p, type, leaf, pr, s, m, f) /\ (leaf.slot = Mega => mega[h])

TlbInv ==
  \A h \in Hart : \A e \in tlb[h] :
    /\ satp[h] # Bare
    /\ CountedAnswers(h, e.page, e.type, e.priv, e.sum, e.mxr, e.frame)

KeptInv ==
  \A h \in Hart : \A e \in kept[h] :
    /\ e.tag = 0
    /\ IF e.priv = "M" \/ satp[h] = Bare THEN e.frame = e.page
       ELSE CountedAnswers(h, e.page, e.kind, e.priv, e.sum, e.mxr, e.frame)

AllowedInv ==
  \A h \in Hart : \A e \in kept[h] :
    /\ ~virt[h]
    /\ e.kind # "fetch" => borrow[h] = "off"
    /\ PmpPermits(h, e.priv, e.kind, e.frame)
    /\ e.frame \in Ram
    /\ e.kind = "store" => e.frame # Tohost

(* What the tables say now is part of what they said.                      *)
SinceInv == \A h \in Hart, p \in Pages :
              CurrentLeaves(table, satp[h])[p] \subseteq since[h][p]

(* Every leaf is in its range of frames.                                   *)
InRange(slot, pte) ==
  pte.perm # {} => IF slot = Mega THEN \A p \in Pages : pte.frame + p \in Frames
                                 ELSE pte.frame \in Frames

RangeInv == \A root \in Roots, slot \in Slots : InRange(slot, table[root][slot])

IInv == TypeOK /\ TlbInv /\ KeptInv /\ AllowedInv /\ SinceInv /\ RangeInv
=============================================================================
