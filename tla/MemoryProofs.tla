------------------------------ MODULE MemoryProofs ------------------------------
(***************************************************************************)
(* Proofs about what stands between a hart and memory: translation and its *)
(* caches, and PMP.                                                        *)
(*                                                                         *)
(* Translation, for any number of harts, pages and tables: on a machine    *)
(* whose software does not use tagged addresses, no TLB hit and no page    *)
(* cache hit gives an answer that the page tables did not give since the   *)
(* last fence, and none outlives the registers it depends on.  The         *)
(* invariant says so of every live entry of a hart, hit or not.  Each      *)
(* action is one of three kinds for a hart's entries: it drops them, it    *)
(* leaves alone what they depend on, or it adds one that it justifies.     *)
(* Only the address fence is none of these.                                *)
(*                                                                         *)
(* Pmp, for any number of harts and entries, any writes, accesses, grains  *)
(* and snapshots: the list answers as the registers say, and locks hold.   *)
(***************************************************************************)
EXTENDS Translation, Pmp, TLAPS

(* No data address carries a tag.                                          *)
Untagged == Tags = {0}

TlbGood(h, e) ==
  /\ satp[h] # Bare
  /\ CountedAnswers(h, e.page, e.type, e.priv, e.sum, e.mxr, e.frame)

KeptGood(h, e) ==
  /\ e.tag = 0
  /\ IF e.priv = "M" \/ satp[h] = Bare THEN e.frame = e.page
     ELSE CountedAnswers(h, e.page, e.kind, e.priv, e.sum, e.mxr, e.frame)

AllowedGood(h, e) ==
  /\ ~virt[h]
  /\ e.kind # "fetch" => borrow[h] = "off"
  /\ PmpPermits(h, e.priv, e.kind, e.frame)
  /\ e.frame \in Ram
  /\ e.kind = "store" => e.frame # Tohost

(* What hart h's tables have to say only grows.                            *)
Grows(h) ==
  /\ satp'[h] = satp[h] /\ pbmte'[h] = pbmte[h]
  /\ mega[h] => mega'[h]
  /\ \A p \in Pages : since[h][p] \subseteq since'[h][p]

-------------------------------------------------------------------------------
(* An answer is still one when what the tables have to say only grows.     *)
LEMMA AnswersStay ==
  ASSUME NEW h \in Hart, NEW p \in Pages, NEW type, NEW pr, NEW s, NEW m, NEW f,
         Grows(h), CountedAnswers(h, p, type, pr, s, m, f)
  PROVE  CountedAnswers(h, p, type, pr, s, m, f)'
<1>1. PICK leaf \in since[h][p] :
        Grants(h, p, type, leaf, pr, s, m, f) /\ (leaf.slot = Mega => mega[h])
  BY DEF CountedAnswers
<1>2. leaf \in since'[h][p]
  BY <1>1 DEF Grows
<1>3. Encoded(h, leaf.pte)'
  BY <1>1 DEF Grants, Encoded, Grows
<1>4. Grants(h, p, type, leaf, pr, s, m, f)'
  BY <1>1, <1>3 DEF Grants
<1>5. leaf.slot = Mega => mega'[h]
  BY <1>1 DEF Grows
<1> QED
  BY <1>2, <1>4, <1>5 DEF CountedAnswers

(* The TLB entries of a hart that were there are good, and so are the new. *)
LEMMA TlbStays ==
  ASSUME IInv, NEW h \in Hart,
         tlb'[h] = {} \/ Grows(h),
         \A e \in tlb'[h] : e \in tlb[h] \/ TlbGood(h, e)'
  PROVE  \A e \in tlb'[h] : TlbGood(h, e)'
<1> SUFFICES ASSUME NEW e \in tlb'[h], e \in tlb[h], Grows(h)
             PROVE  TlbGood(h, e)'
  OBVIOUS
<1>1. e.page \in Pages
  BY DEF IInv, TypeOK, TlbEntries
<1>2. TlbGood(h, e)
  BY DEF IInv, TlbInv, TlbGood
<1>3. CountedAnswers(h, e.page, e.type, e.priv, e.sum, e.mxr, e.frame)'
  BY <1>1, <1>2, AnswersStay DEF TlbGood
<1> QED
  BY <1>2, <1>3 DEF TlbGood, Grows

(* The same for the page caches.                                           *)
LEMMA KeptStays ==
  ASSUME IInv, NEW h \in Hart,
         kept'[h] = {} \/ Grows(h),
         \A e \in kept'[h] : e \in kept[h] \/ KeptGood(h, e)'
  PROVE  \A e \in kept'[h] : KeptGood(h, e)'
<1> SUFFICES ASSUME NEW e \in kept'[h], e \in kept[h], Grows(h)
             PROVE  KeptGood(h, e)'
  OBVIOUS
<1>1. e.page \in Pages
  BY DEF IInv, TypeOK, KeptEntries
<1>2. KeptGood(h, e)
  BY DEF IInv, KeptInv, KeptGood
<1>3. CASE e.priv = "M" \/ satp[h] = Bare
  BY <1>2, <1>3 DEF KeptGood, Grows
<1>4. CASE ~(e.priv = "M" \/ satp[h] = Bare)
  <2>1. CountedAnswers(h, e.page, e.kind, e.priv, e.sum, e.mxr, e.frame)'
    BY <1>1, <1>2, <1>4, AnswersStay DEF KeptGood
  <2> QED
    BY <1>2, <1>4, <2>1 DEF KeptGood, Grows
<1> QED
  BY <1>3, <1>4

LEMMA AllowedStays ==
  ASSUME IInv, NEW h \in Hart,
         kept'[h] = {} \/ (virt'[h] = virt[h] /\ borrow'[h] = borrow[h] /\ pmp'[h] = pmp[h]),
         \A e \in kept'[h] : e \in kept[h] \/ AllowedGood(h, e)'
  PROVE  \A e \in kept'[h] : AllowedGood(h, e)'
<1> SUFFICES ASSUME NEW e \in kept'[h], e \in kept[h],
                    virt'[h] = virt[h] /\ borrow'[h] = borrow[h] /\ pmp'[h] = pmp[h]
             PROVE  AllowedGood(h, e)'
  OBVIOUS
<1>1. AllowedGood(h, e)
  BY DEF IInv, AllowedInv, AllowedGood
<1>2. PmpPermits(h, e.priv, e.kind, e.frame)'
  BY <1>1 DEF AllowedGood, PmpPermits
<1> QED
  BY <1>1, <1>2 DEF AllowedGood

(* What is left to show of a step.                                         *)
LEMMA Assemble ==
  ASSUME TypeOK', SinceInv', RangeInv',
         \A h \in Hart :
           /\ \A e \in tlb'[h] : TlbGood(h, e)'
           /\ \A e \in kept'[h] : KeptGood(h, e)'
           /\ \A e \in kept'[h] : AllowedGood(h, e)'
  PROVE  IInv'
BY DEF IInv, TlbInv, KeptInv, AllowedInv, TlbGood, KeptGood, AllowedGood

(* The three parts of the invariant for a hart whose entries all were      *)
(* there, when what they depend on is what it was.                         *)
LEMMA EntriesStay ==
  ASSUME IInv, NEW h \in Hart,
         tlb'[h] \subseteq tlb[h], kept'[h] \subseteq kept[h],
         (tlb'[h] = {} /\ kept'[h] = {}) \/ Grows(h),
         kept'[h] = {} \/ (virt'[h] = virt[h] /\ borrow'[h] = borrow[h] /\ pmp'[h] = pmp[h])
  PROVE  /\ \A e \in tlb'[h] : TlbGood(h, e)'
         /\ \A e \in kept'[h] : KeptGood(h, e)'
         /\ \A e \in kept'[h] : AllowedGood(h, e)'
<1>1. \A e \in tlb'[h] : TlbGood(h, e)'
  BY TlbStays
<1>2. \A e \in kept'[h] : KeptGood(h, e)'
  BY KeptStays
<1>3. \A e \in kept'[h] : AllowedGood(h, e)'
  BY AllowedStays
<1> QED
  BY <1>1, <1>2, <1>3

-------------------------------------------------------------------------------
(* Writes to registers that memory and the TLB know nothing of.            *)
LEMMA RegisterStep ==
  ASSUME IInv, TypeOK', UNCHANGED <<memory, satp, pbmte, tlb, mega>>,
         NEW h \in Hart,
         kept' = [kept EXCEPT ![h] = {}] \/ kept' = kept,
         \A g \in Hart :
           kept'[g] = {} \/ (virt'[g] = virt[g] /\ borrow'[g] = borrow[g] /\ pmp'[g] = pmp[g])
  PROVE  IInv'
<1>1. SinceInv' /\ RangeInv'
  BY DEF IInv, SinceInv, RangeInv, memory, CurrentLeaves
<1>2. ASSUME NEW g \in Hart
      PROVE  /\ tlb'[g] \subseteq tlb[g] /\ kept'[g] \subseteq kept[g]
             /\ Grows(g)
  BY DEF Grows, memory, IInv, TypeOK
<1>3. ASSUME NEW g \in Hart
      PROVE  /\ \A e \in tlb'[g] : TlbGood(g, e)'
             /\ \A e \in kept'[g] : KeptGood(g, e)'
             /\ \A e \in kept'[g] : AllowedGood(g, e)'
  BY <1>2, EntriesStay
<1> QED
  BY <1>1, <1>3, Assemble

LEMMA WriteStatusStep ==
  ASSUME IInv, NEW h \in Hart, NEW f \in Flags, NEW b \in Privs \cup {"off"},
         WriteStatus(h, f[1], f[2], b)
  PROVE  IInv'
<1>1. TypeOK'
  <2>1. f[1] \in BOOLEAN /\ f[2] \in BOOLEAN
    BY UseAssumption
  <2>2. b \in {"U", "S", "M", "off"}
    BY UseAssumption
  <2>3. kept' \in [Hart -> SUBSET KeptEntries]
    BY DEF IInv, TypeOK, WriteStatus, DropKept
  <2> QED
    BY <2>1, <2>2, <2>3 DEF IInv, TypeOK, WriteStatus, memory
<1>2. kept' = [kept EXCEPT ![h] = {}] \/ kept' = kept
  BY DEF WriteStatus, DropKept
<1>3. ASSUME NEW g \in Hart
      PROVE  kept'[g] = {} \/ (virt'[g] = virt[g] /\ borrow'[g] = borrow[g] /\ pmp'[g] = pmp[g])
  BY DEF WriteStatus, DropKept, IInv, TypeOK
<1>4. UNCHANGED <<memory, satp, pbmte, tlb, mega>>
  BY DEF WriteStatus
<1> QED
  BY <1>1, <1>2, <1>3, <1>4, RegisterStep

LEMMA ChangeModeStep ==
  ASSUME IInv, NEW h \in Hart, NEW p \in Privs, NEW b \in {"U", "S", "M", "off"}, NEW g \in BOOLEAN,
         ChangeMode(h, p, b, g)
  PROVE  IInv'
<1>1. TypeOK'
  <2>1. p \in {"U", "S", "M"} /\ b \in {"U", "S", "M", "off"}
    BY UseAssumption
  <2>2. kept' \in [Hart -> SUBSET KeptEntries]
    BY DEF IInv, TypeOK, ChangeMode, DropKept
  <2> QED
    BY <2>1, <2>2 DEF IInv, TypeOK, ChangeMode, memory, flags
<1>2. kept' = [kept EXCEPT ![h] = {}] \/ kept' = kept
  BY DEF ChangeMode, DropKept
<1>3. ASSUME NEW k \in Hart
      PROVE  kept'[k] = {} \/ (virt'[k] = virt[k] /\ borrow'[k] = borrow[k] /\ pmp'[k] = pmp[k])
  <2>1. CASE k = h /\ DropKept(h)
    BY <2>1 DEF DropKept, IInv, TypeOK
  <2>2. CASE k = h /\ g = virt[h] /\ b = borrow[h]
    BY <2>2, Zenon DEF ChangeMode, IInv, TypeOK
  <2>3. CASE k # h
    BY <2>3 DEF ChangeMode, IInv, TypeOK
  <2> QED
    BY <2>1, <2>2, <2>3 DEF ChangeMode
<1>4. UNCHANGED <<memory, satp, pbmte, tlb, mega>>
  BY DEF ChangeMode
<1> QED
  BY <1>1, <1>2, <1>3, <1>4, RegisterStep

LEMMA WritePmpStep ==
  ASSUME IInv, NEW h \in Hart, NEW state \in PmpStates, WritePmp(h, state)
  PROVE  IInv'
<1>1. TypeOK'
  BY DEF IInv, TypeOK, WritePmp, DropKept, memory, mode, flags
<1>2. kept' = [kept EXCEPT ![h] = {}]
  BY DEF WritePmp, DropKept
<1>3. ASSUME NEW g \in Hart
      PROVE  kept'[g] = {} \/ (virt'[g] = virt[g] /\ borrow'[g] = borrow[g] /\ pmp'[g] = pmp[g])
  BY DEF WritePmp, DropKept, IInv, TypeOK, mode
<1>4. UNCHANGED <<memory, satp, pbmte, tlb, mega>>
  BY DEF WritePmp
<1> QED
  BY <1>1, <1>2, <1>3, <1>4, RegisterStep
-------------------------------------------------------------------------------
(* The leaves of a table of entries are leaves.                            *)
LEMMA LeavesType ==
  ASSUME NEW tabs \in [Roots -> [Slots -> Pte]], NEW root \in Roots \cup {Bare}
  PROVE  CurrentLeaves(tabs, root) \in [Pages -> SUBSET Leaf]
<1>1. ASSUME NEW p \in Pages, root # Bare
      PROVE  LeafOf(tabs[root], p) \in Leaf
  BY <1>1 DEF LeafOf, Leaf, Slots
<1> QED
  BY <1>1 DEF CurrentLeaves

(* Steps that drop all that one hart remembers, tables as they are.        *)
LEMMA FlushStep ==
  ASSUME IInv, TypeOK', SinceInv', NEW h \in Hart, table' = table,
         tlb'[h] = {}, kept'[h] = {},
         \A g \in Hart \ {h} :
           /\ tlb'[g] = tlb[g] /\ kept'[g] \subseteq kept[g] /\ Grows(g)
           /\ virt'[g] = virt[g] /\ borrow'[g] = borrow[g] /\ pmp'[g] = pmp[g]
  PROVE  IInv'
<1>1. RangeInv'
  BY DEF IInv, RangeInv
<1>2. ASSUME NEW g \in Hart
      PROVE  /\ \A e \in tlb'[g] : TlbGood(g, e)'
             /\ \A e \in kept'[g] : KeptGood(g, e)'
             /\ \A e \in kept'[g] : AllowedGood(g, e)'
  <2>1. CASE g = h
    BY <2>1
  <2>2. CASE g # h
    BY <2>2, EntriesStay
  <2> QED
    BY <2>1, <2>2
<1> QED
  BY <1>1, <1>2, Assemble

LEMMA WriteSatpStep ==
  ASSUME IInv, NEW h \in Hart, NEW root \in Roots \cup {Bare}, WriteSatp(h, root)
  PROVE  IInv'
<1>1. CurrentLeaves(table, root) \in [Pages -> SUBSET Leaf]
  BY LeavesType DEF IInv, TypeOK
<1>2. TypeOK'
  BY <1>1 DEF IInv, TypeOK, WriteSatp, Flush, DropKept, mode, flags
<1>3. SinceInv'
  BY DEF IInv, SinceInv, TypeOK, WriteSatp, CurrentLeaves
<1>4. table' = table /\ tlb'[h] = {} /\ kept'[h] = {}
  BY DEF WriteSatp, Flush, DropKept, IInv, TypeOK
<1>5. ASSUME NEW g \in Hart \ {h}
      PROVE  /\ tlb'[g] = tlb[g] /\ kept'[g] \subseteq kept[g] /\ Grows(g)
             /\ virt'[g] = virt[g] /\ borrow'[g] = borrow[g] /\ pmp'[g] = pmp[g]
  BY DEF WriteSatp, Flush, DropKept, IInv, TypeOK, Grows, mode
<1> QED
  BY <1>2, <1>3, <1>4, <1>5, FlushStep

LEMMA WriteEnvcfgStep ==
  ASSUME IInv, NEW h \in Hart, NEW b \in BOOLEAN, WriteEnvcfg(h, b)
  PROVE  IInv'
<1>1. TypeOK'
  BY DEF IInv, TypeOK, WriteEnvcfg, Flush, DropKept, memory, mode, flags
<1>2. SinceInv'
  BY DEF IInv, SinceInv, WriteEnvcfg, memory, CurrentLeaves
<1>3. table' = table /\ tlb'[h] = {} /\ kept'[h] = {}
  BY DEF WriteEnvcfg, Flush, DropKept, IInv, TypeOK, memory
<1>4. ASSUME NEW g \in Hart \ {h}
      PROVE  /\ tlb'[g] = tlb[g] /\ kept'[g] \subseteq kept[g] /\ Grows(g)
             /\ virt'[g] = virt[g] /\ borrow'[g] = borrow[g] /\ pmp'[g] = pmp[g]
  BY DEF WriteEnvcfg, Flush, DropKept, IInv, TypeOK, Grows, memory, mode
<1> QED
  BY <1>1, <1>2, <1>3, <1>4, FlushStep

LEMMA FenceAllStep ==
  ASSUME IInv, NEW h \in Hart, FenceAll(h)
  PROVE  IInv'
<1>1. CurrentLeaves(table, satp[h]) \in [Pages -> SUBSET Leaf]
  BY LeavesType DEF IInv, TypeOK
<1>2. TypeOK'
  BY <1>1 DEF IInv, TypeOK, FenceAll, Flush, DropKept, regs, mode, flags
<1>3. SinceInv'
  BY DEF IInv, SinceInv, TypeOK, FenceAll, regs, CurrentLeaves
<1>4. table' = table /\ tlb'[h] = {} /\ kept'[h] = {}
  BY DEF FenceAll, Flush, DropKept, IInv, TypeOK
<1>5. ASSUME NEW g \in Hart \ {h}
      PROVE  /\ tlb'[g] = tlb[g] /\ kept'[g] \subseteq kept[g] /\ Grows(g)
             /\ virt'[g] = virt[g] /\ borrow'[g] = borrow[g] /\ pmp'[g] = pmp[g]
  BY DEF FenceAll, Flush, DropKept, IInv, TypeOK, Grows, regs, mode
<1> QED
  BY <1>2, <1>3, <1>4, <1>5, FlushStep

LEMMA WriteMisaStep ==
  ASSUME IInv, NEW h \in Hart, WriteMisa(h)
  PROVE  IInv'
<1>1. TypeOK'
  BY DEF IInv, TypeOK, WriteMisa, memory, regs, mode, flags
<1>2. SinceInv'
  BY DEF IInv, SinceInv, WriteMisa, memory, regs, CurrentLeaves
<1>3. table' = table /\ tlb'[h] = {} /\ kept'[h] = {}
  BY DEF WriteMisa, IInv, TypeOK, memory
<1>4. ASSUME NEW g \in Hart \ {h}
      PROVE  /\ tlb'[g] = tlb[g] /\ kept'[g] \subseteq kept[g] /\ Grows(g)
             /\ virt'[g] = virt[g] /\ borrow'[g] = borrow[g] /\ pmp'[g] = pmp[g]
  BY DEF WriteMisa, IInv, TypeOK, Grows, memory, regs, mode
<1> QED
  BY <1>1, <1>2, <1>3, <1>4, FlushStep

LEMMA RestoredStep ==
  ASSUME IInv, Restored
  PROVE  IInv'
<1>1. \A h \in Hart : CurrentLeaves(table, satp[h]) \in [Pages -> SUBSET Leaf]
  BY LeavesType DEF IInv, TypeOK
<1>2. TypeOK'
  BY <1>1 DEF IInv, TypeOK, Restored, regs, mode, flags
<1>3. SinceInv' /\ RangeInv'
  BY DEF IInv, SinceInv, RangeInv, Restored, regs, CurrentLeaves
<1>4. \A h \in Hart : tlb'[h] = {} /\ kept'[h] = {}
  BY DEF Restored
<1> QED
  BY <1>2, <1>3, <1>4, Assemble
-------------------------------------------------------------------------------
(* A table that changes in memory only adds to what its pages have been.   *)
LEMMA TableGrows ==
  ASSUME IInv, NEW tabs \in [Roots -> [Slots -> Pte]], TableBecomes(tabs),
         UNCHANGED <<satp, pbmte>>, \A h \in Hart : mega[h] => mega'[h]
  PROVE  /\ since' \in [Hart -> [Pages -> SUBSET Leaf]]
         /\ SinceInv'
         /\ \A h \in Hart : Grows(h)
<1>1. \A h \in Hart : CurrentLeaves(tabs, satp[h]) \in [Pages -> SUBSET Leaf]
  BY LeavesType DEF IInv, TypeOK
<1>2. since' \in [Hart -> [Pages -> SUBSET Leaf]]
  BY <1>1 DEF IInv, TypeOK, TableBecomes
<1>3. SinceInv'
  BY DEF SinceInv, TableBecomes, CurrentLeaves
<1>4. \A h \in Hart : Grows(h)
  BY DEF Grows, TableBecomes, IInv, TypeOK
<1> QED
  BY <1>2, <1>3, <1>4

LEMMA WritePteStep ==
  ASSUME IInv, NEW root \in Roots, NEW slot \in Slots, NEW pte \in Ptes[slot],
         WritePte(root, slot, pte)
  PROVE  IInv'
<1> DEFINE tabs == [table EXCEPT ![root][slot] = pte]
<1>1. pte \in Pte
  BY TablesAssumption
<1>2. tabs \in [Roots -> [Slots -> Pte]]
  BY <1>1 DEF IInv, TypeOK
<1>3. TableBecomes(tabs) /\ UNCHANGED <<regs, caches>>
  BY DEF WritePte
<1>4. /\ since' \in [Hart -> [Pages -> SUBSET Leaf]]
      /\ SinceInv'
      /\ \A h \in Hart : Grows(h)
  BY <1>2, <1>3, TableGrows DEF regs, caches
<1>5. TypeOK'
  BY <1>2, <1>3, <1>4 DEF IInv, TypeOK, TableBecomes, regs, mode, flags, caches
<1>6. RangeInv'
  <2>1. InRange(slot, pte)
    BY RangeAssumption DEF InRange
  <2> QED
    BY <2>1, <1>3 DEF IInv, TypeOK, RangeInv, TableBecomes, InRange
<1>7. ASSUME NEW h \in Hart
      PROVE  /\ \A e \in tlb'[h] : TlbGood(h, e)'
             /\ \A e \in kept'[h] : KeptGood(h, e)'
             /\ \A e \in kept'[h] : AllowedGood(h, e)'
  <2>1. /\ tlb'[h] = tlb[h] /\ kept'[h] = kept[h]
        /\ virt'[h] = virt[h] /\ borrow'[h] = borrow[h] /\ pmp'[h] = pmp[h]
    BY <1>3 DEF regs, mode, caches
  <2> QED
    BY <2>1, <1>4, EntriesStay
<1> QED
  BY <1>4, <1>5, <1>6, <1>7, Assemble

-------------------------------------------------------------------------------
(* SUM and MXR mean nothing to a fetch, so its page cache leaves them out. *)
LEMMA FetchFlags ==
  ASSUME NEW pte, NEW type, NEW pr, NEW s, NEW m, NEW s2, NEW m2,
         type # "fetch" => (s2 = s /\ m2 = m), Permits(pte, type, pr, s, m)
  PROVE  Permits(pte, type, pr, s2, m2)
<1>1. CASE type = "fetch"
  BY <1>1 DEF Permits
<1>2. CASE type # "fetch"
  BY <1>2
<1> QED
  BY <1>1, <1>2

(* What an access that came out at frame f keeps is good, if the walk or   *)
(* the TLB entry behind it is.                                             *)
LEMMA KeepGood ==
  ASSUME Untagged, IInv, NEW h \in Hart, NEW v \in Address, NEW type \in AccessTypes,
         NEW f \in Frames, Keep(h, v, type, f), UNCHANGED regs, ~virt[h],
         \A g \in Hart : Grows(g),
         NEW pr, NEW s, NEW m, pr = EffPriv(h, type), s = sum[h], m = mxr[h],
         IF Paging(h, type) THEN CountedAnswers(h, v.page, type, pr, s, m, f)'
                            ELSE f = v.page
  PROVE  /\ kept' \in [Hart -> SUBSET KeptEntries]
         /\ \A g \in Hart : \A e \in kept'[g] : KeptGood(g, e)'
         /\ \A g \in Hart : \A e \in kept'[g] : AllowedGood(g, e)'
<1>1. CASE ~(type \in Kinds /\ MayKeep(h, type, f))
  <2>1. kept' = kept
    BY <1>1 DEF Keep
  <2>2. kept' \in [Hart -> SUBSET KeptEntries]
    BY <2>1 DEF IInv, TypeOK
  <2>3. ASSUME NEW g \in Hart
        PROVE  /\ \A e \in kept'[g] : KeptGood(g, e)'
               /\ \A e \in kept'[g] : AllowedGood(g, e)'
    <3>1. \A e \in kept'[g] : KeptGood(g, e)'
      BY <2>1, KeptStays
    <3>2. \A e \in kept'[g] : AllowedGood(g, e)'
      BY <2>1, AllowedStays DEF regs, mode
    <3> QED
      BY <3>1, <3>2
  <2> QED
    BY <2>2, <2>3
<1>2. CASE type \in Kinds /\ MayKeep(h, type, f)
  <2> PICK new : new = KeptEntry(h, type, v, f)
    OBVIOUS
  <2>1. kept' = [kept EXCEPT ![h] =
                   {e \in @ : e.kind # type \/ Index(e.page) # Index(v.page)} \cup {new}]
    BY <1>2 DEF Keep
  <2>2. /\ new.kind = type /\ new.page = v.page /\ new.tag = v.tag
        /\ new.priv = priv[h] /\ new.frame = f
    BY DEF KeptEntry
  <2>3. new \in KeptEntries
    <3>1. v.page \in Pages /\ v.tag \in Tags /\ priv[h] \in {"U", "S", "M"}
      BY DEF Address, IInv, TypeOK
    <3>2. (type # "fetch" /\ sum[h]) \in BOOLEAN /\ (type # "fetch" /\ mxr[h]) \in BOOLEAN
      OBVIOUS
    <3> QED
      BY <1>2, <3>1, <3>2 DEF KeptEntry, KeptEntries
  <2>4. kept' \in [Hart -> SUBSET KeptEntries]
    BY <2>1, <2>3 DEF IInv, TypeOK
  <2>5. AllowedGood(h, new)'
    <3>1. AllowedGood(h, new)
      BY <1>2, <2>2 DEF AllowedGood, MayKeep
    <3>2. virt'[h] = virt[h] /\ borrow'[h] = borrow[h] /\ pmp'[h] = pmp[h]
      BY DEF regs, mode
    <3> QED
      BY <3>1, <3>2 DEF AllowedGood, PmpPermits
  <2>6. KeptGood(h, new)'
    <3>1. new.tag = 0
      BY <2>2 DEF Untagged, Address
    <3>2. pr = priv[h]
      BY <1>2 DEF MayKeep, EffPriv
    <3>3. satp'[h] = satp[h]
      BY DEF regs
    <3>4. CASE priv[h] = "M" \/ satp[h] = Bare
      BY <2>2, <3>1, <3>2, <3>3, <3>4 DEF KeptGood, Paging
    <3>5. CASE ~(priv[h] = "M" \/ satp[h] = Bare)
      <4>1. CountedAnswers(h, v.page, type, pr, s, m, f)'
        BY <3>2, <3>5 DEF Paging
      <4>2. type # "fetch" => (new.sum = s /\ new.mxr = m)
        <5>1. new.sum = (type # "fetch" /\ sum[h]) /\ new.mxr = (type # "fetch" /\ mxr[h])
          BY DEF KeptEntry
        <5>2. sum[h] \in BOOLEAN /\ mxr[h] \in BOOLEAN
          BY DEF IInv, TypeOK
        <5> QED
          BY <5>1, <5>2
      <4>4. CountedAnswers(h, v.page, type, pr, new.sum, new.mxr, f)'
        <5>1. PICK leaf \in since'[h][v.page] :
                Grants(h, v.page, type, leaf, pr, s, m, f)' /\ (leaf.slot = Mega => mega'[h])
          BY <4>1 DEF CountedAnswers
        <5>2. Permits(leaf.pte, type, pr, s, m)
          BY <5>1 DEF Grants
        <5>3. Permits(leaf.pte, type, pr, new.sum, new.mxr)
          BY <4>2, <5>2, FetchFlags
        <5>4. Grants(h, v.page, type, leaf, pr, new.sum, new.mxr, f)'
          BY <5>1, <5>3 DEF Grants
        <5> QED
          BY <5>1, <5>4 DEF CountedAnswers
      <4> QED
        BY <2>2, <3>1, <3>2, <3>3, <3>5, <4>4 DEF KeptGood
    <3> QED
      BY <3>4, <3>5
  <2>7. ASSUME NEW g \in Hart, NEW e \in kept'[g]
        PROVE  e \in kept[g] \/ (g = h /\ e = new)
    BY <2>1 DEF IInv, TypeOK
  <2>8. ASSUME NEW g \in Hart
        PROVE  /\ \A e \in kept'[g] : KeptGood(g, e)'
               /\ \A e \in kept'[g] : AllowedGood(g, e)'
    <3>1. \A e \in kept'[g] : KeptGood(g, e)'
      <4>1. \A e \in kept'[g] : e \in kept[g] \/ KeptGood(g, e)'
        BY <2>6, <2>7
      <4> QED
        BY <4>1, KeptStays
    <3>2. \A e \in kept'[g] : AllowedGood(g, e)'
      <4>1. \A e \in kept'[g] : e \in kept[g] \/ AllowedGood(g, e)'
        BY <2>5, <2>7
      <4> QED
        BY <4>1, AllowedStays DEF regs, mode
    <3> QED
      BY <3>1, <3>2
  <2> QED
    BY <2>4, <2>8
<1> QED
  BY <1>1, <1>2
-------------------------------------------------------------------------------
LEMMA UntranslatedStep ==
  ASSUME Untagged, IInv, NEW h \in Hart, NEW v \in Address, NEW type \in Types,
         Untranslated(h, v, type)
  PROVE  IInv'
<1>1. /\ ~virt[h] /\ ~Paging(h, type)
      /\ Keep(h, v, type, v.page)
      /\ UNCHANGED <<memory, regs, tlb, mega>>
  BY DEF Untranslated, Misses
<1>2. v.page \in Frames /\ type \in AccessTypes
  BY PagesAssumption, UseAssumption DEF Address
<1>3. \A g \in Hart : Grows(g)
  BY <1>1 DEF Grows, memory, regs, IInv, TypeOK
<1>4. PICK pr, s, m : pr = EffPriv(h, type) /\ s = sum[h] /\ m = mxr[h]
  OBVIOUS
<1>5. UNCHANGED regs
  BY <1>1
<1>6. /\ kept' \in [Hart -> SUBSET KeptEntries]
      /\ \A g \in Hart : \A e \in kept'[g] : KeptGood(g, e)'
      /\ \A g \in Hart : \A e \in kept'[g] : AllowedGood(g, e)'
  BY <1>1, <1>2, <1>3, <1>4, <1>5, KeepGood
<1>7. TypeOK'
  BY <1>1, <1>6 DEF IInv, TypeOK, memory, regs, mode, flags
<1>8. SinceInv' /\ RangeInv'
  BY <1>1 DEF IInv, SinceInv, RangeInv, memory, regs, CurrentLeaves
<1>9. \A g \in Hart : \A e \in tlb'[g] : TlbGood(g, e)'
  BY <1>1, <1>3, TlbStays
<1> QED
  BY <1>6, <1>7, <1>8, <1>9, Assemble

LEMMA TlbHitStep ==
  ASSUME Untagged, IInv, NEW h \in Hart, NEW v \in Address, NEW type \in Types,
         TlbHit(h, v, type)
  PROVE  IInv'
<1>1. PICK f \in InTlb(h, v.page, type) : Keep(h, v, type, f)
  BY DEF TlbHit
<1>2. /\ ~virt[h] /\ Paging(h, type)
      /\ UNCHANGED <<memory, regs, tlb, mega>>
  BY DEF TlbHit, Misses
<1>3. f \in Frames /\ type \in AccessTypes /\ v.page \in Pages
  BY <1>1, UseAssumption DEF Address, InTlb
<1>4. \A g \in Hart : Grows(g)
  BY <1>2 DEF Grows, memory, regs, IInv, TypeOK
<1>5. PICK pr, s, m : pr = EffPriv(h, type) /\ s = sum[h] /\ m = mxr[h]
  OBVIOUS
<1>6. CountedAnswers(h, v.page, type, pr, s, m, f)
  <2>1. PICK e \in tlb[h] : e = TlbEntry(h, v.page, type, f)
    BY <1>1 DEF InTlb
  <2>2. CountedAnswers(h, e.page, e.type, e.priv, e.sum, e.mxr, e.frame)
    BY DEF IInv, TlbInv
  <2>3. /\ e.page = v.page /\ e.type = type /\ e.priv = pr
        /\ e.sum = s /\ e.mxr = m /\ e.frame = f
    BY <1>5, <2>1 DEF TlbEntry
  <2> QED
    BY <2>2, <2>3
<1>7. CountedAnswers(h, v.page, type, pr, s, m, f)'
  BY <1>3, <1>4, <1>6, AnswersStay
<1>8. UNCHANGED regs
  BY <1>2
<1>9. /\ kept' \in [Hart -> SUBSET KeptEntries]
      /\ \A g \in Hart : \A e \in kept'[g] : KeptGood(g, e)'
      /\ \A g \in Hart : \A e \in kept'[g] : AllowedGood(g, e)'
  BY <1>1, <1>2, <1>3, <1>4, <1>5, <1>7, <1>8, KeepGood
<1>10. TypeOK'
  BY <1>2, <1>9 DEF IInv, TypeOK, memory, regs, mode, flags
<1>11. SinceInv' /\ RangeInv'
  BY <1>2 DEF IInv, SinceInv, RangeInv, memory, regs, CurrentLeaves
<1>12. \A g \in Hart : \A e \in tlb'[g] : TlbGood(g, e)'
  BY <1>2, <1>4, TlbStays
<1> QED
  BY <1>9, <1>10, <1>11, <1>12, Assemble

-------------------------------------------------------------------------------
(* What a walk that finds a leaf may count on.                             *)
LEMMA WalkLeaf ==
  ASSUME IInv, NEW h \in Hart, NEW p \in Pages, satp[h] # Bare,
         NEW leaf, leaf = LeafOf(table[satp[h]], p), leaf.pte.perm # {}
  PROVE  /\ satp[h] \in Roots
         /\ leaf.slot \in Slots /\ leaf.pte \in Pte
         /\ leaf.pte = table[satp[h]][leaf.slot]
         /\ leaf \in since[h][p]
         /\ FrameOf(leaf, p) \in Frames
<1>1. satp[h] \in Roots
  BY DEF IInv, TypeOK
<1>2. /\ leaf.slot \in Slots
      /\ leaf.pte = table[satp[h]][leaf.slot]
      /\ leaf.slot # Mega => leaf.slot = p
  BY DEF LeafOf, Slots
<1>3. leaf.pte \in Pte
  BY <1>1, <1>2 DEF IInv, TypeOK
<1>4. leaf \in since[h][p]
  BY DEF IInv, SinceInv, CurrentLeaves
<1>5. InRange(leaf.slot, leaf.pte)
  BY <1>1, <1>2 DEF IInv, RangeInv
<1>6. FrameOf(leaf, p) \in Frames
  BY <1>5 DEF InRange, FrameOf
<1> QED
  BY <1>1, <1>2, <1>3, <1>4, <1>6

LEMMA WalkStep ==
  ASSUME Untagged, IInv, NEW h \in Hart, NEW v \in Address, NEW type \in Types,
         Walk(h, v, type)
  PROVE  IInv'
<1>1. PICK leaf : leaf = LeafOf(table[satp[h]], v.page)
  OBVIOUS
<1>2. PICK f : f = FrameOf(leaf, v.page)
  OBVIOUS
<1>3. PICK pr, s, m : pr = EffPriv(h, type) /\ s = sum[h] /\ m = mxr[h]
  OBVIOUS
<1>4. /\ ~virt[h] /\ Paging(h, type) /\ leaf.pte.perm # {}
      /\ Permits(leaf.pte, type, pr, s, m)
      /\ UNCHANGED regs
  BY <1>1, <1>3 DEF Walk, Misses
<1>5. v.page \in Pages /\ type \in AccessTypes /\ satp[h] # Bare
  BY <1>4, UseAssumption DEF Address, Paging
<1>6. /\ satp[h] \in Roots
      /\ leaf.slot \in Slots /\ leaf.pte \in Pte
      /\ leaf.pte = table[satp[h]][leaf.slot]
      /\ leaf \in since[h][v.page]
      /\ f \in Frames
  BY <1>1, <1>2, <1>4, <1>5, WalkLeaf
<1>7. CASE /\ AdSet(leaf.pte, type) /\ Encoded(h, leaf.pte)
           /\ mega' = [mega EXCEPT ![h] = @ \/ leaf.slot = Mega]
           /\ Keep(h, v, type, f)
           /\ Insert(h, v.page, type, f)
           /\ UNCHANGED memory
  <2>1. /\ mega' \in [Hart -> BOOLEAN]
        /\ leaf.slot = Mega => mega'[h]
        /\ \A g \in Hart : mega[g] => mega'[g]
    BY <1>7 DEF IInv, TypeOK
  <2>2. \A g \in Hart : Grows(g)
    BY <1>4, <1>7, <2>1 DEF Grows, memory, regs
  <2>3. CountedAnswers(h, v.page, type, pr, s, m, f)'
    <3>1. leaf \in since'[h][v.page]
      BY <1>5, <1>6, <2>2 DEF Grows
    <3>2. Encoded(h, leaf.pte)'
      BY <1>7, <2>2 DEF Encoded, Grows
    <3>3. Grants(h, v.page, type, leaf, pr, s, m, f)'
      BY <1>2, <1>4, <1>7, <3>2 DEF Grants
    <3> QED
      BY <2>1, <3>1, <3>3 DEF CountedAnswers
  <2>4. /\ kept' \in [Hart -> SUBSET KeptEntries]
        /\ \A g \in Hart : \A e \in kept'[g] : KeptGood(g, e)'
        /\ \A g \in Hart : \A e \in kept'[g] : AllowedGood(g, e)'
    BY <1>3, <1>4, <1>5, <1>6, <1>7, <2>2, <2>3, KeepGood
  <2>5. PICK new : new = TlbEntry(h, v.page, type, f)
    OBVIOUS
  <2>6. tlb' = [tlb EXCEPT ![h] =
                  {e \in @ : Index(e.page) # Index(v.page) \/ Column(e.type) # Column(type)}
                  \cup {new}]
    BY <1>7, <2>5 DEF Insert
  <2>7. /\ new.page = v.page /\ new.type = type /\ new.priv = pr
        /\ new.sum = s /\ new.mxr = m /\ new.frame = f
    BY <1>3, <2>5 DEF TlbEntry
  <2>8. new \in TlbEntries
    <3>1. pr \in {"U", "S"}
      BY <1>3, <1>4 DEF Paging, EffPriv, IInv, TypeOK
    <3>2. s \in BOOLEAN /\ m \in BOOLEAN
      BY <1>3 DEF IInv, TypeOK
    <3>3. new = [page |-> v.page, type |-> type, priv |-> pr, sum |-> s, mxr |-> m, frame |-> f]
      BY <1>3, <2>5 DEF TlbEntry
    <3> QED
      BY <1>5, <1>6, <3>1, <3>2, <3>3 DEF TlbEntries
  <2>9. tlb' \in [Hart -> SUBSET TlbEntries]
    BY <2>6, <2>8 DEF IInv, TypeOK
  <2>10. TlbGood(h, new)'
    BY <1>5, <2>2, <2>3, <2>7 DEF TlbGood, Grows
  <2>11. \A g \in Hart : \A e \in tlb'[g] : TlbGood(g, e)'
    <3>1. ASSUME NEW g \in Hart
          PROVE  \A e \in tlb'[g] : e \in tlb[g] \/ TlbGood(g, e)'
      <4>1. ASSUME NEW e \in tlb'[g]
            PROVE  e \in tlb[g] \/ (g = h /\ e = new)
        BY <2>6 DEF IInv, TypeOK
      <4> QED
        BY <2>10, <4>1
    <3> QED
      BY <2>2, <3>1, TlbStays
  <2>12. TypeOK'
    BY <1>4, <1>7, <2>1, <2>4, <2>9 DEF IInv, TypeOK, memory, regs, mode, flags
  <2>13. SinceInv' /\ RangeInv'
    BY <1>4, <1>7 DEF IInv, SinceInv, RangeInv, memory, regs, CurrentLeaves
  <2> QED
    BY <2>4, <2>11, <2>12, <2>13, Assemble
<1> DEFINE tabs == [table EXCEPT ![satp[h]][leaf.slot] = WithAd(@, type)]
<1>8. CASE /\ TableBecomes(tabs)
           /\ \/ /\ Encoded(h, leaf.pte)
                 /\ mega' = [mega EXCEPT ![h] = @ \/ leaf.slot = Mega]
                 /\ Keep(h, v, type, f)
              \/ UNCHANGED <<kept, mega>>
           /\ UNCHANGED tlb
  <2>1. /\ WithAd(leaf.pte, type) \in Pte
        /\ WithAd(leaf.pte, type).perm = leaf.pte.perm
        /\ WithAd(leaf.pte, type).frame = leaf.pte.frame
        /\ WithAd(leaf.pte, type).u = leaf.pte.u
        /\ WithAd(leaf.pte, type).pbmt = leaf.pte.pbmt
    BY <1>6 DEF WithAd, Pte
  <2>2. tabs \in [Roots -> [Slots -> Pte]]
    BY <1>6, <2>1 DEF IInv, TypeOK
  <2>3. /\ mega' \in [Hart -> BOOLEAN]
        /\ \A g \in Hart : mega[g] => mega'[g]
    BY <1>8 DEF IInv, TypeOK
  <2>4. UNCHANGED <<satp, pbmte>>
    BY <1>4 DEF regs
  <2>5. /\ since' \in [Hart -> [Pages -> SUBSET Leaf]]
        /\ SinceInv'
        /\ \A g \in Hart : Grows(g)
    BY <1>8, <2>2, <2>3, <2>4, TableGrows
  <2>6. table' = tabs
    BY <1>8 DEF TableBecomes
  <2>7. RangeInv'
    <3>1. ASSUME NEW root \in Roots, NEW slot \in Slots
          PROVE  /\ table'[root][slot].perm = table[root][slot].perm
                 /\ table'[root][slot].frame = table[root][slot].frame
      BY <1>6, <2>1, <2>6 DEF IInv, TypeOK
    <3> QED
      BY <3>1 DEF IInv, RangeInv, InRange
  <2>8. /\ kept' \in [Hart -> SUBSET KeptEntries]
        /\ \A g \in Hart : \A e \in kept'[g] : KeptGood(g, e)'
        /\ \A g \in Hart : \A e \in kept'[g] : AllowedGood(g, e)'
    <3>1. CASE /\ Encoded(h, leaf.pte)
               /\ mega' = [mega EXCEPT ![h] = @ \/ leaf.slot = Mega]
               /\ Keep(h, v, type, f)
      <4>1. PICK set : set = [slot |-> leaf.slot, pte |-> WithAd(leaf.pte, type)]
        OBVIOUS
      <4>2. set = LeafOf(tabs[satp[h]], v.page)
        <5>1. Mega \in Slots /\ v.page \in Slots /\ v.page # Mega
          BY <1>5, PagesAssumption DEF Slots, Mega
        <5>2. /\ tabs[satp[h]][leaf.slot] = WithAd(leaf.pte, type)
              /\ \A slot \in Slots \ {leaf.slot} : tabs[satp[h]][slot] = table[satp[h]][slot]
          BY <1>6 DEF IInv, TypeOK
        <5>3. CASE table[satp[h]][Mega].perm # {}
          <6>1. leaf.slot = Mega
            BY <1>1, <5>3 DEF LeafOf
          <6>2. tabs[satp[h]][Mega] = WithAd(leaf.pte, type)
            BY <5>2, <6>1
          <6>3. tabs[satp[h]][Mega].perm # {}
            BY <1>4, <2>1, <6>2
          <6> QED
            BY <4>1, <6>1, <6>2, <6>3 DEF LeafOf
        <5>4. CASE table[satp[h]][Mega].perm = {}
          <6>1. leaf.slot = v.page
            BY <1>1, <5>4 DEF LeafOf
          <6>2. tabs[satp[h]][v.page] = WithAd(leaf.pte, type)
            BY <5>2, <6>1
          <6>3. tabs[satp[h]][Mega].perm = {}
            BY <5>1, <5>2, <5>4, <6>1
          <6> QED
            BY <4>1, <6>1, <6>2, <6>3 DEF LeafOf
        <5> QED
          BY <5>3, <5>4
      <4>3. set \in since'[h][v.page]
        <5>1. since'[h][v.page] = since[h][v.page] \cup CurrentLeaves(tabs, satp[h])[v.page]
          BY <1>5, <1>8 DEF TableBecomes
        <5>2. set \in CurrentLeaves(tabs, satp[h])[v.page]
          <6>1. set.pte.perm # {}
            BY <1>4, <2>1, <4>1
          <6> QED
            BY <1>5, <4>2, <6>1 DEF CurrentLeaves
        <5> QED
          BY <5>1, <5>2
      <4>4. Grants(h, v.page, type, set, pr, s, m, f)'
        <5>1. Permits(set.pte, type, pr, s, m)
          BY <1>4, <2>1, <4>1 DEF Permits
        <5>2. AdSet(set.pte, type)
          BY <1>6, <4>1 DEF AdSet, WithAd, Pte
        <5>3. Encoded(h, set.pte)'
          BY <2>1, <2>4, <3>1, <4>1 DEF Encoded
        <5>4. FrameOf(set, v.page) = f
          BY <1>2, <2>1, <4>1 DEF FrameOf
        <5> QED
          BY <5>1, <5>2, <5>3, <5>4 DEF Grants
      <4>5. set.slot = Mega => mega'[h]
        BY <3>1, <4>1 DEF IInv, TypeOK
      <4>6. CountedAnswers(h, v.page, type, pr, s, m, f)'
        BY <4>3, <4>4, <4>5 DEF CountedAnswers
      <4> QED
        BY <1>3, <1>4, <1>5, <1>6, <2>5, <3>1, <4>6, KeepGood
    <3>2. CASE UNCHANGED <<kept, mega>>
      <4>1. kept' \in [Hart -> SUBSET KeptEntries]
        BY <3>2 DEF IInv, TypeOK
      <4>2. \A g \in Hart : \A e \in kept'[g] : KeptGood(g, e)'
        BY <2>5, <3>2, KeptStays
      <4>3. \A g \in Hart : \A e \in kept'[g] : AllowedGood(g, e)'
        BY <1>4, <3>2, AllowedStays DEF regs, mode
      <4> QED
        BY <4>1, <4>2, <4>3
    <3> QED
      BY <1>8, <3>1, <3>2
  <2>9. \A g \in Hart : \A e \in tlb'[g] : TlbGood(g, e)'
    BY <1>8, <2>5, TlbStays
  <2>10. TypeOK'
    BY <1>4, <1>8, <2>2, <2>3, <2>5, <2>6, <2>8 DEF IInv, TypeOK, regs, mode, flags
  <2> QED
    BY <2>5, <2>7, <2>8, <2>9, <2>10, Assemble
<1> QED
  BY <1>1, <1>2, <1>7, <1>8 DEF Walk
-------------------------------------------------------------------------------
(* The address fence.  No entry needs more than the fence leaves: with no  *)
(* superpage about, what an entry of another page rests on is not one.     *)
LEMMA FencePageStep ==
  ASSUME Untagged, IInv, NEW h \in Hart, NEW p \in Pages, FencePage(h, p)
  PROVE  IInv'
<1>1. CurrentLeaves(table, satp[h]) \in [Pages -> SUBSET Leaf]
  BY LeavesType DEF IInv, TypeOK
<1>2. SinceFence(h, p) \in [Pages -> SUBSET Leaf]
  BY <1>1 DEF SinceFence, IInv, TypeOK
<1>3. /\ since' = [since EXCEPT ![h] = SinceFence(h, p)]
      /\ table' = table /\ UNCHANGED regs
  BY DEF FencePage
<1>4. SinceInv'
  BY <1>3 DEF IInv, SinceInv, TypeOK, SinceFence, regs, CurrentLeaves
<1>5. RangeInv'
  BY <1>3 DEF IInv, RangeInv
<1>6. CASE mega[h]
  <2>1. Flush(h)
    BY <1>6 DEF FencePage
  <2>2. TypeOK'
    BY <1>2, <1>3, <2>1 DEF IInv, TypeOK, Flush, DropKept, regs, mode, flags
  <2>3. tlb'[h] = {} /\ kept'[h] = {}
    BY <2>1 DEF Flush, DropKept, IInv, TypeOK
  <2>4. ASSUME NEW g \in Hart \ {h}
        PROVE  /\ tlb'[g] = tlb[g] /\ kept'[g] \subseteq kept[g] /\ Grows(g)
               /\ virt'[g] = virt[g] /\ borrow'[g] = borrow[g] /\ pmp'[g] = pmp[g]
    BY <1>3, <2>1 DEF Flush, DropKept, IInv, TypeOK, Grows, regs, mode
  <2> QED
    BY <1>3, <1>4, <2>2, <2>3, <2>4, FlushStep
<1>7. CASE ~mega[h]
  <2>1. /\ tlb' = [tlb EXCEPT ![h] = {e \in @ : e.page # p}]
        /\ kept' = [kept EXCEPT ![h] = {e \in @ : e.page # p \/ e.tag # 0}]
        /\ UNCHANGED mega
    BY <1>7 DEF FencePage
  <2>2. TypeOK'
    <3>1. tlb' \in [Hart -> SUBSET TlbEntries] /\ kept' \in [Hart -> SUBSET KeptEntries]
      BY <2>1 DEF IInv, TypeOK
    <3> QED
      BY <1>2, <1>3, <2>1, <3>1 DEF IInv, TypeOK, regs, mode, flags
  <2>3. ASSUME NEW q \in Pages \ {p}, NEW type, NEW pr, NEW s, NEW m, NEW f,
               CountedAnswers(h, q, type, pr, s, m, f)
        PROVE  CountedAnswers(h, q, type, pr, s, m, f)'
    <3>1. PICK leaf \in since[h][q] :
            Grants(h, q, type, leaf, pr, s, m, f) /\ (leaf.slot = Mega => mega[h])
      BY <2>3 DEF CountedAnswers
    <3>2. leaf \in since'[h][q]
      <4>1. since'[h] = SinceFence(h, p)
        BY <1>3 DEF IInv, TypeOK
      <4> QED
        BY <1>7, <3>1, <4>1 DEF SinceFence
    <3>3. Encoded(h, leaf.pte)'
      BY <1>3, <3>1 DEF Grants, Encoded, regs
    <3>4. Grants(h, q, type, leaf, pr, s, m, f)'
      BY <3>1, <3>3 DEF Grants
    <3> QED
      BY <1>7, <3>1, <3>2, <3>4 DEF CountedAnswers
  <2>4. ASSUME NEW e \in tlb'[h]
        PROVE  TlbGood(h, e)'
    <3>1. e \in tlb[h] /\ e.page # p
      BY <2>1 DEF IInv, TypeOK
    <3>2. e.page \in Pages \ {p}
      BY <3>1 DEF IInv, TypeOK, TlbEntries
    <3>3. TlbGood(h, e)
      BY <3>1 DEF IInv, TlbInv, TlbGood
    <3>4. CountedAnswers(h, e.page, e.type, e.priv, e.sum, e.mxr, e.frame)'
      BY <2>3, <3>2, <3>3 DEF TlbGood
    <3> QED
      BY <1>3, <3>3, <3>4 DEF TlbGood, regs
  <2>5. ASSUME NEW e \in kept'[h]
        PROVE  KeptGood(h, e)'
    <3>1. e \in kept[h] /\ (e.page # p \/ e.tag # 0)
      BY <2>1 DEF IInv, TypeOK
    <3>2. KeptGood(h, e)
      BY <3>1 DEF IInv, KeptInv, KeptGood
    <3>3. e.page \in Pages \ {p}
      BY <3>1, <3>2 DEF IInv, TypeOK, KeptEntries, KeptGood
    <3>4. satp'[h] = satp[h]
      BY <1>3 DEF regs
    <3>5. CASE e.priv = "M" \/ satp[h] = Bare
      BY <3>2, <3>4, <3>5 DEF KeptGood
    <3>6. CASE ~(e.priv = "M" \/ satp[h] = Bare)
      <4>1. CountedAnswers(h, e.page, e.kind, e.priv, e.sum, e.mxr, e.frame)'
        BY <2>3, <3>2, <3>3, <3>6 DEF KeptGood
      <4> QED
        BY <3>2, <3>4, <3>6, <4>1 DEF KeptGood
    <3> QED
      BY <3>5, <3>6
  <2>6. \A e \in kept'[h] : AllowedGood(h, e)'
    <3>1. \A e \in kept'[h] : e \in kept[h]
      BY <2>1 DEF IInv, TypeOK
    <3> QED
      BY <1>3, <3>1, AllowedStays DEF regs, mode
  <2>7. ASSUME NEW g \in Hart
        PROVE  /\ \A e \in tlb'[g] : TlbGood(g, e)'
               /\ \A e \in kept'[g] : KeptGood(g, e)'
               /\ \A e \in kept'[g] : AllowedGood(g, e)'
    <3>1. CASE g = h
      BY <2>4, <2>5, <2>6, <3>1
    <3>2. CASE g # h
      <4>1. /\ tlb'[g] \subseteq tlb[g] /\ kept'[g] \subseteq kept[g] /\ Grows(g)
            /\ virt'[g] = virt[g] /\ borrow'[g] = borrow[g] /\ pmp'[g] = pmp[g]
        BY <1>3, <2>1, <3>2 DEF Grows, IInv, TypeOK, regs, mode
      <4> QED
        BY <4>1, EntriesStay
    <3> QED
      BY <3>1, <3>2
  <2> QED
    BY <1>4, <1>5, <2>2, <2>7, Assemble
<1> QED
  BY <1>6, <1>7

-------------------------------------------------------------------------------
LEMMA InitInv == Init => IInv
<1> SUFFICES ASSUME Init PROVE IInv
  OBVIOUS
<1>1. TypeOK
  <2>1. table \in [Roots -> [Slots -> Pte]]
    BY DEF Init, Pte
  <2>2. since \in [Hart -> [Pages -> SUBSET Leaf]]
    BY DEF Init
  <2>3. tlb \in [Hart -> SUBSET TlbEntries] /\ kept \in [Hart -> SUBSET KeptEntries]
    BY DEF Init
  <2> QED
    BY <2>1, <2>2, <2>3 DEF Init, TypeOK
<1>2. TlbInv /\ KeptInv /\ AllowedInv
  BY DEF Init, TlbInv, KeptInv, AllowedInv
<1>3. SinceInv
  BY DEF Init, SinceInv, CurrentLeaves
<1>4. RangeInv
  BY DEF Init, RangeInv, InRange
<1> QED
  BY <1>1, <1>2, <1>3, <1>4 DEF IInv

LEMMA NextInv == ASSUME Untagged, IInv, [Next]_vars PROVE IInv'
<1>1. ASSUME NEW h \in Hart, NEW v \in Address, NEW type \in Types,
             Untranslated(h, v, type) \/ TlbHit(h, v, type) \/ Walk(h, v, type)
      PROVE  IInv'
  BY <1>1, UntranslatedStep, TlbHitStep, WalkStep
<1>2. ASSUME NEW root \in Roots, NEW slot \in Slots, NEW pte \in Ptes[slot],
             WritePte(root, slot, pte)
      PROVE  IInv'
  BY <1>2, WritePteStep
<1>3. ASSUME NEW h \in Hart, NEW f \in Flags, NEW b \in Privs \cup {"off"},
             WriteStatus(h, f[1], f[2], b)
      PROVE  IInv'
  BY <1>3, WriteStatusStep
<1>4. ASSUME NEW h \in Hart, NEW p \in Privs, NEW b \in {"U", "S", "M", "off"}, NEW g \in BOOLEAN,
             ChangeMode(h, p, b, g)
      PROVE  IInv'
  BY <1>4, ChangeModeStep
<1>5. ASSUME NEW h \in Hart, NEW root \in Roots \cup {Bare}, WriteSatp(h, root)
      PROVE  IInv'
  BY <1>5, WriteSatpStep
<1>6. ASSUME NEW h \in Hart, NEW state \in PmpStates, WritePmp(h, state)
      PROVE  IInv'
  BY <1>6, WritePmpStep
<1>7. ASSUME NEW h \in Hart, NEW b \in BOOLEAN, WriteEnvcfg(h, b)
      PROVE  IInv'
  BY <1>7, WriteEnvcfgStep
<1>8. ASSUME NEW h \in Hart, NEW p \in Pages, FencePage(h, p)
      PROVE  IInv'
  BY <1>8, FencePageStep
<1>9. ASSUME NEW h \in Hart, FenceAll(h) \/ WriteMisa(h)
      PROVE  IInv'
  BY <1>9, FenceAllStep, WriteMisaStep
<1>10. CASE Restored
  BY <1>10, RestoredStep
<1>11. CASE UNCHANGED vars
  <2>1. TypeOK' /\ UNCHANGED <<memory, satp, pbmte, tlb, mega, kept, virt, borrow, pmp, table, since>>
    BY <1>11 DEF IInv, TypeOK, vars, memory
  <2>2. SinceInv' /\ RangeInv'
    BY <2>1 DEF IInv, SinceInv, RangeInv, CurrentLeaves
  <2>3. ASSUME NEW g \in Hart
        PROVE  /\ \A e \in tlb'[g] : TlbGood(g, e)'
               /\ \A e \in kept'[g] : KeptGood(g, e)'
               /\ \A e \in kept'[g] : AllowedGood(g, e)'
    <3>1. Grows(g)
      BY <2>1 DEF Grows
    <3> QED
      BY <2>1, <3>1, EntriesStay
  <2> QED
    BY <2>1, <2>2, <2>3, Assemble
<1> QED
  BY <1>1, <1>2, <1>3, <1>4, <1>5, <1>6, <1>7, <1>8, <1>9, <1>10, <1>11 DEF Next

(* The invariant holds on a machine without tagged addresses.              *)
THEOREM InvariantHolds == Untagged => (Spec => []IInv)
<1> SUFFICES ASSUME Untagged PROVE Spec => []IInv
  OBVIOUS
<1>1. IInv /\ [Next]_vars => IInv'
  BY NextInv
<1> QED
  BY <1>1, InitInv, PTL DEF Spec

(* What the invariant says of every entry, it says of those a hit finds.   *)
LEMMA InvSound == ASSUME Untagged, IInv PROVE TlbSound /\ KeptSound /\ KeptAllowed
<1>1. TlbSound
  <2> SUFFICES ASSUME NEW h \in Hart, NEW p \in Pages, NEW type \in AccessTypes,
                      NEW f \in InTlb(h, p, type)
               PROVE  Answers(h, p, type, EffPriv(h, type), sum[h], mxr[h], f)
    BY DEF TlbSound
  <2>1. PICK e \in tlb[h] : e = TlbEntry(h, p, type, f)
    BY DEF InTlb
  <2>2. CountedAnswers(h, e.page, e.type, e.priv, e.sum, e.mxr, e.frame)
    BY DEF IInv, TlbInv
  <2>3. /\ e.page = p /\ e.type = type /\ e.priv = EffPriv(h, type)
        /\ e.sum = sum[h] /\ e.mxr = mxr[h] /\ e.frame = f
    BY <2>1 DEF TlbEntry
  <2> QED
    BY <2>2, <2>3 DEF CountedAnswers, Answers
<1>2. ASSUME NEW h \in Hart, NEW kind \in Kinds, NEW v \in Address, NEW f \in Kept(h, kind, v)
      PROVE  /\ Reaches(h, v, kind)
             /\ IF Paging(h, kind)
                THEN Answers(h, v.page, kind, EffPriv(h, kind), sum[h], mxr[h], f)
                ELSE f = v.page
             /\ ~virt[h]
             /\ PmpPermits(h, EffPriv(h, kind), kind, f)
             /\ f \in Ram
             /\ kind = "store" => f # Tohost
  <2>1. PICK e \in kept[h] : e = KeptEntry(h, kind, v, f)
    BY <1>2 DEF Kept
  <2>2. /\ e.kind = kind /\ e.page = v.page /\ e.tag = v.tag
        /\ e.priv = priv[h] /\ e.frame = f
    BY <2>1 DEF KeptEntry
  <2>3. KeptGood(h, e) /\ AllowedGood(h, e)
    BY DEF IInv, KeptInv, AllowedInv, KeptGood, AllowedGood
  <2>4. EffPriv(h, kind) = priv[h]
    BY <2>2, <2>3 DEF AllowedGood, EffPriv
  <2>5. Reaches(h, v, kind)
    BY <2>2, <2>3 DEF KeptGood, Reaches
  <2>6. CASE ~Paging(h, kind)
    BY <2>2, <2>3, <2>4, <2>5, <2>6 DEF KeptGood, AllowedGood, Paging
  <2>7. CASE Paging(h, kind)
    <3>1. CountedAnswers(h, v.page, kind, priv[h], e.sum, e.mxr, f)
      BY <2>2, <2>3, <2>4, <2>7 DEF KeptGood, Paging
    <3>2. PICK leaf \in since[h][v.page] : Grants(h, v.page, kind, leaf, priv[h], e.sum, e.mxr, f)
      BY <3>1 DEF CountedAnswers
    <3>3. kind # "fetch" => (sum[h] = e.sum /\ mxr[h] = e.mxr)
      <4>1. e.sum = (kind # "fetch" /\ sum[h]) /\ e.mxr = (kind # "fetch" /\ mxr[h])
        BY <2>1 DEF KeptEntry
      <4>2. sum[h] \in BOOLEAN /\ mxr[h] \in BOOLEAN
        BY DEF IInv, TypeOK
      <4> QED
        BY <4>1, <4>2
    <3>4. Permits(leaf.pte, kind, priv[h], e.sum, e.mxr)
      BY <3>2 DEF Grants
    <3>5. Permits(leaf.pte, kind, priv[h], sum[h], mxr[h])
      BY <3>3, <3>4, FetchFlags
    <3>6. Answers(h, v.page, kind, EffPriv(h, kind), sum[h], mxr[h], f)
      BY <2>4, <3>2, <3>5 DEF Answers, Grants
    <3> QED
      BY <2>2, <2>3, <2>4, <2>5, <2>7, <3>6 DEF AllowedGood
  <2> QED
    BY <2>6, <2>7
<1>3. KeptSound
  BY <1>2 DEF KeptSound
<1>4. KeptAllowed
  BY <1>2 DEF KeptAllowed
<1> QED
  BY <1>1, <1>3, <1>4

(* No hit, in the TLB or in a page cache, gives an access an answer that   *)
(* the tables did not give since the last fence, or that the hart's        *)
(* registers or its PMP would refuse it now.                               *)
THEOREM TranslationsSound ==
  Untagged => (Spec => [](TypeOK /\ TlbSound /\ KeptSound /\ KeptAllowed))
<1> SUFFICES ASSUME Untagged
             PROVE  Spec => [](TypeOK /\ TlbSound /\ KeptSound /\ KeptAllowed)
  OBVIOUS
<1>1. IInv => TypeOK /\ TlbSound /\ KeptSound /\ KeptAllowed
  BY InvSound DEF IInv
<1> QED
  BY <1>1, InvariantHolds, PTL

(* The TLB by itself: a hit gives what the tables gave at some time since  *)
(* the hart's last fence that covers the page.                             *)
THEOREM TlbCorrect == Untagged => (Spec => []TlbSound)
<1> SUFFICES ASSUME Untagged PROVE Spec => []TlbSound
  OBVIOUS
<1> QED
  BY TranslationsSound, PTL

(* What a page cache keeps is memory that PMP opens to the access as it    *)
(* would be made now, and never answers a guest.                           *)
THEOREM KeptCorrect == Untagged => (Spec => []KeptAllowed)
<1> SUFFICES ASSUME Untagged PROVE Spec => []KeptAllowed
  OBVIOUS
<1> QED
  BY TranslationsSound, PTL

(* The registers, the tables and everything remembered keep their types.   *)
THEOREM TypeCorrect == Untagged => (Spec => []TypeOK)
<1> SUFFICES ASSUME Untagged PROVE Spec => []TypeOK
  OBVIOUS
<1> QED
  BY TranslationsSound, PTL
-------------------------------------------------------------------------------
(* PMP.                                                                    *)

LEMMA DivMod ==
  ASSUME NEW v \in Nat, NEW s \in Nat \ {0}
  PROVE  /\ v \div s \in Nat /\ v % s \in Nat
         /\ v = s * (v \div s) + (v % s)
         /\ v % s < s
  BY Z3

LEMMA SameQuotient ==
  ASSUME NEW v \in Nat, NEW g \in Nat, NEW s \in Nat \ {0}
  PROVE  (v - (v % s) <= g /\ g < (v - (v % s)) + s) <=> g \div s = v \div s
  BY DivMod

-------------------------------------------------------------------------------
(* PmpTypeOK is inductive: the list is always one that rebuild_cache would    *)
(* make now, or none.                                                      *)
LEMMA InitType == PmpInit => PmpTypeOK
<1> SUFFICES ASSUME PmpInit PROVE PmpTypeOK
  OBVIOUS
<1>1. Off \in Cfg
  BY DEF Off, Cfg, Mode, Kind
<1>2. 0 \in Addr
  BY PmpAssumption, BinaryAssumption DEF Addr
<1> QED
  BY <1>1, <1>2, PmpAssumption DEF PmpInit, PmpTypeOK, Entry

LEMMA LegalType ==
  ASSUME NEW old \in Cfg, NEW new \in Cfg
  PROVE  Legal(old, new) \in Cfg
  BY DEF Legal, Cfg, Mode

LEMMA Unmoved ==
  ASSUME NEW h, grain' = grain, cfg' = cfg, addr' = addr
  PROVE  Decoded(h)' = Decoded(h)
<1>1. \A i : AddrOf(h, i)' = AddrOf(h, i)
  BY DEF AddrOf
<1>2. \A i : RegionOf(h, i)' = RegionOf(h, i)
  BY <1>1 DEF RegionOf
<1> QED
  BY <1>2 DEF Decoded

LEMMA NextType ==
  ASSUME PmpTypeOK, [PmpNext]_pmpVars
  PROVE  PmpTypeOK'
<1>1. ASSUME NEW h \in Harts, Rebuild(h)
      PROVE  PmpTypeOK'
  <2>1. list' = Decoded(h)'
    BY <1>1, Unmoved DEF Rebuild
  <2> QED
    BY <1>1, <2>1, Zenon DEF Rebuild, PmpTypeOK
<1>2. ASSUME NEW h \in Harts, NEW base \in {i \in Entry : i % PerCsr = 0},
             NEW bytes \in CfgWrites[h], WriteCfg(h, base, bytes)
      PROVE  PmpTypeOK'
  <2>1. bytes \in [0..(PerCsr - 1) -> Cfg]
    BY <1>2, PmpAssumption
  <2> DEFINE after == [i \in Entry |-> IF i \in base..(base + PerCsr - 1) /\ i < Usable
                                      THEN Legal(cfg[h][i], bytes[i - base]) ELSE cfg[h][i]]
  <2>2. after \in [Entry -> Cfg]
    <3> SUFFICES ASSUME NEW i \in Entry, i \in base..(base + PerCsr - 1)
                 PROVE  Legal(cfg[h][i], bytes[i - base]) \in Cfg
      BY DEF PmpTypeOK
    <3>1. i - base \in 0..(PerCsr - 1)
      BY PmpAssumption DEF Entry
    <3> QED
      BY <2>1, <3>1, LegalType DEF PmpTypeOK
  <2>3. \A i \in Usable..(Entries - 1) : after[i] = Off
    BY PmpAssumption DEF PmpTypeOK, Entry
  <2>4. cfg' = [cfg EXCEPT ![h] = after]
    BY <1>2 DEF WriteCfg
  <2> HIDE DEF after
  <2>5. /\ cfg' \in [Harts -> [Entry -> Cfg]]
        /\ \A g \in Harts, i \in Usable..(Entries - 1) : cfg'[g][i] = Off
    BY <2>2, <2>3, <2>4 DEF PmpTypeOK
  <2>6. grain' = grain /\ addr' = addr /\ list' = NoList
    BY <1>2 DEF WriteCfg
  <2> QED
    BY <2>5, <2>6 DEF PmpTypeOK, NoList
<1>3. ASSUME NEW h \in Harts, NEW i \in Entry, NEW v \in AddrWrites[h], WriteAddr(h, i, v)
      PROVE  PmpTypeOK'
  <2>1. v \in Nat /\ 2 ^ AddrBits \in Nat \ {0}
    BY PmpAssumption, BinaryAssumption
  <2>2. v % (2 ^ AddrBits) \in Addr
    BY <2>1, DivMod DEF Addr
  <2>3. addr' \in [Harts -> [Entry -> Addr]]
    BY <1>3, <2>2 DEF WriteAddr, PmpTypeOK
  <2>4. grain' = grain /\ cfg' = cfg /\ list' = NoList
    BY <1>3 DEF WriteAddr
  <2> QED
    BY <2>3, <2>4 DEF PmpTypeOK, NoList
<1>4. ASSUME NEW s \in Snapshots, Restore(s)
      PROVE  PmpTypeOK'
  <2>1. grain' = grain /\ cfg' = s.cfg /\ addr' = s.addr /\ list' = NoList
    BY <1>4 DEF Restore
  <2> QED
    BY <2>1, PmpAssumption DEF PmpTypeOK, NoList
<1>5. CASE UNCHANGED pmpVars
  <2>1. grain' = grain /\ cfg' = cfg /\ addr' = addr /\ list' = list
    BY <1>5 DEF pmpVars
  <2>2. \A h \in Harts : Decoded(h)' = Decoded(h)
    BY <2>1, Unmoved
  <2> QED
    BY <2>1, <2>2, Zenon DEF PmpTypeOK, NoList
<1> QED
  BY <1>1, <1>2, <1>3, <1>4, <1>5 DEF PmpNext, PmpRestored

(* For any sizes, entries and writes, the list is empty or the decoded     *)
(* registers of a hart, and entries past the usable ones stay off.         *)
THEOREM PmpTypeCorrect == PmpSpec => []PmpTypeOK
  BY InitType, NextType, PTL DEF PmpSpec

-------------------------------------------------------------------------------
(* region_of is right: a byte is in an entry's region exactly when the     *)
(* entry matches it.                                                       *)
LEMMA LowestZeroType ==
  ASSUME NEW v \in Addr
  PROVE  2 ^ (LowestZero(v) + 1) \in Nat \ {0}
<1>1. LowestZero(v) \in 0..AddrBits
  BY BinaryAssumption DEF LowestZero
<1>2. LowestZero(v) + 1 \in 0..(AddrBits + 1)
  BY <1>1, PmpAssumption
<1> QED
  BY <1>2, BinaryAssumption

LEMMA RegionRight ==
  ASSUME PmpTypeOK, NEW h \in Harts, NEW i \in Entry, NEW b \in Nat
  PROVE  RegionOf(h, i)[1] <= b /\ b < RegionOf(h, i)[2] <=> Matches(h, i, b)
<1> DEFINE g == b \div 4
<1>1. g \in Nat /\ 4 * g <= b /\ b < (4 * g) + 4
  OBVIOUS
<1>2. \A j \in Entry : AddrOf(h, j) \in Nat /\ AddrOf(h, j) \in Addr
  <2>1. \A j \in Entry : cfg[h][j].a \in Mode /\ addr[h][j] \in Addr /\ grain \in Grains
    BY DEF PmpTypeOK, Cfg
  <2>2. Addr \subseteq Nat
    BY DEF Addr
  <2> QED
    BY <2>1, <2>2, BinaryAssumption DEF AddrOf
<1>3. i = 0 \/ i - 1 \in Entry
  BY PmpAssumption DEF Entry
<1>4. CASE cfg[h][i].a = "OFF"
  BY <1>4 DEF RegionOf, Matches
<1>5. CASE cfg[h][i].a = "TOR"
  BY <1>1, <1>2, <1>3, <1>5 DEF RegionOf, Matches
<1>6. CASE cfg[h][i].a = "NA4"
  <2> DEFINE a == AddrOf(h, i)
  <2>1. RegionOf(h, i) = <<4 * a, (4 * a) + 4>>
    BY <1>6 DEF RegionOf
  <2>2. Matches(h, i, b) <=> g = a
    BY <1>6 DEF Matches
  <2>3. a \in Nat
    BY <1>2
  <2> HIDE DEF a, g
  <2> QED
    BY <1>1, <2>1, <2>2, <2>3
<1>7. CASE cfg[h][i].a = "NAPOT"
  <2> DEFINE a == AddrOf(h, i)
             size == 2 ^ (LowestZero(a) + 1)
             low == a - (a % size)
  <2>1. a \in Nat /\ size \in Nat \ {0}
    BY <1>2, LowestZeroType
  <2>2. low \in Int
    BY <2>1, DivMod
  <2>3. (low <= g /\ g < low + size) <=> g \div size = a \div size
    BY <1>1, <2>1, SameQuotient
  <2>4. (4 * low <= b /\ b < 4 * (low + size)) <=> (low <= g /\ g < low + size)
    <3> HIDE DEF g, low, size
    <3> QED BY <1>1, <2>1, <2>2
  <2>5. RegionOf(h, i) = <<4 * low, 4 * (low + size)>>
    BY <1>7 DEF RegionOf, Napot
  <2>6. Matches(h, i, b) <=> g \div size = a \div size
    BY <1>7 DEF Matches
  <2> HIDE DEF low, size
  <2> QED
    BY <2>3, <2>4, <2>5, <2>6
<1> QED
  <2>1. cfg[h][i].a \in Mode
    BY DEF PmpTypeOK, Cfg
  <2> QED
    BY <1>4, <1>5, <1>6, <1>7, <2>1 DEF Mode
(* A region is an interval of bytes.                                       *)
LEMMA RegionType ==
  ASSUME PmpTypeOK, NEW h \in Harts, NEW i \in Entry
  PROVE  RegionOf(h, i)[1] \in Int /\ RegionOf(h, i)[2] \in Int
<1>1. \A j \in Entry : AddrOf(h, j) \in Nat /\ AddrOf(h, j) \in Addr
  <2>1. \A j \in Entry : cfg[h][j].a \in Mode /\ addr[h][j] \in Addr /\ grain \in Grains
    BY DEF PmpTypeOK, Cfg
  <2>2. Addr \subseteq Nat
    BY DEF Addr
  <2> QED
    BY <2>1, <2>2, BinaryAssumption DEF AddrOf
<1>2. i = 0 \/ i - 1 \in Entry
  BY PmpAssumption DEF Entry
<1>3. cfg[h][i].a \in Mode
  BY DEF PmpTypeOK, Cfg
<1>4. CASE cfg[h][i].a \in {"OFF", "TOR", "NA4"}
  BY <1>1, <1>2, <1>4 DEF RegionOf
<1>5. CASE cfg[h][i].a = "NAPOT"
  <2> DEFINE a == AddrOf(h, i)
             size == 2 ^ (LowestZero(a) + 1)
             low == a - (a % size)
  <2>1. a \in Nat /\ size \in Nat \ {0}
    BY <1>1, LowestZeroType
  <2>2. low \in Int
    BY <2>1, DivMod
  <2>3. RegionOf(h, i) = <<4 * low, 4 * (low + size)>>
    BY <1>5 DEF RegionOf, Napot
  <2> HIDE DEF low, size
  <2> QED
    BY <2>1, <2>2, <2>3
<1> QED
  BY <1>3, <1>4, <1>5 DEF Mode

(* In terms of the registers: what the decoded list says of bytes.         *)
LEMMA HoldsRight ==
  ASSUME PmpTypeOK, NEW h \in Harts, NEW i \in Entry, NEW b \in Nat
  PROVE  Holds(Decoded(h), i, b) <=> Matches(h, i, b)
  BY RegionRight DEF Holds, Decoded

LEMMA ActiveRight ==
  ASSUME PmpTypeOK, NEW h \in Harts, NEW i \in Entry, NEW b \in Nat, Matches(h, i, b)
  PROVE  i \in Active(Decoded(h))
  BY RegionRight, RegionType DEF Active, Decoded

LEMMA Between ==
  ASSUME PmpTypeOK, NEW h \in Harts, NEW i \in Entry, NEW first \in Nat, NEW last \in Nat,
         Matches(h, i, first), Matches(h, i, last), NEW b \in first..last
  PROVE  Matches(h, i, b)
<1>1. b \in Nat /\ first <= b /\ b <= last
  OBVIOUS
<1>2. RegionOf(h, i)[1] <= first /\ last < RegionOf(h, i)[2]
  BY RegionRight
<1>3. RegionOf(h, i)[1] <= b /\ b < RegionOf(h, i)[2]
  BY <1>1, <1>2, RegionType
<1> QED
  BY <1>1, <1>3, RegionRight

(* check, with the list made from the registers as they are.               *)
LEMMA CheckDecoded ==
  ASSUME PmpTypeOK, NEW h \in Harts, NEW first \in Nat, NEW last \in Nat, first <= last,
         NEW kind, NEW pr,
         \A i \in Entry : ~Within(h, i, first, last)
  PROVE  Check(Decoded(h), first, last, kind, pr) <=> Allowed(h, first, last, kind, pr)
<1> DEFINE hit == {i \in Active(Decoded(h)) : Holds(Decoded(h), i, first) \/ Holds(Decoded(h), i, last)}
<1>1. first \in first..last /\ last \in first..last /\ (first..last) \subseteq Nat
  OBVIOUS
<1>2. hit \subseteq Entry
  BY DEF Active
<1>3. \A i \in Entry : i \in hit <=> Matches(h, i, first) \/ Matches(h, i, last)
  BY HoldsRight, ActiveRight
<1>4. \A i \in Entry : i \in hit <=> \E b \in first..last : Matches(h, i, b)
  BY <1>1, <1>3 DEF Within
<1>5. \A i \in Entry : (\A b \in first..last : Matches(h, i, b))
                        <=> Holds(Decoded(h), i, first) /\ Holds(Decoded(h), i, last)
  BY <1>1, HoldsRight, Between
<1>6. \A i \in Entry : cfg[h][i] = Decoded(h).cfg[i]
  BY DEF Decoded
<1>7. Check(Decoded(h), first, last, kind, pr)
      <=> \/ hit = {} /\ pr = "M"
          \/ \E i \in hit : /\ First(i, hit)
                            /\ Holds(Decoded(h), i, first) /\ Holds(Decoded(h), i, last)
                            /\ EntryPermits(Decoded(h).cfg[i], kind, pr)
  BY Zenon DEF Check
<1> HIDE DEF hit
<1>8. hit = {} <=> \A i \in Entry, b \in first..last : ~Matches(h, i, b)
  BY <1>2, <1>4
<1>9. ASSUME NEW i \in Entry, \A b \in first..last : Matches(h, i, b)
      PROVE  /\ i \in hit
             /\ First(i, hit) <=> \A j \in Entry, b \in first..last : j < i => ~Matches(h, j, b)
  <2>1. i \in hit
    BY <1>1, <1>4, <1>9
  <2>2. First(i, hit) <=> \A j \in Entry : j < i => j \notin hit
    BY <1>2, <2>1 DEF First, Entry
  <2> QED
    BY <1>4, <2>1, <2>2
<1>10. (\E i \in hit : /\ First(i, hit)
                       /\ Holds(Decoded(h), i, first) /\ Holds(Decoded(h), i, last)
                       /\ EntryPermits(Decoded(h).cfg[i], kind, pr))
       <=> \E i \in Entry : /\ \A b \in first..last : Matches(h, i, b)
                            /\ \A j \in Entry, b \in first..last : j < i => ~Matches(h, j, b)
                            /\ EntryPermits(cfg[h][i], kind, pr)
  BY <1>2, <1>5, <1>6, <1>9, Zenon
<1> QED
  BY <1>7, <1>8, <1>10, Zenon DEF Allowed
(* page_permits, with the list made from the registers as they are: no     *)
(* entry is asked for an access that touches the page without being in it. *)
LEMMA PageDecoded ==
  ASSUME PmpTypeOK, NEW h \in Harts, NEW first \in Nat, NEW last \in Nat, first <= last,
         NEW page \in Nat, page <= first, last < page + Page,
         NEW kind, NEW pr, PagePermits(Decoded(h), page, kind, pr)
  PROVE  /\ Check(Decoded(h), first, last, kind, pr)
         /\ Allowed(h, first, last, kind, pr)
<1> DEFINE d == Decoded(h)
           touching == {i \in Active(d) : d.region[i][2] > page /\ d.region[i][1] < page + Page}
           hit == {i \in Active(d) : Holds(d, i, first) \/ Holds(d, i, last)}
<1>1. Page \in Nat /\ first \in first..last /\ last \in first..last /\ (first..last) \subseteq Nat
  BY PmpAssumption
<1>2. \A i \in Entry : d.region[i] = RegionOf(h, i) /\ d.cfg[i] = cfg[h][i]
  BY DEF Decoded
<1>3. touching \subseteq Entry /\ hit \subseteq Entry
  BY DEF Active
<1>4. ASSUME NEW i \in Entry, NEW b \in first..last, Matches(h, i, b)
      PROVE  i \in touching
  <2>1. i \in Active(d)
    BY <1>1, <1>4, ActiveRight
  <2>2. b \in Nat /\ page <= b /\ b < page + Page
    BY <1>1
  <2>3. RegionOf(h, i)[1] <= b /\ b < RegionOf(h, i)[2]
    BY <1>4, <2>2, RegionRight
  <2>4. RegionOf(h, i)[2] > page /\ RegionOf(h, i)[1] < page + Page
    BY <1>1, <2>2, <2>3, RegionType
  <2> HIDE DEF d
  <2> QED
    BY <1>2, <2>1, <2>4
<1>5. hit \subseteq touching
  <2> SUFFICES ASSUME NEW i \in hit PROVE i \in touching
    OBVIOUS
  <2>1. i \in Entry
    BY <1>3
  <2>2. Matches(h, i, first) \/ Matches(h, i, last)
    BY <2>1, HoldsRight
  <2> QED
    BY <1>1, <1>4, <2>1, <2>2
<1>6. \/ touching = {} /\ pr = "M"
      \/ \E i \in touching : /\ First(i, touching)
                             /\ d.region[i][1] <= page /\ d.region[i][2] >= page + Page
                             /\ EntryPermits(d.cfg[i], kind, pr)
  BY Zenon DEF PagePermits
<1>7. Check(d, first, last, kind, pr)
      <=> \/ hit = {} /\ pr = "M"
          \/ \E i \in hit : /\ First(i, hit) /\ Holds(d, i, first) /\ Holds(d, i, last)
                            /\ EntryPermits(d.cfg[i], kind, pr)
  BY Zenon DEF Check
<1>8. CASE touching = {} /\ pr = "M"
  <2>1. hit = {}
    BY <1>5, <1>8
  <2>2. \A i \in Entry, b \in first..last : ~Matches(h, i, b)
    BY <1>4, <1>8
  <2> HIDE DEF d, touching, hit
  <2> QED
    BY <1>7, <1>8, <2>1, <2>2 DEF d, Allowed
<1>9. CASE \E i \in touching : /\ First(i, touching)
                              /\ d.region[i][1] <= page /\ d.region[i][2] >= page + Page
                              /\ EntryPermits(d.cfg[i], kind, pr)
  <2>1. PICK i \in touching : /\ First(i, touching)
                             /\ d.region[i][1] <= page /\ d.region[i][2] >= page + Page
                             /\ EntryPermits(d.cfg[i], kind, pr)
    BY <1>9
  <2>2. i \in Entry
    BY <1>3
  <2>3. RegionOf(h, i)[1] <= page /\ RegionOf(h, i)[2] >= page + Page /\ EntryPermits(cfg[h][i], kind, pr)
    <3> HIDE DEF d, touching
    <3> QED BY <1>2, <2>1, <2>2
  <2>4. ASSUME NEW b \in first..last
        PROVE  Matches(h, i, b)
    <3>1. b \in Nat /\ page <= b /\ b < page + Page
      BY <1>1
    <3>2. RegionOf(h, i)[1] <= b /\ b < RegionOf(h, i)[2]
      BY <1>1, <2>2, <2>3, <3>1, RegionType
    <3> QED
      BY <2>2, <3>1, <3>2, RegionRight
  <2>5. Holds(d, i, first) /\ Holds(d, i, last)
    BY <1>1, <2>2, <2>4, HoldsRight
  <2>6. i \in hit
    BY <1>1, <2>2, <2>4, <2>5, ActiveRight
  <2>7. First(i, hit)
    BY <1>5, <2>1, <2>6 DEF First
  <2>8. \A j \in Entry, b \in first..last : j < i => ~Matches(h, j, b)
    <3> SUFFICES ASSUME NEW j \in Entry, NEW b \in first..last, j < i, Matches(h, j, b)
                 PROVE  FALSE
      OBVIOUS
    <3>1. j \in touching
      BY <1>4
    <3>2. i <= j
      BY <2>1, <3>1 DEF First
    <3> QED
      BY <2>2, <3>2 DEF Entry
  <2>9. Allowed(h, first, last, kind, pr)
    BY <2>2, <2>3, <2>4, <2>8, Zenon DEF Allowed
  <2>10. EntryPermits(d.cfg[i], kind, pr)
    BY <2>1
  <2> HIDE DEF d, hit, touching
  <2>11. Check(d, first, last, kind, pr)
    BY <1>7, <2>5, <2>6, <2>7, <2>10, Zenon
  <2> QED
    BY <2>9, <2>11 DEF d
<1> QED
  BY <1>6, <1>8, <1>9

LEMMA InvAnswers == PmpTypeOK => AnswersRight
<1> SUFFICES ASSUME PmpTypeOK, NEW h \in Harts, UpToDate(h),
                    NEW first \in Bytes, NEW n \in Lengths, NEW kind \in Kind, NEW pr \in Priv
             PROVE  /\ (\A i \in Entry : ~Within(h, i, first, first + n - 1)) =>
                         (Check(list, first, first + n - 1, kind, pr)
                            <=> Allowed(h, first, first + n - 1, kind, pr))
                    /\ \A page \in Bytes :
                         page <= first /\ first + n <= page + Page /\ PagePermits(list, page, kind, pr) =>
                           /\ Check(list, first, first + n - 1, kind, pr)
                           /\ Allowed(h, first, first + n - 1, kind, pr)
  BY ZenonT(60) DEF AnswersRight, ChecksRight, PagesRight
<1>1. list = Decoded(h)
  <2>1. list.owner = {h}
    BY DEF UpToDate
  <2>2. list # NoList
    BY <2>1 DEF NoList
  <2>3. PICK g \in Harts : list = Decoded(g)
    BY <2>2 DEF PmpTypeOK
  <2>4. g = h
    BY <2>1, <2>3 DEF Decoded
  <2> QED
    BY <2>3, <2>4
<1> DEFINE last == first + n - 1
<1>2. /\ first \in Nat /\ n \in Nat \ {0} /\ Bytes \subseteq Nat /\ Page \in Nat
      /\ last \in Nat /\ first <= last /\ last = first + n - 1
  BY PmpAssumption
<1> HIDE DEF last
<1>3. (\A i \in Entry : ~Within(h, i, first, last)) =>
        (Check(list, first, last, kind, pr) <=> Allowed(h, first, last, kind, pr))
  BY <1>1, <1>2, CheckDecoded
<1>4. \A page \in Bytes :
        page <= first /\ last < page + Page /\ PagePermits(list, page, kind, pr) =>
          Check(list, first, last, kind, pr) /\ Allowed(h, first, last, kind, pr)
  BY <1>1, <1>2, PageDecoded
<1>5. \A page \in Bytes : first + n <= page + Page => last < page + Page
  BY <1>2
<1> QED
  BY <1>2, <1>3, <1>4, <1>5

(* For any registers, written in any order by any hart, and any access:    *)
(* check is the architecture's answer unless an entry lies within the      *)
(* access, and what page_permits says holds of every access in the page.   *)
THEOREM AnswersCorrect == PmpSpec => []AnswersRight
  BY PmpTypeCorrect, InvAnswers, PTL
-------------------------------------------------------------------------------
(* Locks.  An entry's region depends on its own byte and number and, if it *)
(* is TOR, on the number before, whatever the mode of that one is.         *)
LEMMA SameRegion ==
  ASSUME PmpTypeOK, PmpTypeOK', NEW h \in Harts, NEW i \in Entry,
         grain = 0, grain' = 0, cfg'[h][i] = cfg[h][i], addr'[h][i] = addr[h][i],
         cfg[h][i].a = "TOR" /\ i # 0 => addr'[h][i - 1] = addr[h][i - 1]
  PROVE  RegionOf(h, i)' = RegionOf(h, i)
<1>1. AddrOf(h, i)' = AddrOf(h, i)
  BY DEF AddrOf
<1>2. CASE cfg[h][i].a = "TOR" /\ i # 0
  <2>1. \A a, v : v \in Nat => ReadAs(0, a, v) = v
    <3>1. 2 ^ 0 = 1
      BY BinaryAssumption
    <3>2. \A v \in Nat : v % 1 = 0
      OBVIOUS
    <3> QED
      BY <3>1, <3>2 DEF ReadAs
  <2>2. i - 1 \in Entry
    BY <1>2, PmpAssumption DEF Entry
  <2>3. addr[h][i - 1] \in Nat /\ addr'[h][i - 1] \in Nat
    BY <2>2 DEF PmpTypeOK, Addr
  <2>4. AddrOf(h, i - 1)' = AddrOf(h, i - 1)
    BY <1>2, <2>1, <2>3 DEF AddrOf
  <2> QED
    BY <1>1, <1>2, <2>4 DEF RegionOf
<1>3. CASE ~(cfg[h][i].a = "TOR" /\ i # 0)
  BY <1>1, <1>3 DEF RegionOf
<1> QED
  BY <1>2, <1>3

LEMMA StepLocked ==
  ASSUME PmpTypeOK, PmpTypeOK', [PmpNext]_pmpVars, ~PmpRestored,
         NEW h \in Harts, NEW i \in Entry, cfg[h][i].l
  PROVE  /\ cfg'[h][i] = cfg[h][i]
         /\ grain = 0 => RegionOf(h, i)' = RegionOf(h, i)
<1>1. i < Usable
  <2>1. cfg[h][i] # Off
    BY DEF Off
  <2>2. i \in Usable..(Entries - 1) => cfg[h][i] = Off
    BY DEF PmpTypeOK
  <2> QED
    BY <2>1, <2>2, PmpAssumption DEF Entry
<1>2. ASSUME cfg' = cfg, addr' = addr, grain' = grain
      PROVE  /\ cfg'[h][i] = cfg[h][i]
             /\ grain = 0 => RegionOf(h, i)' = RegionOf(h, i)
  BY <1>2, SameRegion
<1>3. ASSUME NEW g \in Harts, NEW base \in {j \in Entry : j % PerCsr = 0},
             NEW bytes \in CfgWrites[g], WriteCfg(g, base, bytes)
      PROVE  /\ cfg'[h][i] = cfg[h][i]
             /\ grain = 0 => RegionOf(h, i)' = RegionOf(h, i)
  <2>1. cfg'[h][i] = cfg[h][i]
    BY <1>3 DEF WriteCfg, Legal, PmpTypeOK
  <2>2. addr' = addr /\ grain' = grain
    BY <1>3 DEF WriteCfg
  <2> QED
    BY <2>1, <2>2, SameRegion
<1>4. ASSUME NEW g \in Harts, NEW k \in Entry, NEW v \in AddrWrites[g], WriteAddr(g, k, v)
      PROVE  /\ cfg'[h][i] = cfg[h][i]
             /\ grain = 0 => RegionOf(h, i)' = RegionOf(h, i)
  <2>1. cfg' = cfg /\ grain' = grain
    BY <1>4 DEF WriteAddr
  <2>2. Fixed(h, i)
    BY DEF Fixed
  <2>3. cfg[h][i].a = "TOR" /\ i # 0 => i - 1 \in Entry /\ Fixed(h, i - 1)
    <3>1. i # 0 => i - 1 \in Entry /\ (i - 1) + 1 = i
      BY PmpAssumption DEF Entry
    <3> QED
      BY <1>1, <3>1 DEF Fixed
  <2>4. \A j \in Entry : Fixed(h, j) => addr'[h][j] = addr[h][j]
    BY <1>4 DEF WriteAddr, PmpTypeOK
  <2> QED
    BY <2>1, <2>2, <2>3, <2>4, SameRegion
<1>5. CASE UNCHANGED pmpVars
  BY <1>2, <1>5 DEF pmpVars
<1>6. ASSUME NEW g \in Harts, Rebuild(g)
      PROVE  cfg' = cfg /\ addr' = addr /\ grain' = grain
  BY <1>6 DEF Rebuild
<1> QED
  BY <1>2, <1>3, <1>4, <1>5, <1>6 DEF PmpNext

LEMMA StepLocks ==
  PmpTypeOK /\ PmpTypeOK' /\ [PmpNext]_pmpVars =>
    [PmpRestored \/ \A h \in Harts, i \in Entry : cfg[h][i].l =>
       /\ cfg'[h][i] = cfg[h][i]
       /\ grain = 0 => RegionOf(h, i)' = RegionOf(h, i)]_pmpVars
  BY StepLocked, Zenon

(* Whatever any hart writes, a locked entry keeps its configuration and,   *)
(* without a grain, its region, until a snapshot is restored.              *)
THEOREM LocksHold == PmpSpec => LockedStays
  BY PmpTypeCorrect, StepLocks, PTL DEF PmpSpec, LockedStays
===============================================================================
