---------------------------------- MODULE Aia ----------------------------------
(***************************************************************************)
(* Interrupt delivery: the APLIC (src/aplic.cpp), the S-level IMSIC files  *)
(* (src/imsic.cpp) and the external interrupt line each hart's interrupt   *)
(* check sees (compute_mip in src/extensions/ext_zicsr.cpp).               *)
(*                                                                         *)
(* Two things are derived and remembered.  A file keeps `top', the         *)
(* interrupt it would report, recomputed by every change to the file; and  *)
(* a hart whose check found its line down does not look again until        *)
(* EventGen moves (module CachedRounds), which is right only if whatever   *)
(* can raise the line moves it.                                            *)
(*                                                                         *)
(* A machine has the AIA's CSRs, and its software uses the files, or has   *)
(* not, and its software uses the APLIC's direct delivery ("what a machine *)
(* without Smaia/Ssaia has", aplic.hpp).  The M-level files are the same   *)
(* component again with nothing but MSIs reaching them, and are left out.  *)
(* A device is whatever asserts a source.                                  *)
(***************************************************************************)
EXTENDS Integers

CONSTANTS N,             \* number of harts
          NumIds,        \* interrupt identities of a file, 1..NumIds
          Sources,       \* the APLIC's sources: numbers from 1
          Aia,           \* values of ssaia: whether the machine has the CSRs
          Thresholds,    \* what software writes to eithreshold and ithreshold,
          TargetValues,  \* to target,
          Configured,    \* the harts whose file or IDC it programs,
          Uses           \* and the sources it configures, by ssaia

Hart == 1..N
Ids  == 1..NumIds
Target == [hart : 1..(N + 1), num : 0..NumIds]   \* N + 1: a Hart Index with no hart

ASSUME SizeAssumption == N \in Nat \ {0} /\ NumIds \in Nat \ {0}
ASSUME SourcesAssumption == Sources \subseteq Nat \ {0} /\ Aia \subseteq BOOLEAN
ASSUME WrittenAssumption == /\ Thresholds \subseteq 0..NumIds
                            /\ TargetValues \subseteq Target
                            /\ Configured \subseteq Hart
                            /\ Uses \in [BOOLEAN -> SUBSET Sources]

VARIABLES
  ssaia,      \* the machine has the AIA's CSRs
  files,      \* the IMSIC file of each hart
  domaincfg,  \* the domain's IE and DM bits
  sourcecfg,  \* the active sources
  target,     \* of each source: the hart, and its EIID or its priority
  ip, ie,     \* direct delivery: the pending and the enabled sources
  idc,        \* and the delivery control of each hart
  looked,     \* the hart's interrupt check found its line down, and EventGen
              \* is the one it found it under
  served      \* what this step read from stopei or claimi: the hart and the
              \* interrupt, 0 for none; or Nothing

aplic == <<domaincfg, sourcecfg, target, ip, ie, idc>>
vars  == <<ssaia, files, aplic, looked, served>>

Nothing == <<0, 0>>

-------------------------------------------------------------------------------
(* One IMSIC file.                                                         *)

File == [eidelivery : BOOLEAN, eithreshold : 0..NumIds,
         eip : SUBSET Ids, eie : SUBSET Ids, top : 0..NumIds]

(* heard: pending, enabled and not at or above the threshold.              *)
Heard(f) == {i \in f.eip \cap f.eie : f.eithreshold = 0 \/ i < f.eithreshold}

First(S) == CHOOSE i \in S : \A j \in S : i <= j

(* refresh: top again from the rest; 0 for none.                           *)
Refresh(f) ==
  [f EXCEPT !.top = IF ~f.eidelivery \/ Heard(f) = {} THEN 0 ELSE First(Heard(f))]

(* A mutant of SetPending: the file is not refreshed.                      *)
SetPendingOnly(f, id) == IF id \in Ids THEN [f EXCEPT !.eip = @ \cup {id}] ELSE f

(* A mutant of SetPending: any identity is taken.                          *)
SetPendingAny(f, id) == Refresh([f EXCEPT !.eip = @ \cup {id}])

(* set_pending: an identity the file does not have is ignored.             *)
SetPending(f, id) == IF id \in Ids THEN Refresh([f EXCEPT !.eip = @ \cup {id}]) ELSE f

(* claim: what is on top is no longer pending.                             *)
Claim(f) == IF f.top = 0 THEN f ELSE Refresh([f EXCEPT !.eip = @ \ {f.top}])

-------------------------------------------------------------------------------
(* The APLIC's direct delivery.                                            *)

Direct == ~domaincfg.dm

Priority(n) == IF target[n].num = 0 THEN 1 ELSE target[n].num

(* The sources topi chooses from for hart h.                               *)
Candidates(h) ==
  {n \in ip \cap ie \cap sourcecfg :
     /\ target[n].hart = h
     /\ idc[h].ithreshold = 0 \/ Priority(n) < idc[h].ithreshold}

(* A mutant of Topi: the lowest source, whatever its priority.             *)
TopiLowest(h) == IF Candidates(h) = {} THEN 0 ELSE First(Candidates(h))

(* topi: the candidate with the lowest priority number, and of those the   *)
(* lowest source; 0 for none.                                              *)
Topi(h) ==
  IF Candidates(h) = {} THEN 0
  ELSE CHOOSE n \in Candidates(h) :
         \A m \in Candidates(h) \ {n} :
           Priority(n) < Priority(m) \/ (Priority(n) = Priority(m) /\ n < m)

(* direct_line.                                                            *)
DirectLine(h) == /\ Direct /\ domaincfg.ie /\ idc[h].idelivery
                 /\ Topi(h) # 0 \/ idc[h].iforce

(* compute_mip: SEIP of hart h.                                            *)
Line(h) == files[h].top # 0 \/ DirectLine(h)

-------------------------------------------------------------------------------
EmptyFile == [eidelivery |-> FALSE, eithreshold |-> 0, eip |-> {}, eie |-> {}, top |-> 0]
Forgotten == [h \in Hart |-> FALSE]

Init ==
  /\ ssaia \in Aia
  /\ files = [h \in Hart |-> EmptyFile]
  /\ domaincfg = [ie |-> FALSE, dm |-> FALSE]
  /\ sourcecfg = {}
  /\ target = [n \in Sources |-> [hart |-> 1, num |-> 0]]
  /\ ip = {}
  /\ ie = {}
  /\ idc = [h \in Hart |-> [idelivery |-> FALSE, iforce |-> FALSE, ithreshold |-> 0]]
  /\ looked = Forgotten
  /\ served = Nothing

(* EventGen moves: every remembered answer is good no more.                *)
Bump == looked' = Forgotten

(* Hart h checks for interrupts and finds its line down, or the interrupt  *)
(* is taken and the trap moves EventGen.                                   *)
Check(h) ==
  /\ served' = Nothing
  /\ ~looked[h]
  /\ IF Line(h) THEN Bump ELSE looked' = [looked EXCEPT ![h] = TRUE]
  /\ UNCHANGED <<ssaia, files, aplic>>

(* The file of hart h becomes f: refresh moves EventGen whatever changed.  *)
FileBecomes(h, f) ==
  /\ files' = [files EXCEPT ![h] = f]
  /\ Bump
  /\ UNCHANGED <<ssaia, aplic>>

(* write_indirect, through sireg: one register of the hart's own file.     *)
WriteIndirect(h) ==
  /\ served' = Nothing
  /\ ssaia /\ h \in Configured
  /\ \E f \in {[files[h] EXCEPT !.eidelivery = b] : b \in BOOLEAN}
              \cup {[files[h] EXCEPT !.eithreshold = t] : t \in Thresholds}
              \cup {[files[h] EXCEPT !.eip = s] : s \in SUBSET Ids}
              \cup {[files[h] EXCEPT !.eie = s] : s \in SUBSET Ids} :
       FileBecomes(h, Refresh(f))

(* A CSR instruction that reads and writes stopei.  The file with nothing  *)
(* on top is left alone, but the CSR instruction moves EventGen in any     *)
(* case.                                                                   *)
WriteStopei(h) ==
  /\ ssaia /\ h \in Configured
  /\ served' = <<h, files[h].top>>
  /\ FileBecomes(h, Claim(files[h]))

(* A mutant of Forward: an MSI does not move EventGen.                     *)
ForwardUncounted(h, id) ==
  /\ files' = [files EXCEPT ![h] = SetPending(@, id)]
  /\ UNCHANGED looked

(* An MSI reaches the file of hart h.  An identity the file has not does   *)
(* not get as far as refresh.                                              *)
Forward(h, id) ==
  /\ files' = [files EXCEPT ![h] = SetPending(@, id)]
  /\ IF id \in Ids THEN Bump ELSE UNCHANGED looked

(* A store to a file's seteipnum_le, by any hart.                          *)
WriteSeteipnum(h, id) ==
  /\ served' = Nothing
  /\ ssaia
  /\ Forward(h, id)
  /\ UNCHANGED <<ssaia, aplic>>

-------------------------------------------------------------------------------
(* A device asserts source n, or software writes its number to setipnum.   *)
AssertSource(n) ==
  /\ served' = Nothing
  /\ n \in sourcecfg
  /\ UNCHANGED <<ssaia, domaincfg, sourcecfg, target, ie, idc>>
  /\ \/ /\ Direct
        /\ ip' = ip \cup {n}
        /\ Bump
        /\ UNCHANGED files
     \/ /\ ~Direct /\ domaincfg.ie
        /\ target[n].hart \in Hart
        /\ Forward(target[n].hart, target[n].num)
        /\ UNCHANGED ip

(* write32, the configuration registers: none of them moves EventGen.      *)
WriteDomaincfg ==
  /\ served' = Nothing
  /\ \E b, m \in BOOLEAN : (m => ssaia) /\ domaincfg' = [ie |-> b, dm |-> m]
  /\ UNCHANGED <<ssaia, files, sourcecfg, target, ip, ie, idc, looked>>

WriteSourcecfg ==
  /\ served' = Nothing
  /\ \E n \in Uses[ssaia] : sourcecfg' \in {sourcecfg \cup {n}, sourcecfg \ {n}}
  /\ UNCHANGED <<ssaia, files, domaincfg, target, ip, ie, idc, looked>>

WriteTarget ==
  /\ served' = Nothing
  /\ \E n \in Uses[ssaia], t \in TargetValues : target' = [target EXCEPT ![n] = t]
  /\ UNCHANGED <<ssaia, files, domaincfg, sourcecfg, ip, ie, idc, looked>>

WriteConfig == WriteDomaincfg \/ WriteSourcecfg \/ WriteTarget

(* write32, setip and in_clrip, setie and clrie and their num forms: a     *)
(* source at a time.                                                       *)
WritePending ==
  /\ served' = Nothing
  /\ \E n \in Uses[ssaia] : ip' \in {ip \cup {n}, ip \ {n}}
  /\ Bump
  /\ UNCHANGED <<ssaia, files, domaincfg, sourcecfg, target, ie, idc>>

WriteEnable ==
  /\ served' = Nothing
  /\ \E n \in Uses[ssaia] : ie' \in {ie \cup {n}, ie \ {n}}
  /\ Bump
  /\ UNCHANGED <<ssaia, files, domaincfg, sourcecfg, target, ip, idc>>

(* A mutant of IdcWritten: writing the IDC does not move EventGen either.  *)
IdcWrittenUncounted == UNCHANGED looked

IdcWritten == Bump

(* write32, a register of hart h's IDC.                                    *)
WriteIdc(h) ==
  /\ served' = Nothing
  /\ h \in Configured
  /\ \/ \E b \in BOOLEAN : idc' = [idc EXCEPT ![h].idelivery = b]
     \/ \E b \in BOOLEAN : idc' = [idc EXCEPT ![h].iforce = b]
     \/ \E t \in Thresholds : idc' = [idc EXCEPT ![h].ithreshold = t]
  /\ IdcWritten
  /\ UNCHANGED <<ssaia, files, domaincfg, sourcecfg, target, ip, ie>>

(* read32, claimi: claims what topi reports, or ends a forced interrupt.   *)
ReadClaimi(h) ==
  /\ served' = <<h, Topi(h)>>
  /\ Bump
  /\ IF Topi(h) # 0 THEN ip' = ip \ {Topi(h)} /\ UNCHANGED idc
     ELSE idc' = [idc EXCEPT ![h].iforce = FALSE] /\ UNCHANGED ip
  /\ UNCHANGED <<ssaia, files, domaincfg, sourcecfg, target, ie>>

(* A snapshot and the process that restores it: top follows from the rest, *)
(* what the checks remembered is gone.                                     *)
Restore ==
  /\ served' = Nothing
  /\ files' = [h \in Hart |-> Refresh(files[h])]
  /\ Bump
  /\ UNCHANGED <<ssaia, aplic>>

DirectStep == /\ ~ssaia
              /\ \/ WritePending \/ WriteEnable
                 \/ \E h \in Hart : WriteIdc(h) \/ ReadClaimi(h)

Next ==
  \/ \E h \in Hart : \/ Check(h) \/ WriteIndirect(h) \/ WriteStopei(h)
                     \/ \E id \in 0..(NumIds + 1) : WriteSeteipnum(h, id)
  \/ \E n \in Sources : AssertSource(n)
  \/ WriteConfig
  \/ DirectStep
  \/ Restore

Spec == Init /\ [][Next]_vars

-------------------------------------------------------------------------------
TypeOK ==
  /\ ssaia \in BOOLEAN
  /\ files \in [Hart -> File]
  /\ domaincfg \in [ie : BOOLEAN, dm : BOOLEAN]
  /\ sourcecfg \in SUBSET Sources
  /\ target \in [Sources -> Target]
  /\ ip \in SUBSET Sources
  /\ ie \in SUBSET Sources
  /\ idc \in [Hart -> [idelivery : BOOLEAN, iforce : BOOLEAN, ithreshold : 0..NumIds]]
  /\ looked \in [Hart -> BOOLEAN]
  /\ served \in {Nothing} \cup (Hart \X (Ids \cup Sources \cup {0}))

(* What a file reports is what a scan of it would find, after any history  *)
(* of MSIs, claims, register writes and restores ("recomputed whenever     *)
(* eidelivery, eithreshold, eip or eie changes", imsic.hpp).               *)
TopIsFirst ==
  \A h \in Hart : LET f == files[h] IN
    IF f.top = 0
    THEN f.eidelivery => \A i \in f.eip \cap f.eie : f.eithreshold # 0 /\ f.eithreshold <= i
    ELSE /\ f.eidelivery /\ f.top \in Heard(f)
         /\ \A i \in f.eip \cap f.eie : f.top <= i

(* A hart that does not look has nothing to see: its line is down while    *)
(* EventGen is the one its check found it down under ("Each of the others  *)
(* bumps a generation when it changes", doom_system.cpp, 551-561).         *)
LineSeen == \A h \in Hart : looked[h] => ~Line(h)

(* With MSIs it is so.                                                     *)
LineSeenMsi == ssaia => LineSeen

(* With direct delivery a line changes unnoticed only in a write to        *)
(* domaincfg, sourcecfg or target.                                         *)
ChangesCounted == 
  [][(\E h \in Hart : Line(h) # Line(h)') => looked' = Forgotten \/ WriteConfig]_vars

(* No claim is out of turn, and none loses an interrupt: stopei and claimi *)
(* give a hart the interrupt of the highest priority among those delivered *)
(* to it, or none only if there is none, and that one and no other is      *)
(* pending no more.                                                        *)
ClaimedInTurn ==
  [][LET h == served'[1]
         i == served'[2]
     IN  /\ h # 0 /\ ssaia =>
              /\ files'[h].eip = files[h].eip \ {i}
              /\ IF i = 0 THEN ~files[h].eidelivery \/ Heard(files[h]) = {}
                 ELSE i \in Heard(files[h]) /\ \A j \in Heard(files[h]) : i <= j
         /\ h # 0 /\ ~ssaia =>
              /\ ip' = ip \ {i}
              /\ IF i = 0 THEN Candidates(h) = {}
                 ELSE /\ i \in Candidates(h)
                      /\ \A j \in Candidates(h) : Priority(i) <= Priority(j)]_vars
===============================================================================
