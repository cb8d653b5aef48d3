------------------------------- MODULE AiaProofs -------------------------------
(***************************************************************************)
(* Proofs about Aia, for any number of harts, identities and sources: the  *)
(* files' cached answers are right, and on a machine with the AIA's CSRs   *)
(* no hart overlooks an external interrupt.                                *)
(***************************************************************************)
EXTENDS Aia, TLAPS, WellFoundedInduction

(* A nonempty set of numbers has a least one.                              *)
LEMMA FirstRight ==
  ASSUME NEW S, S \subseteq Nat, S # {}
  PROVE  First(S) \in S /\ \A j \in S : First(S) <= j
<1> DEFINE R == {ss \in Nat \X Nat : ss[1] < ss[2]}
<1>0. IsWellFoundedOn(R, Nat)
  BY NatLessThanWellFounded DEF OpToRel
<1>1. \E x \in S : \A y \in S : ~(<<y, x>> \in R)
  <2> HIDE DEF R
  <2> QED
    BY <1>0, WFMin
<1>2. ASSUME NEW x \in S, NEW y \in S, ~(<<y, x>> \in R) PROVE x <= y
  BY <1>2
<1>3. \E x \in S : \A y \in S : x <= y
  BY <1>1, <1>2
<1> QED
  BY <1>3 DEF First

-------------------------------------------------------------------------------
(* What top says of the rest of a file.                                    *)
TopOf(f) == f.top = IF ~f.eidelivery \/ Heard(f) = {} THEN 0 ELSE First(Heard(f))

(* A refreshed file is a file with the right top, and is otherwise as it   *)
(* was.                                                                    *)
LEMMA RefreshRight ==
  ASSUME NEW f \in File
  PROVE  /\ Refresh(f) \in File
         /\ TopOf(Refresh(f))
         /\ Refresh(f).eidelivery = f.eidelivery
         /\ Refresh(f).eip = f.eip
<1>1. Heard(f) \subseteq Ids /\ Heard(f) \subseteq Nat
  BY DEF Heard, File, Ids
<1>2. Heard(f) # {} => First(Heard(f)) \in 0..NumIds
  BY <1>1, FirstRight, SizeAssumption DEF Ids
<1>3. 0 \in 0..NumIds
  BY SizeAssumption
<1>4. Refresh(f) \in File
  BY <1>2, <1>3 DEF Refresh, File
<1>5. Heard(Refresh(f)) = Heard(f)
  BY DEF Refresh, Heard, File
<1>6. /\ Refresh(f).top = IF ~f.eidelivery \/ Heard(f) = {} THEN 0 ELSE First(Heard(f))
      /\ Refresh(f).eidelivery = f.eidelivery
      /\ Refresh(f).eip = f.eip
  BY DEF Refresh, File
<1> QED
  BY <1>4, <1>5, <1>6 DEF TopOf

LEMMA SetPendingRight ==
  ASSUME NEW f \in File, TopOf(f), NEW id
  PROVE  /\ SetPending(f, id) \in File
         /\ TopOf(SetPending(f, id))
         /\ SetPending(f, id).eidelivery = f.eidelivery
         /\ id \notin Ids => SetPending(f, id) = f
<1> DEFINE g == [f EXCEPT !.eip = @ \cup {id}]
<1>1. CASE id \in Ids
  <2>1. g \in File /\ g.eidelivery = f.eidelivery
    BY <1>1 DEF File
  <2> HIDE DEF g
  <2>2. SetPending(f, id) = Refresh(g)
    BY <1>1 DEF SetPending, g
  <2> QED
    BY <1>1, <2>1, <2>2, RefreshRight
<1>2. CASE id \notin Ids
  BY <1>2 DEF SetPending
<1> QED
  BY <1>1, <1>2

LEMMA ClaimRight ==
  ASSUME NEW f \in File, TopOf(f)
  PROVE  Claim(f) \in File /\ TopOf(Claim(f)) /\ Claim(f).eidelivery = f.eidelivery
<1> DEFINE g == [f EXCEPT !.eip = @ \ {f.top}]
<1>1. g \in File /\ g.eidelivery = f.eidelivery
  BY DEF File
<1>2. CASE f.top = 0
  BY <1>2 DEF Claim
<1>3. CASE f.top # 0
  <2> HIDE DEF g
  <2>1. Claim(f) = Refresh(g)
    BY <1>3 DEF Claim, g
  <2> QED
    BY <1>1, <2>1, RefreshRight
<1> QED
  BY <1>2, <1>3

-------------------------------------------------------------------------------
(* The inductive invariant: every file's top is right; a hart that does    *)
(* not look has nothing on top; and the two kinds of software keep to      *)
(* their own registers, so that only one of the two can raise a line.      *)
FilesRight == \A h \in Hart : TopOf(files[h])
NotLooking == \A h \in Hart : ssaia /\ looked[h] => files[h].top = 0
OwnRegisters == \A h \in Hart : ssaia => ~idc[h].idelivery

IInv == TypeOK /\ FilesRight /\ NotLooking /\ OwnRegisters

LEMMA InvSound ==
  ASSUME IInv
  PROVE  TopIsFirst /\ LineSeenMsi
<1>1. TopIsFirst
  <2> SUFFICES ASSUME NEW h \in Hart
               PROVE  LET f == files[h] IN
                        IF f.top = 0
                        THEN f.eidelivery => \A i \in f.eip \cap f.eie :
                                               f.eithreshold # 0 /\ f.eithreshold <= i
                        ELSE /\ f.eidelivery /\ f.top \in Heard(f)
                             /\ \A i \in f.eip \cap f.eie : f.top <= i
    BY DEF TopIsFirst
  <2> DEFINE f == files[h]
  <2>0. f \in File /\ TopOf(f)
    BY DEF IInv, TypeOK, FilesRight
  <2>1. Heard(f) \subseteq Ids /\ Heard(f) \subseteq Nat /\ f.eip \cap f.eie \subseteq Ids
    BY <2>0 DEF Heard, File, Ids
  <2>2. Heard(f) # {} => First(Heard(f)) \in Heard(f) /\ \A j \in Heard(f) : First(Heard(f)) <= j
    BY <2>1, FirstRight
  <2>3. ASSUME f.eidelivery, Heard(f) = {}, NEW i \in f.eip \cap f.eie
        PROVE  f.eithreshold # 0 /\ f.eithreshold <= i
    BY <2>0, <2>1, <2>3 DEF Heard, File, Ids
  <2>4. CASE f.top = 0
    <3>1. f.eidelivery => Heard(f) = {}
      BY <2>0, <2>1, <2>2, <2>4 DEF TopOf, Ids
    <3> QED
      BY <2>3, <2>4, <3>1
  <2>5. CASE f.top # 0
    <3>1. f.eidelivery /\ f.top \in Heard(f) /\ \A j \in Heard(f) : f.top <= j
      BY <2>0, <2>2, <2>5 DEF TopOf
    <3>2. ASSUME NEW i \in f.eip \cap f.eie PROVE f.top <= i
      BY <2>0, <2>1, <3>1 DEF Heard, File, Ids
    <3> QED
      BY <2>5, <3>1, <3>2
  <2> QED
    BY <2>4, <2>5
<1>2. LineSeenMsi
  BY DEF IInv, NotLooking, OwnRegisters, LineSeenMsi, LineSeen, Line, DirectLine
<1> QED
  BY <1>1, <1>2

(* topi reports a candidate, the first in order of priority.               *)
LEMMA TopiRight ==
  ASSUME TypeOK, NEW h \in Hart
  PROVE  /\ Topi(h) \in Sources \cup {0}
         /\ Candidates(h) # {} =>
              /\ Topi(h) \in Candidates(h)
              /\ \A m \in Candidates(h) : Priority(Topi(h)) <= Priority(m)
<1> DEFINE C == Candidates(h)
           P(n) == \A m \in C \ {n} :
                     Priority(n) < Priority(m) \/ (Priority(n) = Priority(m) /\ n < m)
<1>1. C \subseteq Sources /\ C \subseteq Nat
  BY SourcesAssumption DEF TypeOK, Candidates
<1>2. \A n \in C : Priority(n) \in Nat
  BY <1>1, SizeAssumption DEF TypeOK, Priority, Target
<1> HIDE DEF C
<1>3. ASSUME C # {} PROVE \E n \in C : P(n)
  <2> DEFINE Ps == {Priority(n) : n \in C}
             p  == First(Ps)
             Ns == {n \in C : Priority(n) = p}
             n0 == First(Ns)
  <2>1. p \in Ps /\ \A q \in Ps : p <= q
    <3>1. Ps # {} /\ Ps \subseteq Nat
      BY <1>2, <1>3
    <3> QED
      BY <3>1, FirstRight
  <2> HIDE DEF p
  <2>2. n0 \in Ns /\ \A n \in Ns : n0 <= n
    <3>1. Ns # {} /\ Ns \subseteq Nat
      BY <1>1, <2>1
    <3> QED
      BY <3>1, FirstRight
  <2> HIDE DEF n0
  <2>3. ASSUME NEW m \in C \ {n0}
        PROVE  Priority(n0) < Priority(m) \/ (Priority(n0) = Priority(m) /\ n0 < m)
    BY <1>1, <1>2, <2>1, <2>2
  <2> QED
    BY <2>2, <2>3
<1>4. C = {} => Topi(h) = 0
  BY DEF Topi, C
<1>5. C # {} => Topi(h) \in C /\ P(Topi(h))
  BY <1>3 DEF Topi, C
<1>6. ASSUME C # {}, NEW m \in C PROVE Priority(Topi(h)) <= Priority(m)
  BY <1>2, <1>5, <1>6
<1> QED
  BY <1>1, <1>4, <1>5, <1>6 DEF C

LEMMA FilesRightLater ==
  ASSUME \A h \in Hart : TopOf(files'[h])
  PROVE  FilesRight'
BY DEF FilesRight, TopOf, Heard

LEMMA FilesRightStill ==
  ASSUME FilesRight, UNCHANGED files
  PROVE  FilesRight'
<1>1. \A h \in Hart : TopOf(files'[h])
  BY DEF FilesRight
<1> QED
  BY <1>1, FilesRightLater

(* A step that moves EventGen keeps what is remembered, there being none.  *)
LEMMA BumpKeeps ==
  ASSUME Bump
  PROVE  NotLooking' /\ looked' \in [Hart -> BOOLEAN]
BY DEF Bump, Forgotten, NotLooking

(* A step that changes one file, moves EventGen and leaves the APLIC.      *)
LEMMA FileBecomesKeeps ==
  ASSUME IInv, NEW h \in Hart, NEW f \in File, TopOf(f),
         files' = [files EXCEPT ![h] = f], Bump, UNCHANGED <<ssaia, aplic>>,
         served' \in {Nothing} \cup (Hart \X (Ids \cup Sources \cup {0}))
  PROVE  IInv'
<1>0. \A g \in Hart : files[g] \in File /\ TopOf(files[g])
  BY DEF IInv, TypeOK, FilesRight
<1>1. files' \in [Hart -> File] /\ FilesRight'
  <2>1. files' \in [Hart -> File] /\ \A g \in Hart : TopOf(files'[g])
    BY <1>0 DEF IInv, TypeOK
  <2> QED
    BY <2>1, FilesRightLater
<1>2. OwnRegisters'
  BY DEF IInv, OwnRegisters, aplic
<1> QED
  BY <1>1, <1>2, BumpKeeps DEF IInv, TypeOK, aplic

(* An MSI that reaches a file: it moves EventGen or leaves the file alone. *)
LEMMA ForwardKeeps ==
  ASSUME IInv, NEW h \in Hart, NEW id, Forward(h, id)
  PROVE  /\ files' \in [Hart -> File] /\ looked' \in [Hart -> BOOLEAN] /\ FilesRight'
         /\ UNCHANGED ssaia => NotLooking'
<1>1. files[h] \in File /\ TopOf(files[h])
  BY DEF IInv, TypeOK, FilesRight
<1>2. files' = [files EXCEPT ![h] = SetPending(files[h], id)]
  BY DEF Forward
<1>3. files' \in [Hart -> File] /\ FilesRight'
  <2>1. SetPending(files[h], id) \in File /\ TopOf(SetPending(files[h], id))
    BY <1>1, SetPendingRight
  <2>2. files' \in [Hart -> File]
    BY <1>2, <2>1 DEF IInv, TypeOK
  <2>3. ASSUME NEW g \in Hart PROVE TopOf(files'[g])
    BY <1>2, <2>1 DEF IInv, TypeOK, FilesRight
  <2>4. FilesRight'
    BY <2>3, FilesRightLater
  <2> QED
    BY <2>2, <2>4
<1>4. CASE id \in Ids
  BY <1>3, <1>4, BumpKeeps DEF Forward
<1>5. CASE id \notin Ids
  <2>1. files' = files
    BY <1>1, <1>2, <1>5, SetPendingRight DEF IInv, TypeOK
  <2>2. looked' = looked
    BY <1>5 DEF Forward
  <2> QED
    BY <1>3, <2>1, <2>2 DEF IInv, TypeOK, NotLooking
<1> QED
  BY <1>4, <1>5

-------------------------------------------------------------------------------
LEMMA NextKeeps ==
  ASSUME IInv, [Next]_vars
  PROVE  IInv'
<1>0. /\ ssaia \in BOOLEAN /\ files \in [Hart -> File] /\ looked \in [Hart -> BOOLEAN]
      /\ domaincfg \in [ie : BOOLEAN, dm : BOOLEAN] /\ sourcecfg \in SUBSET Sources
      /\ target \in [Sources -> Target] /\ ip \in SUBSET Sources /\ ie \in SUBSET Sources
      /\ idc \in [Hart -> [idelivery : BOOLEAN, iforce : BOOLEAN, ithreshold : 0..NumIds]]
      /\ FilesRight /\ NotLooking /\ OwnRegisters /\ TypeOK
  BY DEF IInv, TypeOK
<1>1. ASSUME UNCHANGED <<ssaia, files>>, UNCHANGED looked \/ Bump,
             served' \in {Nothing} \cup (Hart \X (Ids \cup Sources \cup {0})),
             /\ domaincfg' \in [ie : BOOLEAN, dm : BOOLEAN] /\ sourcecfg' \in SUBSET Sources
             /\ target' \in [Sources -> Target] /\ ip' \in SUBSET Sources
             /\ ie' \in SUBSET Sources
             /\ idc' \in [Hart -> [idelivery : BOOLEAN, iforce : BOOLEAN, ithreshold : 0..NumIds]],
             UNCHANGED idc \/ ~ssaia
      PROVE  IInv'
  <2>1. FilesRight'
    BY <1>0, <1>1, FilesRightStill
  <2>2. NotLooking' /\ looked' \in [Hart -> BOOLEAN]
    <3>1. CASE UNCHANGED looked
      BY <1>0, <1>1, <3>1 DEF NotLooking
    <3> QED
      BY <1>1, <3>1, BumpKeeps
  <2>3. OwnRegisters'
    BY <1>0, <1>1 DEF OwnRegisters
  <2> QED
    BY <1>0, <1>1, <2>1, <2>2, <2>3 DEF IInv, TypeOK
<1>2. ASSUME NEW h \in Hart, Check(h) PROVE IInv'
  <2>1. served' \in {Nothing} \cup (Hart \X (Ids \cup Sources \cup {0}))
    BY <1>2 DEF Check
  <2>2. CASE Line(h)
    BY <1>0, <1>1, <1>2, <2>1, <2>2 DEF Check, aplic
  <2>3. CASE ~Line(h)
    <3>1. looked' = [looked EXCEPT ![h] = TRUE] /\ UNCHANGED <<ssaia, files, aplic>>
      BY <1>2, <2>3 DEF Check
    <3>2. NotLooking' /\ looked' \in [Hart -> BOOLEAN]
      BY <1>0, <2>3, <3>1 DEF NotLooking, Line
    <3>3. FilesRight' /\ OwnRegisters'
      BY <1>0, <3>1, FilesRightStill DEF OwnRegisters, aplic
    <3> QED
      BY <1>0, <2>1, <3>1, <3>2, <3>3 DEF IInv, TypeOK, aplic
  <2> QED
    BY <2>2, <2>3
<1>3. ASSUME NEW h \in Hart, WriteIndirect(h) PROVE IInv'
  <2>1. PICK f : /\ \/ \E b \in BOOLEAN : f = [files[h] EXCEPT !.eidelivery = b]
                    \/ \E t \in Thresholds : f = [files[h] EXCEPT !.eithreshold = t]
                    \/ \E s \in SUBSET Ids : f = [files[h] EXCEPT !.eip = s]
                    \/ \E s \in SUBSET Ids : f = [files[h] EXCEPT !.eie = s]
                 /\ FileBecomes(h, Refresh(f))
    BY <1>3 DEF WriteIndirect
  <2>2. f \in File
    <3>1. files[h] \in File /\ Thresholds \subseteq 0..NumIds
      BY <1>0, WrittenAssumption
    <3> QED
      BY <2>1, <3>1 DEF File
  <2>3. Refresh(f) \in File /\ TopOf(Refresh(f))
    BY <2>2, RefreshRight
  <2>4. served' \in {Nothing} \cup (Hart \X (Ids \cup Sources \cup {0}))
    BY <1>3 DEF WriteIndirect
  <2> QED
    BY <2>1, <2>3, <2>4, FileBecomesKeeps DEF FileBecomes
<1>4. ASSUME NEW h \in Hart, WriteStopei(h) PROVE IInv'
  <2>1. files[h] \in File /\ TopOf(files[h])
    BY <1>0 DEF FilesRight
  <2>2. Claim(files[h]) \in File /\ TopOf(Claim(files[h]))
    BY <2>1, ClaimRight
  <2>3. files[h].top \in Ids \cup {0}
    BY <2>1 DEF File, Ids
  <2>4. served' \in {Nothing} \cup (Hart \X (Ids \cup Sources \cup {0}))
    BY <1>4, <2>3 DEF WriteStopei
  <2> QED
    BY <1>4, <2>2, <2>4, FileBecomesKeeps DEF WriteStopei, FileBecomes
<1>5. ASSUME NEW h \in Hart, NEW id \in 0..(NumIds + 1), WriteSeteipnum(h, id) PROVE IInv'
  <2>1. /\ files' \in [Hart -> File] /\ looked' \in [Hart -> BOOLEAN] /\ FilesRight' /\ NotLooking'
    BY <1>5, ForwardKeeps DEF WriteSeteipnum
  <2>2. OwnRegisters'
    BY <1>0, <1>5 DEF WriteSeteipnum, OwnRegisters, aplic
  <2> QED
    BY <1>0, <1>5, <2>1, <2>2 DEF WriteSeteipnum, IInv, TypeOK, aplic
<1>6. ASSUME NEW n \in Sources, AssertSource(n) PROVE IInv'
  <2>1. CASE Direct
    BY <1>0, <1>1, <1>6, <2>1 DEF AssertSource
  <2>2. CASE ~Direct
    <3>1. /\ files' \in [Hart -> File] /\ looked' \in [Hart -> BOOLEAN]
          /\ FilesRight' /\ NotLooking'
      BY <1>6, <2>2, ForwardKeeps DEF AssertSource
    <3>2. OwnRegisters'
      BY <1>0, <1>6 DEF AssertSource, OwnRegisters
    <3> QED
      BY <1>0, <1>6, <2>2, <3>1, <3>2 DEF AssertSource, IInv, TypeOK
  <2> QED
    BY <2>1, <2>2
<1>7. CASE WriteDomaincfg
  <2>1. domaincfg' \in [ie : BOOLEAN, dm : BOOLEAN]
    BY <1>7 DEF WriteDomaincfg
  <2> QED
    BY <1>0, <1>1, <1>7, <2>1 DEF WriteDomaincfg
<1>8. CASE WriteSourcecfg
  <2>1. sourcecfg' \in SUBSET Sources
    BY <1>0, <1>8, WrittenAssumption DEF WriteSourcecfg
  <2> QED
    BY <1>0, <1>1, <1>8, <2>1 DEF WriteSourcecfg
<1>9. CASE WriteTarget
  <2>1. target' \in [Sources -> Target]
    BY <1>0, <1>9, WrittenAssumption DEF WriteTarget
  <2> QED
    BY <1>0, <1>1, <1>9, <2>1 DEF WriteTarget
<1>10. CASE DirectStep
  <2>1. CASE WritePending
    <3>1. ip' \in SUBSET Sources
      BY <1>0, <2>1, WrittenAssumption DEF WritePending
    <3> QED
      BY <1>0, <1>1, <2>1, <3>1 DEF WritePending
  <2>2. CASE WriteEnable
    <3>1. ie' \in SUBSET Sources
      BY <1>0, <2>2, WrittenAssumption DEF WriteEnable
    <3> QED
      BY <1>0, <1>1, <2>2, <3>1 DEF WriteEnable
  <2>3. ASSUME NEW h \in Hart, WriteIdc(h) PROVE IInv'
    <3>1. idc' \in [Hart -> [idelivery : BOOLEAN, iforce : BOOLEAN, ithreshold : 0..NumIds]]
      BY <1>0, <2>3, WrittenAssumption DEF WriteIdc
    <3> QED
      BY <1>0, <1>1, <1>10, <2>3, <3>1 DEF WriteIdc, IdcWritten, DirectStep
  <2>4. ASSUME NEW h \in Hart, ReadClaimi(h) PROVE IInv'
    <3>1. Topi(h) \in Sources \cup {0}
      BY <1>0, TopiRight
    <3>2. ip' \in SUBSET Sources
      BY <1>0, <2>4 DEF ReadClaimi
    <3>3. idc' \in [Hart -> [idelivery : BOOLEAN, iforce : BOOLEAN, ithreshold : 0..NumIds]]
      BY <1>0, <2>4 DEF ReadClaimi
    <3> QED
      BY <1>0, <1>1, <1>10, <2>4, <3>1, <3>2, <3>3 DEF ReadClaimi, DirectStep
  <2> QED
    BY <1>10, <2>1, <2>2, <2>3, <2>4 DEF DirectStep
<1>11. CASE Restore
  <2>1. \A h \in Hart : files[h] \in File /\ Refresh(files[h]) \in File /\ TopOf(Refresh(files[h]))
    BY <1>0, RefreshRight
  <2>2. files' \in [Hart -> File] /\ \A h \in Hart : TopOf(files'[h])
    BY <1>11, <2>1 DEF Restore
  <2>3. FilesRight'
    BY <2>2, FilesRightLater
  <2>4. NotLooking' /\ looked' \in [Hart -> BOOLEAN]
    BY <1>11, BumpKeeps DEF Restore
  <2>5. OwnRegisters'
    BY <1>0, <1>11 DEF Restore, OwnRegisters, aplic
  <2> QED
    BY <1>0, <1>11, <2>2, <2>3, <2>4, <2>5 DEF Restore, IInv, TypeOK, aplic
<1>12. CASE UNCHANGED vars
  BY <1>0, <1>12, FilesRightStill DEF vars, aplic, IInv, TypeOK, NotLooking, OwnRegisters
<1> QED
  BY <1>2, <1>3, <1>4, <1>5, <1>6, <1>7, <1>8, <1>9, <1>10, <1>11, <1>12 DEF Next, WriteConfig

LEMMA InitHolds ==
  ASSUME Init
  PROVE  IInv
<1>1. EmptyFile \in File /\ TopOf(EmptyFile)
  BY SizeAssumption DEF EmptyFile, File, TopOf, Heard
<1>2. TypeOK
  BY <1>1, SizeAssumption, SourcesAssumption DEF Init, TypeOK, Target, Forgotten
<1> QED
  BY <1>1, <1>2 DEF Init, IInv, FilesRight, NotLooking, OwnRegisters, Forgotten

LEMMA Invariant == Spec => []IInv
<1>1. Init => IInv
  BY InitHolds
<1>2. IInv /\ [Next]_vars => IInv'
  BY NextKeeps
<1> QED
  BY <1>1, <1>2, PTL DEF Spec

(* For every machine: what the files report is always up to date, and with *)
(* MSIs a hart that does not look has no external interrupt to see.        *)
THEOREM DeliverySound == Spec => [](TypeOK /\ TopIsFirst /\ LineSeenMsi)
<1>1. IInv => TypeOK /\ TopIsFirst /\ LineSeenMsi
  BY InvSound DEF IInv
<1> QED
  BY <1>1, Invariant, PTL

(* The registers keep their types, with reserved identities never pending. *)
THEOREM TypeCorrect == Spec => []TypeOK
  BY DeliverySound, PTL

(* A file's remembered top is what a scan of its registers would find,     *)
(* whoever wrote them last.                                                *)
THEOREM TopsCorrect == Spec => []TopIsFirst
  BY DeliverySound, PTL

(* stopei and claimi give each hart its interrupts in the order of their   *)
(* priority, and lose none.                                                *)
THEOREM ClaimsInTurn == Spec => ClaimedInTurn
<1> DEFINE Claims ==
      LET h == served'[1]
          i == served'[2]
      IN  /\ h # 0 /\ ssaia =>
               /\ files'[h].eip = files[h].eip \ {i}
               /\ IF i = 0 THEN ~files[h].eidelivery \/ Heard(files[h]) = {}
                  ELSE i \in Heard(files[h]) /\ \A j \in Heard(files[h]) : i <= j
          /\ h # 0 /\ ~ssaia =>
               /\ ip' = ip \ {i}
               /\ IF i = 0 THEN Candidates(h) = {}
                  ELSE /\ i \in Candidates(h)
                       /\ \A j \in Candidates(h) : Priority(i) <= Priority(j)
<1>1. IInv /\ [Next]_vars => [Claims]_vars
  <2> SUFFICES ASSUME IInv, Next PROVE Claims
    OBVIOUS
  <2>1. ASSUME served' = Nothing PROVE Claims
    BY <2>1 DEF Nothing
  <2>2. ASSUME NEW h \in Hart, WriteStopei(h) PROVE Claims
    <3> DEFINE f == files[h]
               g == [f EXCEPT !.eip = @ \ {f.top}]
    <3>1. f \in File /\ TopOf(f) /\ files' = [files EXCEPT ![h] = Claim(f)] /\ ssaia
          /\ served' = <<h, f.top>> /\ files \in [Hart -> File]
      BY <2>2 DEF IInv, TypeOK, FilesRight, WriteStopei, FileBecomes
    <3>2. Heard(f) \subseteq Ids /\ Heard(f) \subseteq Nat /\ f.eip \subseteq Ids /\ 0 \notin Ids
      BY <3>1 DEF Heard, File, Ids
    <3>3. Claim(f).eip = f.eip \ {f.top}
      <4>1. g \in File /\ g.eip = f.eip \ {f.top}
        BY <3>1 DEF File
      <4> HIDE DEF g
      <4>2. CASE f.top = 0
        BY <3>2, <4>2 DEF Claim
      <4>3. CASE f.top # 0
        <5>1. Claim(f) = Refresh(g)
          BY <4>3 DEF Claim, g
        <5> QED
          BY <4>1, <5>1, RefreshRight
      <4> QED
        BY <4>2, <4>3
    <3>4. files'[h].eip = f.eip \ {f.top}
      BY <3>1, <3>3
    <3>5. IF f.top = 0 THEN ~f.eidelivery \/ Heard(f) = {}
          ELSE f.top \in Heard(f) /\ \A j \in Heard(f) : f.top <= j
      BY <3>1, <3>2, FirstRight DEF TopOf
    <3> QED
      BY <3>1, <3>4, <3>5
  <2>3. ASSUME NEW h \in Hart, ReadClaimi(h), ~ssaia PROVE Claims
    <3>1. served' = <<h, Topi(h)>> /\ TypeOK
      BY <2>3 DEF ReadClaimi, IInv
    <3>2. Candidates(h) \subseteq Sources /\ 0 \notin Sources /\ ip \subseteq Sources
      BY <3>1, SourcesAssumption DEF TypeOK, Candidates
    <3>3. Candidates(h) = {} => Topi(h) = 0
      BY DEF Topi
    <3>4. ip' = ip \ {Topi(h)}
      BY <2>3, <3>2 DEF ReadClaimi
    <3> QED
      BY <2>3, <3>1, <3>2, <3>3, <3>4, TopiRight
  <2>4. ASSUME NEW h \in Hart, ~WriteStopei(h),
               \/ Check(h) \/ WriteIndirect(h) \/ WriteStopei(h)
               \/ \E id \in 0..(NumIds + 1) : WriteSeteipnum(h, id)
        PROVE  Claims
    BY <2>1, <2>4 DEF Check, WriteIndirect, WriteSeteipnum
  <2>5. ASSUME \/ \E n \in Sources : AssertSource(n)
               \/ WriteConfig \/ Restore
        PROVE  Claims
    BY <2>1, <2>5 DEF AssertSource, WriteConfig, WriteDomaincfg, WriteSourcecfg, WriteTarget, Restore
  <2>6. CASE DirectStep
    BY <2>1, <2>3, <2>6 DEF DirectStep, WritePending, WriteEnable, WriteIdc
  <2> HIDE DEF Claims
  <2> QED
    BY <2>2, <2>4, <2>5, <2>6 DEF Next
<1> QED
  BY <1>1, Invariant, PTL DEF Spec, ClaimedInTurn

(* With direct delivery, only the configuration registers can change a     *)
(* line behind a hart's back.                                              *)
THEOREM ChangesAreCounted == Spec => ChangesCounted
<1> DEFINE Counted == (\E h \in Hart : Line(h) # Line(h)') => looked' = Forgotten \/ WriteConfig
<1>1. IInv /\ [Next]_vars => [Counted]_vars
  <2> SUFFICES ASSUME IInv, Next PROVE Counted
    OBVIOUS
  <2>1. ASSUME UNCHANGED <<files, aplic>> PROVE Counted
    BY <2>1 DEF aplic, Line, DirectLine, Direct, Topi, Candidates, Priority
  <2>2. ASSUME Bump PROVE Counted
    BY <2>2 DEF Bump
  <2>3. ASSUME NEW h \in Hart, NEW id, Forward(h, id) PROVE UNCHANGED files \/ Bump
    <3>1. id \notin Ids => SetPending(files[h], id) = files[h]
      BY DEF SetPending
    <3>2. files \in [Hart -> File]
      BY DEF IInv, TypeOK
    <3> QED
      BY <2>3, <3>1, <3>2 DEF Forward
  <2>4. ASSUME NEW h \in Hart, \/ Check(h) \/ WriteIndirect(h) \/ WriteStopei(h)
                               \/ \E id \in 0..(NumIds + 1) : WriteSeteipnum(h, id)
        PROVE  (UNCHANGED <<files, aplic>>) \/ Bump
    BY <2>3, <2>4 DEF Check, WriteIndirect, WriteStopei, FileBecomes, WriteSeteipnum
  <2>5. ASSUME NEW n \in Sources, AssertSource(n) PROVE (UNCHANGED <<files, aplic>>) \/ Bump
    BY <2>3, <2>5 DEF AssertSource, aplic
  <2>6. ASSUME DirectStep \/ Restore PROVE Bump
    BY <2>6 DEF DirectStep, Restore, WritePending, WriteEnable, WriteIdc, IdcWritten, ReadClaimi
  <2>7. ASSUME WriteConfig PROVE Counted
    BY <2>7
  <2> HIDE DEF Counted
  <2> QED
    BY <2>1, <2>2, <2>4, <2>5, <2>6, <2>7 DEF Next
<1> QED
  BY <1>1, Invariant, PTL DEF Spec, ChangesCounted
===============================================================================
