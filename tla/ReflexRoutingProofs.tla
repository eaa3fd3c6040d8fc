------------------------ MODULE ReflexRoutingProofs ------------------------
(* Theorems about ReflexRouting: the evidence the promotion gate reads, for  *)
(* any set of reflexes, risks and switches, and whatever is lost of it.      *)
EXTENDS ReflexRouting, TLAPS

Routes == {"pipeline", "active_reflex"}

Lines == [nth : Nat, pattern : Patterns \cup {NoPattern}, agrees : BOOLEAN, route : Routes]

\* The strict reader gets as far as the first corrupt line, if there is one; a
\* line is as much older than the ledger's youngest as its place says, or more.
FileInv ==
  /\ shadow \in Seq(Lines)
  /\ stored \in Nat
  /\ readable \in 0..Len(shadow)
  /\ ~corrupt => readable = Len(shadow)
  /\ cut => corrupt
  /\ \A i \in 1..Len(shadow) : shadow[i].nth <= stored - (Len(shadow) - i)

InFile(p, n) ==
  \E i \in 1..Len(shadow) :
    shadow[i].nth = n /\ shadow[i].pattern = p /\ ~shadow[i].agrees

\* What spoke against a pattern is in the file, archived, or was in the hands of
\* a compactor that died.
AgainstInv ==
  /\ against \in [Patterns -> SUBSET Nat]
  /\ \A p \in Patterns : \A n \in against[p] :
       /\ n <= stored
       /\ InFile(p, n) \/ stored - n >= KeepRecent \/ n <= wiped

\* No pattern routes, or vouches for itself, without an approval.
VouchInv ==
  /\ active \subseteq everApproved
  /\ \A i \in 1..Len(shadow) :
       shadow[i].route = "active_reflex" => shadow[i].pattern \in everApproved

EvidenceInv == FileInv /\ AgainstInv /\ VouchInv

----------------------------------------------------------------------------
LEMMA InitEvidence == RoutingInit => EvidenceInv
  BY DEF RoutingInit, RegistryInit, EvidenceInv, FileInv, AgainstInv, VouchInv

(* Steps that leave the evidence alone, and activate nothing unapproved.     *)
LEMMA OthersKeepEvidence ==
  ASSUME EvidenceInv, UNCHANGED evidenceVars,
         everApproved \subseteq everApproved', active' \subseteq everApproved'
  PROVE  EvidenceInv'
<1>1. UNCHANGED <<shadow, readable, corrupt, cut, stored, against, wiped>>
  BY DEF evidenceVars, fileVars
<1>2. FileInv'
  BY <1>1 DEF EvidenceInv, FileInv
<1>3. AgainstInv'
  BY <1>1 DEF EvidenceInv, AgainstInv, InFile
<1>4. VouchInv'
  BY <1>1 DEF EvidenceInv, VouchInv
<1> QED BY <1>2, <1>3, <1>4 DEF EvidenceInv

(* A stored line is the youngest, and adds to the case against its pattern if *)
(* it disagrees.                                                             *)
LEMMA StoredLineKeepsEvidence ==
  ASSUME EvidenceInv, KeepRecent \in Nat, NEW p \in Patterns \cup {NoPattern},
         NEW agrees \in BOOLEAN, NEW route \in Routes,
         route = "active_reflex" => p \in everApproved,
         StoreLine(p, agrees, route), UNCHANGED <<active, everApproved>>
  PROVE  EvidenceInv'
<1> DEFINE L == Len(shadow)
           line == [nth |-> stored + 1, pattern |-> p, agrees |-> agrees, route |-> route]
<1>1. L \in Nat /\ stored \in Nat /\ readable \in 0..L /\ shadow \in Seq(Lines)
  BY DEF EvidenceInv, FileInv
<1>2. line \in Lines
  BY <1>1 DEF Lines
<1>3. /\ shadow' = Append(shadow, line)
      /\ stored' = stored + 1
      /\ wiped' = wiped
      /\ corrupt' = corrupt /\ cut' = cut /\ ~cut
      /\ readable' = IF corrupt THEN readable ELSE readable + 1
  BY DEF StoreLine
<1>4. /\ Len(shadow') = L + 1
      /\ shadow' \in Seq(Lines)
      /\ shadow'[L + 1] = line
      /\ \A i \in 1..L : shadow'[i] = shadow[i]
  BY <1>1, <1>2, <1>3
<1>5. FileInv'
  <2>1. readable' \in 0..(L + 1) /\ (~corrupt => readable' = L + 1)
    BY <1>1, <1>3 DEF EvidenceInv, FileInv
  <2>2. ASSUME NEW i \in 1..(L + 1)
        PROVE  shadow'[i].nth <= stored' - (L + 1 - i)
    <3>1. CASE i \in 1..L
      <4>1. shadow[i].nth <= stored - (L - i)
        BY <3>1 DEF EvidenceInv, FileInv
      <4>2. shadow[i] \in Lines
        BY <1>1, <3>1
      <4>3. shadow[i].nth \in Nat
        BY <4>2 DEF Lines
      <4> QED BY <1>1, <1>3, <1>4, <3>1, <4>1, <4>3
    <3>2. CASE i = L + 1
      BY <1>1, <1>3, <1>4, <3>2
    <3> QED BY <1>1, <3>1, <3>2
  <2> QED BY <1>1, <1>3, <1>4, <2>1, <2>2 DEF FileInv
<1>6. ASSUME NEW q, NEW n, InFile(q, n) PROVE InFile(q, n)'
  <2>1. PICK i \in 1..L : shadow[i].nth = n /\ shadow[i].pattern = q /\ ~shadow[i].agrees
    BY <1>6 DEF InFile
  <2>2. i \in 1..Len(shadow')
    BY <1>1, <1>4
  <2> QED BY <1>4, <2>1, <2>2 DEF InFile
<1>7. AgainstInv'
  <2>1. against' = [q \in Patterns |->
                      IF q = p /\ ~agrees THEN against[q] \cup {stored + 1} ELSE against[q]]
    BY DEF StoreLine
  <2>2. against' \in [Patterns -> SUBSET Nat]
    BY <1>1, <2>1 DEF EvidenceInv, AgainstInv
  <2>3. ASSUME NEW q \in Patterns, NEW n \in against'[q]
        PROVE  n <= stored' /\ (InFile(q, n)' \/ stored' - n >= KeepRecent \/ n <= wiped')
    <3>1. CASE n \in against[q]
      <4>1. n \in Nat
        BY <3>1 DEF EvidenceInv, AgainstInv
      <4>2. n <= stored /\ (InFile(q, n) \/ stored - n >= KeepRecent \/ n <= wiped)
        BY <3>1 DEF EvidenceInv, AgainstInv
      <4>3. n <= stored' /\ (stored - n >= KeepRecent => stored' - n >= KeepRecent)
        BY <1>1, <1>3, <4>1, <4>2
      <4> QED BY <1>3, <1>6, <4>2, <4>3
    <3>2. CASE n = stored + 1 /\ q = p /\ ~agrees
      <4>1. L + 1 \in 1..Len(shadow')
        BY <1>1, <1>4
      <4>2. InFile(q, n)'
        BY <1>4, <3>2, <4>1 DEF InFile
      <4>3. n <= stored'
        BY <1>1, <1>3, <3>2
      <4> QED BY <4>2, <4>3
    <3> QED BY <2>1, <3>1, <3>2
  <2> QED BY <2>2, <2>3 DEF AgainstInv
<1>8. VouchInv'
  <2>1. ASSUME NEW i \in 1..(L + 1), shadow'[i].route = "active_reflex"
        PROVE  shadow'[i].pattern \in everApproved
    <3>1. CASE i \in 1..L
      BY <1>4, <2>1, <3>1 DEF EvidenceInv, VouchInv
    <3>2. CASE i = L + 1
      BY <1>4, <2>1, <3>2
    <3> QED BY <1>1, <3>1, <3>2
  <2> QED BY <1>4, <2>1 DEF EvidenceInv, VouchInv
<1> QED BY <1>5, <1>7, <1>8 DEF EvidenceInv

(* Whatever becomes of the line of an evaluation, the evidence stays sound.   *)
LEMMA PersistKeepsEvidence ==
  ASSUME EvidenceInv, KeepRecent \in Nat, NEW p \in Patterns \cup {NoPattern},
         NEW agrees \in BOOLEAN, NEW route \in Routes,
         route = "active_reflex" => p \in everApproved,
         Persist(p, agrees, route), UNCHANGED <<active, everApproved>>
  PROVE  EvidenceInv'
<1>1. CASE StoreLine(p, agrees, route)
  BY <1>1, StoredLineKeepsEvidence
<1>2. CASE StoreBehindCut \/ StoreCutShort
  <2>1. UNCHANGED <<shadow, readable, stored, against, wiped>>
    BY <1>2 DEF StoreBehindCut, StoreCutShort
  <2>2. corrupt' /\ (cut' => corrupt')
    BY <1>2 DEF StoreBehindCut, StoreCutShort, EvidenceInv, FileInv
  <2>3. FileInv'
    BY <2>1, <2>2 DEF EvidenceInv, FileInv
  <2>4. AgainstInv'
    BY <2>1 DEF EvidenceInv, AgainstInv, InFile
  <2>5. VouchInv'
    BY <2>1 DEF EvidenceInv, VouchInv
  <2> QED BY <2>3, <2>4, <2>5 DEF EvidenceInv
<1>3. CASE UNCHANGED evidenceVars
  BY <1>3, OthersKeepEvidence DEF EvidenceInv, VouchInv
<1> QED BY <1>1, <1>2, <1>3 DEF Persist

----------------------------------------------------------------------------
(* The compactor *)

(* What is retained of a ledger above the threshold is its younger end.       *)
LEMMA RetainedIsEnd ==
  ASSUME FileInv, KeepRecent \in Nat, Len(shadow) > KeepRecent
  PROVE  /\ Retained \in Seq(Lines)
         /\ Len(Retained) = KeepRecent
         /\ \A i \in 1..KeepRecent : /\ Len(shadow) - KeepRecent + i \in 1..Len(shadow)
                                     /\ Retained[i] = shadow[Len(shadow) - KeepRecent + i]
<1>1. Len(shadow) \in Nat /\ shadow \in Seq(Lines)
  BY DEF FileInv
<1> QED BY <1>1 DEF Retained

(* A beginning of what is retained, written by a compactor: its lines are as  *)
(* young as their places say, and vouched for as before.                     *)
LEMMA WrittenIsSound ==
  ASSUME EvidenceInv, KeepRecent \in Nat, Len(shadow) > KeepRecent,
         NEW k \in 0..KeepRecent, shadow' = SubSeq(Retained, 1, k), readable' = k,
         cut' => corrupt', UNCHANGED stored,
         active' \subseteq everApproved', UNCHANGED everApproved
  PROVE  FileInv' /\ VouchInv'
<1> DEFINE L == Len(shadow)
<1>1. L \in Nat /\ stored \in Nat /\ shadow \in Seq(Lines) /\ FileInv
  BY DEF EvidenceInv, FileInv
<1>2. /\ Retained \in Seq(Lines)
      /\ Len(Retained) = KeepRecent
      /\ \A i \in 1..KeepRecent : L - KeepRecent + i \in 1..L /\ Retained[i] = shadow[L - KeepRecent + i]
  BY <1>1, RetainedIsEnd
<1>3. /\ shadow' \in Seq(Lines)
      /\ Len(shadow') = k
      /\ \A i \in 1..k : i \in 1..KeepRecent /\ shadow'[i] = Retained[i]
  BY <1>2
<1>4. FileInv'
  <2>1. ASSUME NEW i \in 1..k PROVE shadow'[i].nth <= stored - (k - i)
    <3>1. shadow'[i] = shadow[L - KeepRecent + i] /\ L - KeepRecent + i \in 1..L
      BY <1>2, <1>3
    <3>2. shadow[L - KeepRecent + i].nth <= stored - (L - (L - KeepRecent + i))
      BY <3>1 DEF EvidenceInv, FileInv
    <3>3. shadow[L - KeepRecent + i] \in Lines
      BY <1>1, <3>1
    <3>4. shadow[L - KeepRecent + i].nth \in Nat
      BY <3>3 DEF Lines
    <3> QED BY <1>1, <3>1, <3>2, <3>4
  <2>2. k \in 0..k /\ stored' \in Nat
    BY <1>1
  <2>3. \A i \in 1..Len(shadow') : shadow'[i].nth <= stored' - (Len(shadow') - i)
    BY <1>3, <2>1
  <2> QED BY <1>3, <2>2, <2>3 DEF FileInv
<1>5. VouchInv'
  <2>1. ASSUME NEW i \in 1..k, shadow'[i].route = "active_reflex"
        PROVE  shadow'[i].pattern \in everApproved
    BY <1>2, <1>3, <2>1 DEF EvidenceInv, VouchInv
  <2> QED BY <1>3, <2>1 DEF VouchInv
<1> QED BY <1>4, <1>5

LEMMA HousekeepingKeepsEvidence ==
  ASSUME EvidenceInv, KeepRecent \in Nat, Housekeeping
  PROVE  EvidenceInv'
<1> DEFINE L == Len(shadow)
<1>0. /\ UNCHANGED <<stored, against, wiped, everApproved>>
      /\ active' \subseteq everApproved
  BY DEF Housekeeping, Forget, EvidenceInv, VouchInv
<1>1. CASE L <= KeepRecent
  <2>1. UNCHANGED evidenceVars
    BY <1>0, <1>1 DEF Housekeeping, CompactShadow, evidenceVars
  <2> QED BY <1>0, <2>1, OthersKeepEvidence
<1>2. CASE L > KeepRecent
  <2>0. L \in Nat /\ stored \in Nat /\ shadow \in Seq(Lines) /\ FileInv
    BY DEF EvidenceInv, FileInv
  <2>1. /\ shadow' = Retained /\ readable' = KeepRecent
        /\ ~corrupt' /\ ~cut'
    BY <1>2, <2>0 DEF Housekeeping, CompactShadow
  <2>2. /\ Retained \in Seq(Lines)
        /\ Len(Retained) = KeepRecent
        /\ \A i \in 1..KeepRecent : L - KeepRecent + i \in 1..L /\ Retained[i] = shadow[L - KeepRecent + i]
    BY <1>2, <2>0, RetainedIsEnd
  <2>3. shadow' = SubSeq(Retained, 1, KeepRecent)
    BY <2>1, <2>2
  <2>4. FileInv' /\ VouchInv'
    BY <1>0, <1>2, <2>1, <2>3, WrittenIsSound
  <2>5. AgainstInv'
    <3>1. ASSUME NEW p \in Patterns, NEW n \in against[p], InFile(p, n)
          PROVE  InFile(p, n)' \/ stored - n >= KeepRecent
      <4>1. PICK i \in 1..L : shadow[i].nth = n /\ shadow[i].pattern = p /\ ~shadow[i].agrees
        BY <3>1 DEF InFile
      <4>2. CASE i > L - KeepRecent
        <5>1. i - (L - KeepRecent) \in 1..KeepRecent
          BY <2>0, <4>2
        <5>2. shadow'[i - (L - KeepRecent)] = shadow[L - KeepRecent + (i - (L - KeepRecent))]
          BY <2>1, <2>2, <5>1
        <5>3. L - KeepRecent + (i - (L - KeepRecent)) = i
          BY <2>0
        <5> QED BY <2>1, <2>2, <4>1, <5>1, <5>2, <5>3 DEF InFile
      <4>3. CASE i <= L - KeepRecent
        <5>1. n <= stored - (L - i)
          BY <4>1 DEF EvidenceInv, FileInv
        <5>2. n \in Nat
          BY DEF EvidenceInv, AgainstInv
        <5> QED BY <2>0, <4>3, <5>1, <5>2
      <4> QED BY <2>0, <4>2, <4>3
    <3> QED BY <1>0, <3>1 DEF EvidenceInv, AgainstInv
  <2> QED BY <2>4, <2>5 DEF EvidenceInv
<1> QED BY <1>1, <1>2 DEF EvidenceInv, FileInv

LEMMA DeathKeepsEvidence ==
  ASSUME EvidenceInv, KeepRecent \in Nat, HousekeepingDies
  PROVE  EvidenceInv'
<1>1. /\ Len(shadow) > KeepRecent
      /\ UNCHANGED <<active, stored, against, everApproved>>
      /\ wiped' = stored /\ corrupt' = cut'
  BY DEF HousekeepingDies
<1>2. PICK k \in 0..KeepRecent : shadow' = SubSeq(Retained, 1, k) /\ readable' = k
  BY DEF HousekeepingDies
<1>3. active' \subseteq everApproved'
  BY <1>1 DEF EvidenceInv, VouchInv
<1>4. FileInv' /\ VouchInv'
  BY <1>1, <1>2, <1>3, WrittenIsSound
<1>5. AgainstInv'
  BY <1>1 DEF EvidenceInv, AgainstInv
<1> QED BY <1>4, <1>5 DEF EvidenceInv

----------------------------------------------------------------------------
LEMMA NextEvidence == EvidenceInv /\ [RoutingNext]_routingVars => EvidenceInv'
<1> SUFFICES ASSUME EvidenceInv, [RoutingNext]_routingVars PROVE EvidenceInv'
  OBVIOUS
<1>0. KeepRecent \in Nat /\ active \subseteq everApproved
  BY RoutingAssumption DEF RoutingAssumption, EvidenceInv, VouchInv
<1>1. ASSUME NEW p \in Patterns, Distill(p) \/ FastTurn(p) PROVE EvidenceInv'
  BY <1>0, <1>1, OthersKeepEvidence DEF Distill, FastTurn
<1>2. ASSUME NEW p \in Patterns, OperatorApproves(p) PROVE EvidenceInv'
  BY <1>0, <1>2, OthersKeepEvidence DEF OperatorApproves, Approve
<1>3. ASSUME NEW p \in Patterns, OperatorDisables(p) PROVE EvidenceInv'
  BY <1>0, <1>3, OthersKeepEvidence DEF OperatorDisables, Disable
<1>4. ASSUME NEW p \in Patterns, ReflexTurn(p) PROVE EvidenceInv'
  BY <1>0, <1>4, PersistKeepsEvidence DEF ReflexTurn, Routes
<1>5. ASSUME NEW p \in Patterns, PipelineTurn(p) PROVE EvidenceInv'
  BY <1>0, <1>5, PersistKeepsEvidence DEF PipelineTurn, Routes
<1>6. CASE UnmatchedTurn
  BY <1>0, <1>6, PersistKeepsEvidence DEF UnmatchedTurn, Routes
<1>7. CASE StartSession \/ HostLoad \/ UNCHANGED routingVars
  BY <1>0, <1>7, OthersKeepEvidence DEF StartSession, HostLoad, routingVars
<1>8. CASE Housekeeping \/ HousekeepingDies
  BY <1>0, <1>8, HousekeepingKeepsEvidence, DeathKeepsEvidence
<1> QED
  BY <1>1, <1>2, <1>3, <1>4, <1>5, <1>6, <1>7, <1>8 DEF RoutingNext

(* The inductive invariant of the evidence holds in every reachable state.   *)
THEOREM RoutingInvariant == RoutingSpec => []EvidenceInv
<1>1. RoutingInit => EvidenceInv
  BY InitEvidence
<1>2. EvidenceInv /\ [RoutingNext]_routingVars => EvidenceInv'
  BY NextEvidence
<1> QED BY <1>1, <1>2, PTL DEF RoutingSpec

(* What spoke against a reflex counts in its next review until KeepRecent     *)
(* younger evaluations were stored, but for corrupt lines and a dead         *)
(* compactor: persist_evaluation, the compactor, _get_pattern_shadow_stats.  *)
THEOREM RecentDisagreementsCount == RoutingSpec => []RecentDisagreementsShown
<1>1. EvidenceInv => RecentDisagreementsShown
  <2> SUFFICES ASSUME EvidenceInv, NEW p \in Patterns, NEW n \in against[p],
                      ~(stored - n >= KeepRecent), ~(n <= wiped)
               PROVE  \/ \E i \in Evidence(p) : shadow[i].nth = n /\ ~shadow[i].agrees
                      \/ corrupt /\ \E i \in (readable + 1)..Len(shadow) : shadow[i].nth = n
    BY DEF RecentDisagreementsShown
  <2>1. InFile(p, n)
    BY DEF EvidenceInv, AgainstInv
  <2>2. PICK i \in 1..Len(shadow) :
          shadow[i].nth = n /\ shadow[i].pattern = p /\ ~shadow[i].agrees
    BY <2>1 DEF InFile
  <2>3. readable \in 0..Len(shadow) /\ (~corrupt => readable = Len(shadow)) /\ Len(shadow) \in Nat
    BY DEF EvidenceInv, FileInv
  <2>4. CASE i \in 1..readable
    BY <2>2, <2>4 DEF Evidence
  <2>5. CASE i \in (readable + 1)..Len(shadow)
    <3>1. corrupt
      BY <2>3, <2>5
    <3> QED BY <2>2, <2>5, <3>1
  <2> QED BY <2>3, <2>4, <2>5
<1> QED BY <1>1, RoutingInvariant, PTL

(* The agreement rate a first approval is based on is the pipeline's alone.   *)
THEOREM FirstApprovalIsBlind == RoutingSpec => []FirstApprovalEvidence
<1>1. EvidenceInv => FirstApprovalEvidence
  <2> SUFFICES ASSUME EvidenceInv, NEW p \in Patterns \ everApproved, NEW i \in Evidence(p)
               PROVE  shadow[i].route # "active_reflex"
    BY DEF FirstApprovalEvidence, BlindEvidence
  <2>1. i \in 1..Len(shadow) /\ shadow[i].pattern = p
    BY DEF Evidence, EvidenceInv, FileInv
  <2> QED BY <2>1 DEF EvidenceInv, VouchInv
<1> QED BY <1>1, RoutingInvariant, PTL
=============================================================================
