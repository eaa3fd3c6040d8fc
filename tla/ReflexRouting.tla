--------------------------- MODULE ReflexRouting ---------------------------
(***************************************************************************)
(* The life of a reflex: distilled by Dream Mode into a ledger, loaded into *)
(* the MinimalNeuralLayer when a session starts, watched in shadow mode,   *)
(* reviewed and approved by the operator, and from then on used by         *)
(* LocalIntentRouter in place of the LLM.  The set of active reflexes is   *)
(* the registry that ReflexLedger is shown to implement.                   *)
(* The evidence a review reads is the shadow ledger, a file: its lines may  *)
(* be lost when they are written, hidden behind a corrupt one, and archived *)
(* by the compactor, which another process may run.                        *)
(***************************************************************************)
EXTENDS Integers, Sequences, FiniteSets, ReflexRegistry

CONSTANTS
  Risk,            \* risk_score of each distilled pattern, in hundredths
  Certified,       \* patterns whose name is in certified_reflexes
  AuditSeesStress, \* the context engine of the review was given a stress guard
  KeepRecent,      \* keep_recent of the compactor
  MaxStored        \* bound: evaluations stored in the shadow ledger

\* matched_pattern_id of a turn that matches no pattern.
NoPattern == "none"

ASSUME RoutingAssumption ==
  /\ Risk \in [Patterns -> 0..100]
  /\ Certified \subseteq Patterns
  /\ NoPattern \notin Patterns
  /\ AuditSeesStress \in BOOLEAN
  /\ KeepRecent \in Nat
  /\ MaxStored \in Nat

VARIABLES
  distilled,  \* patterns in distilled_reasoning_ledger.jsonl
  loaded,     \* patterns of the running session's MinimalNeuralLayer
  shadow,     \* the evaluations in the shadow ledger, in order
  readable,   \* how many of them stand before the first corrupt line
  corrupt,    \* some line of the file is corrupt
  cut,        \* its last line has no newline
  stored,     \* history: number of evaluations stored
  against,    \* history: the numbers of those that spoke against a pattern
  wiped,      \* history: evaluations stored when a compactor last died
  stressed,   \* the host is under stress
  everApproved, \* history: patterns approved at least once
  lastRoute   \* how the last turn was routed

fileVars == <<shadow, readable, corrupt, cut>>
evidenceVars == <<fileVars, stored, against, wiped>>
routingVars == <<active, distilled, loaded, evidenceVars, stressed, everApproved, lastRoute>>

----------------------------------------------------------------------------
(* assess_pattern_for_promotion *)

\* What _get_pattern_shadow_stats reads of a pattern, up to the first corrupt line.
Evidence(p) == {i \in 1..readable : shadow[i].pattern = p}

\* The part of it that the pattern did not decide itself.
BlindEvidence(p) == {i \in Evidence(p) : shadow[i].route # "active_reflex"}

\* round(agreements / total, 2), in hundredths.
AgreementRate(evidence) ==
  LET total == Cardinality(evidence)
      agreed == Cardinality({i \in evidence : shadow[i].agrees})
  IN  IF total = 0 THEN 0 ELSE (200 * agreed + total) \div (2 * total)

\* A frame built with no metadata scores 0.88, and 0.72 when its stress guard
\* reports a stressed host.
ContextScore == IF AuditSeesStress /\ stressed THEN 72 ELSE 88

PromotionAllowed(p) ==
  /\ p \in distilled
  /\ AgreementRate(Evidence(p)) >= 90
  /\ ContextScore >= 85
  /\ Risk[p] <= 20

----------------------------------------------------------------------------
(* FastPathReflexGate and LocalIntentRouter *)

\* is_certified_fast_path, with human_approved and rollback_available at their
\* default, which holds for the certified names; the other flags are unset.
FastPathAllowed(p) == p \in Certified /\ p \in active /\ Risk[p] = 0

----------------------------------------------------------------------------
(* persist_evaluation *)

\* A line of its own.
StoreLine(p, agrees, route) ==
  /\ ~cut
  /\ stored < MaxStored
  /\ stored' = stored + 1
  /\ shadow' = Append(shadow, [nth |-> stored + 1, pattern |-> p,
                               agrees |-> agrees, route |-> route])
  /\ readable' = IF corrupt THEN readable ELSE readable + 1
  /\ against' = [q \in Patterns |->
                   IF q = p /\ ~agrees THEN against[q] \cup {stored + 1} ELSE against[q]]
  /\ UNCHANGED <<corrupt, cut, wiped>>

\* The file ends in a cut line, which the new one completes: neither is JSON.
StoreBehindCut ==
  /\ cut
  /\ cut' = FALSE
  /\ UNCHANGED <<shadow, readable, corrupt, stored, against, wiped>>

\* The disk fills: part of the line stays in the file.
StoreCutShort ==
  /\ corrupt' = TRUE
  /\ cut' = TRUE
  /\ UNCHANGED <<shadow, readable, stored, against, wiped>>

\* Errors of the append are swallowed; and shadow mode may be switched off.
Persist(p, agrees, route) ==
  \/ StoreLine(p, agrees, route)
  \/ StoreBehindCut
  \/ StoreCutShort
  \/ UNCHANGED evidenceVars

----------------------------------------------------------------------------
RoutingInit ==
  /\ RegistryInit
  /\ distilled = {}
  /\ loaded = {}
  /\ shadow = <<>>
  /\ readable = 0
  /\ corrupt = FALSE
  /\ cut = FALSE
  /\ stored = 0
  /\ against = [p \in Patterns |-> {}]
  /\ wiped = 0
  /\ stressed \in BOOLEAN
  /\ everApproved = {}
  /\ lastRoute = "none"

\* A Dream Mode process persists a distilled pattern.
Distill(p) ==
  /\ p \notin distilled
  /\ distilled' = distilled \cup {p}
  /\ UNCHANGED <<active, loaded, evidenceVars, stressed, everApproved, lastRoute>>

\* A session starts: load_patterns, once.
StartSession ==
  /\ loaded' = distilled
  /\ lastRoute' = "none"
  /\ UNCHANGED <<active, distilled, evidenceVars, stressed, everApproved>>

\* /reflex-approve and /reflex-disable
OperatorApproves(p) ==
  /\ Approve(p)
  /\ everApproved' = everApproved \cup {p}
  /\ UNCHANGED <<distilled, loaded, evidenceVars, stressed, lastRoute>>

OperatorDisables(p) ==
  /\ Disable(p)
  /\ UNCHANGED <<distilled, loaded, evidenceVars, stressed, everApproved, lastRoute>>

\* A turn whose input matches p takes the fast path: nothing is observed.
FastTurn(p) ==
  /\ p \in loaded
  /\ FastPathAllowed(p)
  /\ lastRoute' = "fast_path"
  /\ UNCHANGED <<active, distilled, loaded, evidenceVars, stressed, everApproved>>

ReflexTurnUnlisted(p) ==
  /\ p \in loaded
  /\ ~FastPathAllowed(p)
  /\ lastRoute' = "active_reflex"
  /\ Persist(p, TRUE, "active_reflex")
  /\ UNCHANGED <<active, distilled, loaded, stressed, everApproved>>

\* It is routed by the active reflex; shadow mode then compares the action the
\* dispatcher was given, the reflex's own, with the suggestion of the reflex.
ReflexTurn(p) ==
  /\ p \in loaded
  /\ p \in active
  /\ ~FastPathAllowed(p)
  /\ lastRoute' = "active_reflex"
  /\ Persist(p, TRUE, "active_reflex")
  /\ UNCHANGED <<active, distilled, loaded, stressed, everApproved>>

\* The reflex is not active: keywords, the file type or the LLM decide.
PipelineTurn(p) ==
  /\ p \in loaded
  /\ p \notin active
  /\ lastRoute' = "pipeline"
  /\ \E agrees \in BOOLEAN : Persist(p, agrees, "pipeline")
  /\ UNCHANGED <<active, distilled, loaded, stressed, everApproved>>

\* A turn that no pattern matches is evaluated too, as "missing_pattern".
UnmatchedTurn ==
  /\ lastRoute' = "pipeline"
  /\ Persist(NoPattern, FALSE, "pipeline")
  /\ UNCHANGED <<active, distilled, loaded, stressed, everApproved>>

HostLoad ==
  /\ stressed' = ~stressed
  /\ UNCHANGED <<active, distilled, loaded, evidenceVars, everApproved, lastRoute>>

----------------------------------------------------------------------------
(* --compact-ledgers, in another process, over all ledgers *)

RetainedOldest == SubSeq(shadow, 1, KeepRecent)

Retained == SubSeq(shadow, Len(shadow) - KeepRecent + 1, Len(shadow))

\* A ledger below the threshold stays as it is, its corrupt lines included.
CompactShadow ==
  IF Len(shadow) <= KeepRecent THEN UNCHANGED fileVars
  ELSE /\ shadow' = Retained
       /\ readable' = KeepRecent
       /\ corrupt' = FALSE
       /\ cut' = FALSE

\* The oldest distilled patterns and orders are archived: any of those followed
\* here, since sessions distil others and the operator reviews others.
Housekeeping ==
  /\ CompactShadow
  /\ distilled' \in SUBSET distilled
  /\ Forget
  /\ UNCHANGED <<loaded, stored, against, wiped, stressed, everApproved, lastRoute>>

\* The process dies while it writes the truncated shadow ledger.
HousekeepingDies ==
  /\ Len(shadow) > KeepRecent
  /\ \E written \in 0..KeepRecent :
       /\ shadow' = SubSeq(Retained, 1, written)
       /\ readable' = written
       /\ cut' \in {FALSE, written < KeepRecent}
  /\ corrupt' = cut'
  /\ wiped' = stored
  /\ UNCHANGED <<active, distilled, loaded, stored, against, stressed, everApproved, lastRoute>>

RoutingNext ==
  \/ \E p \in Patterns :
       \/ Distill(p)
       \/ OperatorApproves(p)
       \/ OperatorDisables(p)
       \/ FastTurn(p)
       \/ ReflexTurn(p)
       \/ PipelineTurn(p)
  \/ UnmatchedTurn
  \/ StartSession
  \/ HostLoad
  \/ Housekeeping
  \/ HousekeepingDies

RoutingSpec == RoutingInit /\ [][RoutingNext]_routingVars

----------------------------------------------------------------------------
(* Properties *)

(* Every evaluation that reached the ledger and spoke against a reflex counts *)
(* in the next review of it, for as long as fewer than KeepRecent younger     *)
(* ones were stored, but for two kinds of damage: it stands behind a corrupt  *)
(* line, where the strict reader of the gate does not get, or a compactor     *)
(* died that had read it.                                                    *)
RecentDisagreementsShown ==
  \A p \in Patterns : \A n \in against[p] :
    \/ \E i \in Evidence(p) : shadow[i].nth = n /\ ~shadow[i].agrees
    \/ stored - n >= KeepRecent
    \/ n <= wiped
    \/ corrupt /\ \E i \in (readable + 1)..Len(shadow) : shadow[i].nth = n

(* Until its first approval the agreement rate of a reflex is that of the     *)
(* pipeline alone: a reflex that was never activated cannot have vouched for  *)
(* itself, however sessions, reloads, losses and reviews follow each other.  *)
FirstApprovalEvidence ==
  \A p \in Patterns \ everApproved : Evidence(p) = BlindEvidence(p)

(* "Agreement Rate (>= 90%): El reflejo debe haber coincidido con la decision *)
(* del pipeline real": the turns a reflex routes itself do not count.        *)
AgreementIsBlind ==
  \A p \in Patterns : PromotionAllowed(p) => AgreementRate(BlindEvidence(p)) >= 90
=============================================================================
