---------------------------- MODULE ReflexLedger ----------------------------
(***************************************************************************)
(* reflex_promotion_ledger.jsonl: the operator's orders to activate and to *)
(* disable reflexes, appended by ReflexPromotionGate to a file that the    *)
(* ledger compactor also rewrites, and read back in full by                *)
(* get_active_reflexes on every turn.  The file is the one of LedgerFile;  *)
(* an event is an order.  Unlike the other readers, the gate stops at the  *)
(* first line it cannot parse.                                             *)
(***************************************************************************)
EXTENDS LedgerFile

CONSTANT Patterns   \* pattern identifiers the operator may name

VARIABLE order      \* the order each event records, NoOrder before it is given

reflexVars == <<vars, order>>

NoOrder == [pattern |-> "none", status |-> "none"]

----------------------------------------------------------------------------
\* The records a reader sees that gives up at the first corrupt line.
UntilCorrupt(s) ==
  LET bad == {i \in 1..Len(s) : s[i] = Corrupt}
  IN  IF bad = {} THEN s ELSE SubSeq(s, 1, Min(bad) - 1)

ActiveInEver(s) ==
  {p \in Patterns :
     \E i \in 1..Len(s) : order[s[i]].pattern = p /\ order[s[i]].status = "active_local"}

ActiveInAnyStatus(s) == {p \in Patterns : \E i \in 1..Len(s) : order[s[i]].pattern = p}

\* The last record of a pattern decides.
ActiveIn(s) ==
  {p \in Patterns :
     \E i \in 1..Len(s) :
       /\ order[s[i]] = [pattern |-> p, status |-> "active_local"]
       /\ \A j \in (i + 1)..Len(s) : order[s[j]].pattern # p}

GetActiveReflexes == ActiveIn(UntilCorrupt(lines))

----------------------------------------------------------------------------
ReflexInit == Init /\ order = [e \in Event |-> NoOrder]

\* /reflex-approve: any identifier is accepted, assessed or not.
ApprovePromotion(p) ==
  /\ Append1
  /\ order' = [order EXCEPT ![nextId] = [pattern |-> p, status |-> "active_local"]]

\* /reflex-disable
DisableReflex(p) ==
  /\ Append1
  /\ order' = [order EXCEPT ![nextId] = [pattern |-> p, status |-> "disabled"]]

\* The record cannot be written in full, and the command reports the error.
FailedOrder == ShortWrite /\ UNCHANGED order

Housekeeping == (Compactor \/ CompactCrash) /\ UNCHANGED order

ReflexNext ==
  \/ \E p \in Patterns : ApprovePromotion(p) \/ DisableReflex(p)
  \/ FailedOrder
  \/ Housekeeping

ReflexSpec == ReflexInit /\ [][ReflexNext]_reflexVars

----------------------------------------------------------------------------
(* Properties *)

OrdersFor(p) == {e \in stored : order[e].pattern = p}

LastOrder(p) == CHOOSE e \in OrdersFor(p) : \A f \in OrdersFor(p) : f <= e

Disabled(p) == OrdersFor(p) # {} /\ order[LastOrder(p)].status = "disabled"

\* No line was cut, and no order given during a compaction or held by a dead one.
Undamaged == corrupted = 0 /\ exposed = {}

(* Until the file is damaged, the gate obeys the last order of the operator   *)
(* for each reflex, across compactions: a disabled one is off, and one whose  *)
(* approval is still in the file is on.                                      *)
LastOrderWins ==
  Undamaged /\ cpc # "truncated" =>
    \A p \in Patterns :
      /\ Disabled(p) => p \notin GetActiveReflexes
      /\ (OrdersFor(p) # {} /\ ~Disabled(p) /\ LastOrder(p) \in Hot)
           => p \in GetActiveReflexes

(* Whatever happens to the file, no reflex is active that the operator never  *)
(* approved: cut lines, lost appends and crashes of the compactor can only    *)
(* bring back an approval that was given.                                    *)
ActivationWasOrdered ==
  \A p \in GetActiveReflexes :
    \E e \in OrdersFor(p) : order[e].status = "active_local"

(* Until it is damaged, the file implements the registry of active reflexes; *)
(* while the compactor holds the truncated file, the registry is what it is   *)
(* about to write back.  A damaged file promises nothing: a cut line may hide *)
(* a rollback, and the registry has forgotten everything.                    *)
Registry == INSTANCE ReflexRegistry WITH
  active <- IF ~Undamaged THEN {}
            ELSE IF cpc = "truncated" THEN ActiveIn(Retained)
            ELSE GetActiveReflexes

(* Each step of the ledger is an approval, a rollback or the forgetting of    *)
(* old orders: compaction and reading never activate a reflex.               *)
ImplementsRegistry == Registry!RegistrySpec
=============================================================================
