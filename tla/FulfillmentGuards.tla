-------------------------- MODULE FulfillmentGuards --------------------------
(***************************************************************************)
(* What PostgreSQL accepts of the executions of Digital orders: triggers   *)
(* that compare an execution, its entitlement and its evidence before and  *)
(* after each command, and a deferred one that looks at the whole graph of *)
(* an execution when the transaction commits.                              *)
(***************************************************************************)
EXTENDS FiniteSets

CONSTANTS
  Order, Line,
  OrderOf,       \* [Line -> Order]
  Preorder,      \* lines that get their obligation from the release
  InStoreOnly,   \* lines sold at capacity 1
  Admin,         \* staff who may override the assigned operator
  NoOne

VARIABLES
  paid,      \* finalized orders
  delivered, \* orders whose projection is delivered
  due,       \* lines that have an obligation
  item,      \* the execution of each line; status "none" when there is none
  entitled,  \* lines whose entitlement is active
  active     \* staff whose account is active

vars == <<paid, delivered, due, item, entitled, active>>

Absent(l)    == item[l].status = "none"
Installed(l) == item[l].installed.source # "none"

Init ==
  /\ paid = {} /\ delivered = {} /\ due = {} /\ entitled = {}
  /\ \A l \in Line : Absent(l)

-----------------------------------------------------------------------------
(* Guards of an order and its obligations                                  *)

\* A finalized order stays paid, its fulfillment never moves backward, and no
\* order is delivered unfinalized.
ProjectionForward ==
  paid \subseteq paid' /\ delivered \subseteq delivered' /\ delivered' \subseteq paid'

\* At the finalization every line has its part of the order's obligations, which
\* for a preordered line is fulfilled by an obligation of a later transaction.
FinalizationObliges(o) ==
  o \in paid' \ paid =>
    /\ {l \in Line \ Preorder : OrderOf[l] = o} \subseteq due'
    /\ o \notin delivered'

\* An obligation that joins a finalization has it validated again as a whole, while
\* its order is still processing.
ObligationJoins(l) ==
  l \in due' \ due => OrderOf[l] \in paid' \ delivered'

\* Executions are of obligations, which are never withdrawn.
ObligationKept(l) == (l \in due => l \in due') /\ (~Absent(l) => l \in due)

-----------------------------------------------------------------------------
(* Guards of one row                                                       *)

ExecutionMoves ==
  ({"none"} \X {"queued"}) \cup
  ({"queued"} \X {"waiting_customer", "exception"}) \cup
  ({"waiting_customer"} \X {"ready_for_staff", "in_progress", "exception"}) \cup
  ({"ready_for_staff"} \X {"in_progress", "exception"}) \cup
  ({"in_progress"} \X {"waiting_confirmation", "completed", "exception"}) \cup
  ({"waiting_confirmation"} \X {"completed", "exception"}) \cup
  ({"exception"} \X {"queued", "waiting_customer", "ready_for_staff"})

TransitionLegal(l) ==
  item'[l].status # item[l].status => <<item[l].status, item'[l].status>> \in ExecutionMoves

CompletionPermanent(l) ==
  item[l].status = "completed" =>
    /\ item'[l].status = "completed" /\ item'[l].method = item[l].method
    /\ item'[l].operator = item[l].operator

\* The method changes before work begins, on no evidence of the other one.
MethodGuarded(l) ==
  item'[l].method # item[l].method /\ ~Absent(l) =>
    /\ item[l].status \in {"queued", "waiting_customer"} /\ item'[l].status = item[l].status
    /\ item[l].done \cap {"console", "work", "remote"} = {} /\ ~Installed(l)
    /\ l \in InStoreOnly => item'[l].method = "in_store"

EntitlementPermanent == entitled \subseteq entitled'

EvidenceAppended(l) == item[l].done \subseteq item'[l].done

\* The assigned operator, anyone while nobody is assigned, an Admin over another.
Authorized(l, s) == s \in active /\ (item[l].operator \in {s, NoOne} \/ s \in Admin)

\* Somebody with authority stands behind every change but the provisioning and
\* the customer's confirmation.
ActorAuthorized(l) ==
  item'[l] # item[l] /\ ~Absent(l) /\ item'[l].status # "completed" =>
    \E s \in active : Authorized(l, s)

\* Evidence of an installation names an authorized operator.
InstallationAuthorized(l) ==
  item'[l].installed # item[l].installed /\ item'[l].installed.source # "none" =>
    Authorized(l, item'[l].installed.operator)

\* Evidence of the purchased game is superseded only before completion, and
\* only while there is a record to supersede.
SupersessionGuarded(l) ==
  item'[l].installed # item[l].installed => item[l].status \notin {"none", "completed"}

-----------------------------------------------------------------------------
(* Guard of the graph at commit                                            *)

\* The evidence that the method of a completed execution needs.
MethodEvidenced(l) ==
  CASE item[l].method = "in_store" -> "console" \in item[l].done
    [] item[l].method = "remote"   -> "remote" \in item[l].done

GraphValid(l) ==
  /\ l \in entitled <=> item[l].status = "completed"
  /\ item[l].status = "completed" =>
       /\ Installed(l) /\ "work" \in item[l].done
       /\ MethodEvidenced(l) /\ item[l].installed.source = item[l].method

Accepted ==
  /\ ProjectionForward /\ EntitlementPermanent
  /\ \A o \in Order : FinalizationObliges(o)
  /\ \A l \in Line :
       /\ ObligationJoins(l) /\ ObligationKept(l)
       /\ TransitionLegal(l) /\ CompletionPermanent(l) /\ MethodGuarded(l)
       /\ EvidenceAppended(l) /\ ActorAuthorized(l)
       /\ InstallationAuthorized(l) /\ SupersessionGuarded(l)
       /\ GraphValid(l)'

Spec == Init /\ [][Accepted]_vars
=============================================================================
