------------------------- MODULE DigitalFulfillment -------------------------
(***************************************************************************)
(* What happens to a Digital order once it is paid: the obligations of its *)
(* lines, the release that creates the obligations of preordered lines,    *)
(* the intake that opens an execution for each, the commands staff and the *)
(* customer give on an execution, its completion, and the delivered mark   *)
(* of the order.                                                           *)
(*                                                                         *)
(* Every command is a transaction that locks the execution row and is one  *)
(* action, but for a completion, which reads the executions of the other   *)
(* lines of the order, that it does not lock, before it commits: it begins *)
(* and commits in two actions, and no other command enters its row between *)
(* them.  A command that raises rolls back, so the condition of the raise  *)
(* is a guard.  Notes and bonus games add rows that no command reads and   *)
(* are left out; a replayed idempotency key changes nothing.               *)
(***************************************************************************)
EXTENDS FiniteSets

CONSTANTS
  Order, Line,
  OrderOf,        \* [Line -> Order]
  Preorder,       \* lines bought before the game's release
  InStoreOnly,    \* lines whose offer is of capacity 1
  SoldAs,         \* fulfillment method frozen in each line's snapshot
  Manager, Admin, \* staff, by user type
  NoOne

Method == {"in_store", "remote"}
Staff  == Manager \cup Admin

ASSUME OrderAssumption ==
  /\ OrderOf \in [Line -> Order]
  /\ Preorder \subseteq Line
  /\ InStoreOnly \subseteq Line
  /\ SoldAs \in [Line -> Method]
  /\ \A l \in InStoreOnly : SoldAs[l] = "in_store"
ASSUME StaffAssumption == NoOne \notin Staff

VARIABLES
  paid,       \* orders finalized as paid
  delivered,  \* orders whose fulfillment_status is delivered
  released,   \* the preordered product is RELEASED
  due,        \* lines that have an obligation
  item,       \* the execution of each line
  entitled,   \* lines whose entitlement is active
  ending,     \* a completion between its last read and its commit
  active      \* staff whose account is active

catalog == <<released, active>>
orders  == <<paid, delivered>>
vars    == <<orders, catalog, due, item, entitled, ending>>

Statuses ==
  {"queued", "waiting_customer", "ready_for_staff", "in_progress",
   "waiting_confirmation", "completed", "exception"}
Reasons ==
  {"contact_required", "waiting_for_console", "additional_information_required",
   "customer_confirmation_required", "none"}
\* The activities that later commands ask about.
Activities == {"contact", "console", "work", "remote"}
\* The current record of the purchased game: where it was installed, and by whom.
Installed == [source : Method, operator : Staff]
NotInstalled == [source |-> "none", operator |-> NoOne]

Execution ==
  [status : Statuses, reason : Reasons, method : Method, done : SUBSET Activities,
   installed : Installed \cup {NotInstalled}, operator : Staff \cup {NoOne}]
Unprovisioned ==
  [status |-> "none", reason |-> "none", method |-> "in_store", done |-> {},
   installed |-> NotInstalled, operator |-> NoOne]

Init ==
  /\ paid = {} /\ delivered = {}
  /\ released = FALSE
  /\ due = {}
  /\ item = [l \in Line |-> Unprovisioned]
  /\ entitled = {}
  /\ ending = [l \in Line |-> "none"]
  /\ active = Staff

Provisioned(l) == item[l] # Unprovisioned
Is(l, statuses) == item[l].status \in statuses
Done(l, activities) == item[l].done \cap activities # {}
Update(l, e) == item' = [item EXCEPT ![l] = e]

-----------------------------------------------------------------------------
(* Obligations and executions                                              *)

\* The finalizer gives every ordinary line its obligation and skips the
\* preordered ones, whether or not the game is out by then.
Obliged(o) == {l \in Line \ Preorder : OrderOf[l] = o}

Finalize(o) ==
  /\ o \notin paid
  /\ paid' = paid \cup {o}
  /\ due' = due \cup Obliged(o)
  /\ UNCHANGED <<delivered, catalog, item, entitled, ending>>

\* The lines that may have an obligation: those of a finalized order.
Owed == {l \in Line : OrderOf[l] \in paid}

\* The lines that a release gives an obligation: those of orders paid by now.
GainingUnpaid == Preorder \ due
Gaining == (Preorder \cap Owed) \ due

\* The new component of each line revalidates the finalization at commit, which
\* refuses an order that is no longer processing, and with it the whole release.
Processing(lines) == \A l \in lines : OrderOf[l] \notin delivered

Release ==
  /\ ~released /\ Processing(Gaining)
  /\ released' = TRUE
  /\ due' = due \cup Gaining
  /\ UNCHANGED <<orders, active, item, entitled, ending>>

\* Staff may set the product back to an upcoming state.
Reopen ==
  /\ released /\ released' = FALSE
  /\ UNCHANGED <<orders, active, due, item, entitled, ending>>

\* The intake of the obligation's one outbox event.
Activate(l) ==
  /\ l \in due /\ ~Provisioned(l)
  /\ Update(l, [status |-> "queued", reason |-> "contact_required", method |-> SoldAs[l],
                done |-> {}, installed |-> NotInstalled, operator |-> NoOne])
  /\ UNCHANGED <<orders, catalog, due, entitled, ending>>

Deactivate(s) ==
  /\ s \in active /\ active' = active \ {s}
  /\ UNCHANGED <<orders, released, due, item, entitled, ending>>

-----------------------------------------------------------------------------
(* Commands of staff                                                       *)

\* The assigned operator, an Admin over any operator, anyone over none.
MayCommand(l, s) ==
  /\ s \in active
  /\ item[l].operator \in {NoOne, s} \/ s \in Admin

\* The execution row is locked for the command.
Locked(l, s) == Provisioned(l) /\ ending[l] = "none" /\ MayCommand(l, s)
Others == <<orders, catalog, due, entitled, ending>>

Assignable(l) == ~Is(l, {"completed"})
Assign(l, s, t) ==
  /\ Locked(l, s) /\ Assignable(l) /\ t \in active
  /\ Update(l, [item[l] EXCEPT !.operator = t])
  /\ UNCHANGED Others

WaitsFor(m) == IF m = "in_store" THEN "waiting_for_console"
               ELSE "additional_information_required"

\* A customer reached, or only called: both count as contact.
Contact(l, s) ==
  /\ Locked(l, s) /\ Is(l, {"queued", "waiting_customer"})
  /\ Update(l, [item[l] EXCEPT !.status = "waiting_customer",
                               !.reason = WaitsFor(item[l].method),
                               !.done = @ \cup {"contact"}])
  /\ UNCHANGED Others

OpenMethodAtAnyTime(l) == TRUE
OpenMethod(l) == ~Done(l, {"console", "work"})
ReasonUnder(l, m) == IF Is(l, {"waiting_customer"}) THEN WaitsFor(m) ELSE item[l].reason

ChangeMethod(l, s, m) ==
  /\ Locked(l, s) /\ Is(l, {"queued", "waiting_customer"})
  /\ l \in InStoreOnly => m = "in_store"
  /\ OpenMethod(l)
  /\ Update(l, [item[l] EXCEPT !.method = m, !.reason = ReasonUnder(l, m)])
  /\ UNCHANGED Others

ReceiveConsole(l, s) ==
  /\ Locked(l, s) /\ Is(l, {"waiting_customer"})
  /\ item[l].method = "in_store" /\ Done(l, {"contact"})
  /\ Update(l, [item[l] EXCEPT !.status = "ready_for_staff", !.reason = "none",
                               !.done = @ \cup {"console"}])
  /\ UNCHANGED Others

StartWork(l, s) ==
  /\ Locked(l, s)
  /\ \/ item[l].method = "in_store" /\ Is(l, {"ready_for_staff"}) /\ Done(l, {"console"})
     \/ /\ item[l].method = "remote" /\ Is(l, {"waiting_customer", "ready_for_staff"})
        /\ Done(l, {"contact"})
  /\ Update(l, [item[l] EXCEPT !.status = "in_progress", !.reason = "none",
                               !.done = @ \cup {"work"}])
  /\ UNCHANGED Others

\* The record's completion source is the one of the current method.
Install(l, s) ==
  /\ Locked(l, s) /\ Is(l, {"in_progress"}) /\ item[l].installed = NotInstalled
  /\ Update(l, [item[l] EXCEPT !.installed = [source |-> item[l].method, operator |-> s]])
  /\ UNCHANGED Others

CorrectableAfterwards(l) == Is(l, {"in_progress", "waiting_confirmation", "completed"})
Correctable(l) == Is(l, {"in_progress", "waiting_confirmation"})

Correct(l, s) ==
  /\ Locked(l, s) /\ Correctable(l) /\ item[l].installed # NotInstalled
  /\ Update(l, [item[l] EXCEPT !.installed = [source |-> item[l].method, operator |-> s]])
  /\ UNCHANGED Others

Remove(l, s) ==
  /\ Locked(l, s) /\ Is(l, {"in_progress", "waiting_confirmation"})
  /\ item[l].installed # NotInstalled
  /\ Update(l, [item[l] EXCEPT !.installed = NotInstalled])
  /\ UNCHANGED Others

HandleRemotely(l, s, confirm) ==
  /\ Locked(l, s) /\ Is(l, {"in_progress"}) /\ item[l].method = "remote"
  /\ Update(l, IF confirm
               THEN [item[l] EXCEPT !.status = "waiting_confirmation",
                                    !.reason = "customer_confirmation_required",
                                    !.done = @ \cup {"remote"}]
               ELSE [item[l] EXCEPT !.done = @ \cup {"remote"}])
  /\ UNCHANGED Others

Exceptional(l) == ~Is(l, {"completed", "exception"})
OpenException(l, s) ==
  /\ Locked(l, s) /\ Exceptional(l)
  /\ Update(l, [item[l] EXCEPT !.status = "exception",
                               !.reason = "additional_information_required"])
  /\ UNCHANGED Others

\* The retry goes back to the last stage of which there is evidence.
Retry(l, s) ==
  /\ Locked(l, s) /\ Is(l, {"exception"})
  /\ \/ /\ Done(l, {"console"})
        /\ Update(l, [item[l] EXCEPT !.status = "ready_for_staff", !.reason = "none"])
     \/ /\ ~Done(l, {"console"}) /\ Done(l, {"contact"})
        /\ Update(l, [item[l] EXCEPT !.status = "waiting_customer",
                                     !.reason = WaitsFor(item[l].method)])
     \/ /\ ~Done(l, {"console", "contact"})
        /\ Update(l, [item[l] EXCEPT !.status = "queued", !.reason = "contact_required"])
  /\ UNCHANGED Others

-----------------------------------------------------------------------------
(* Completion                                                              *)

Purchased(l) == item[l].installed # NotInstalled /\ item[l].installed.source = item[l].method

\* What the command and, at commit, the database ask of the evidence.
Evidenced(l) ==
  /\ Done(l, {"work"}) /\ Purchased(l)
  /\ Done(l, {IF item[l].method = "in_store" THEN "console" ELSE "remote"})

\* The executions of the order's other obligations, as committed by others.
SeesAll(l) == \A k \in due \ {l} : OrderOf[k] = OrderOf[l] => Is(k, {"completed"})

BeginCompletion(l) ==
  /\ Evidenced(l)
  /\ item[l].method = "in_store" => Is(l, {"in_progress"})
  /\ ending' = [ending EXCEPT ![l] = IF SeesAll(l) THEN "order" ELSE "line"]
  /\ UNCHANGED <<orders, catalog, due, item, entitled>>

StaffVerify(l, s) ==
  Locked(l, s) /\ Is(l, {"in_progress", "waiting_confirmation"}) /\ BeginCompletion(l)

CustomerConfirm(l) ==
  /\ Provisioned(l) /\ ending[l] = "none"
  /\ item[l].method = "remote" /\ Is(l, {"waiting_confirmation"})
  /\ BeginCompletion(l)

CommitCompletion(l) ==
  /\ ending[l] # "none"
  /\ Update(l, [item[l] EXCEPT !.status = "completed", !.reason = "none"])
  /\ entitled' = entitled \cup {l}
  /\ delivered' = IF ending[l] = "order" THEN delivered \cup {OrderOf[l]} ELSE delivered
  /\ ending' = [ending EXCEPT ![l] = "none"]
  /\ UNCHANGED <<paid, catalog, due>>

\* The process dies, or the connection is lost, before the commit.
RollBack(l) ==
  /\ ending[l] # "none" /\ ending' = [ending EXCEPT ![l] = "none"]
  /\ UNCHANGED <<orders, catalog, due, item, entitled>>

-----------------------------------------------------------------------------
StaffCommand(l, s) ==
  \/ \E t \in Staff : Assign(l, s, t)
  \/ Contact(l, s)
  \/ \E m \in Method : ChangeMethod(l, s, m)
  \/ ReceiveConsole(l, s)
  \/ StartWork(l, s)
  \/ Install(l, s)
  \/ Correct(l, s)
  \/ Remove(l, s)
  \/ \E confirm \in BOOLEAN : HandleRemotely(l, s, confirm)
  \/ StaffVerify(l, s)
  \/ OpenException(l, s)
  \/ Retry(l, s)

Next ==
  \/ \E o \in Order : Finalize(o)
  \/ Release
  \/ Reopen
  \/ \E s \in Staff : Deactivate(s)
  \/ \E l \in Line :
       \/ Activate(l)
       \/ \E s \in Staff : StaffCommand(l, s)
       \/ CustomerConfirm(l)
       \/ CommitCompletion(l)
       \/ RollBack(l)

Spec == Init /\ [][Next]_vars

-----------------------------------------------------------------------------
(* Properties                                                              *)

\* Every variable has its type, and an execution has an obligation of a paid
\* order behind it.
TypeOK ==
  /\ delivered \subseteq paid /\ paid \subseteq Order
  /\ released \in BOOLEAN
  /\ due \subseteq Owed
  /\ item \in [Line -> Execution \cup {Unprovisioned}]
  /\ \A l \in Line : Provisioned(l) => l \in due
  /\ entitled \subseteq Line
  /\ ending \in [Line -> {"none", "line", "order"}]
  /\ active \subseteq Staff

\* An entitlement is active exactly while its execution is completed, and then
\* the evidence of the method that was used in the end is all there, whatever
\* was corrected, removed, retried or reassigned on the way.
CompletedOnEvidence ==
  \A l \in Line :
    /\ Is(l, {"completed"}) <=> l \in entitled
    /\ Is(l, {"completed"}) =>
         /\ item[l].installed \in Installed /\ item[l].installed.source = item[l].method
         /\ Done(l, {"work"})
         /\ Done(l, {IF item[l].method = "in_store" THEN "console" ELSE "remote"})

\* The evidence of one method is never found under the other: changes of method
\* and retries, in any order, do not mix them.
EvidenceOfOneMethod ==
  \A l \in Line :
    /\ Done(l, {"console"}) => item[l].method = "in_store"
    /\ Done(l, {"remote"}) => item[l].method = "remote"
    /\ item[l].installed # NotInstalled => item[l].installed.source = item[l].method

\* What a customer is asked to do follows the current method.  With a stale
\* reason the next contact would record a change from a status to itself, which
\* the constraint digital_activity_status_changed refuses.
ReasonFollowsMethod ==
  \A l \in Line : Is(l, {"waiting_customer"}) => item[l].reason = WaitsFor(item[l].method)

\* An order is never marked delivered before its ordinary lines are, however
\* their completions interleave.
DeliveredCoversOrdinaryLines ==
  \A l \in Line \ Preorder : OrderOf[l] \in delivered => Is(l, {"completed"})

\* Whatever staff, customer and release do, and in whatever order, delivery rests
\* on the evidence of the one method that was used in the end.
DeliveryIsEvidenced ==
  CompletedOnEvidence /\ EvidenceOfOneMethod /\ ReasonFollowsMethod /\ DeliveredCoversOrdinaryLines

\* Every line is delivered at most once, by the one who installed it last, and
\* no command writes what the guards of the database would refuse.
Guards == INSTANCE FulfillmentGuards
Contract == INSTANCE DeliveryContract WITH
  deliveredBy <- [l \in Line |-> IF Is(l, {"completed"}) THEN item[l].installed.operator
                                 ELSE NoOne]
ImplementsDelivery == Contract!Spec /\ Guards!Spec
=============================================================================
