---------------------------- MODULE RepairRequest ----------------------------
(***************************************************************************)
(* Console repair requests.  A customer reports what is wrong with his     *)
(* devices, gets a tracking code that is one more than the highest, and    *)
(* reserves a delivery slot; staff move the request along, with a history  *)
(* row for each move, and delete catalogue issues that no request names.   *)
(* The endpoints check without locks what the services then write.         *)
(*                                                                         *)
(* Sources: issue/apis.py, issue/services.py, issue/models.py.  A slot     *)
(* without a schedule, which needs no reservation, is left out.            *)
(***************************************************************************)
EXTENDS Integers, FiniteSetsExt

CONSTANTS
  Repairs,        \* repair requests
  Existing,       \* those made long ago, with requests for every slot on their way
  Devices, Issues,          \* what can be repaired, and the catalogue of troubles
  Moves,          \* statuses that staff set, besides "submitted"
  Slots, ScheduleOf, Capacity,
  None

ASSUME RepairAssumption == Existing \subseteq Repairs /\ IsFiniteSet(Repairs)

VARIABLES
  used,       \* DeliveryData.is_used
  repair,     \* slot of each request
  asked,      \* slots a request for it has passed the endpoint's check with
  form, number,    \* what a create request asked for; the code it computed
  code,       \* public_tracking_code, 0 before the request exists
  items,      \* RepairItemIssue: <<device, issue>>
  mirror,     \* IssueListReport: issues, for older clients
  stage, newest,   \* status, and the new_status of the newest history row
  offered,    \* issues of the catalogue
  deleting    \* issues a delete request has found unused

places == <<used, repair, asked>>
creation == <<form, number, code>>
content == <<items, mirror>>
progress == <<stage, newest>>
catalogue == <<offered, deleting>>
desk == <<repair, asked, creation, content, progress, catalogue>>

Stages == Moves \cup {"submitted"}
Newest == Stages \cup {None}                          \* RepairStatusHistory.new_status
RepairItems == Devices \X Issues                      \* RepairItemIssue
Forms(issues) == (SUBSET (Devices \X issues)) \ {{}}   \* what a customer may send

Troubles(rows) == {row[2] : row \in rows}

Full(h) == Cardinality({s \in Slots : ScheduleOf[s] = h /\ used[s]}) >= Capacity[h]

DeskInit ==
  /\ repair = [r \in Repairs |-> None]
  /\ asked = [r \in Repairs |-> IF r \in Existing THEN Slots ELSE {}]
  /\ form = [r \in Repairs |-> {}] /\ number = [r \in Repairs |-> 0]
  /\ code \in {f \in [Repairs -> 0..Cardinality(Existing)] :
                 /\ \A r \in Repairs : f[r] > 0 <=> r \in Existing
                 /\ \A r, q \in Existing : f[r] = f[q] => r = q}
  /\ items = [r \in Repairs |-> {}] /\ mirror = [r \in Repairs |-> {}]
  /\ stage = [r \in Repairs |-> "submitted"] /\ newest = [r \in Repairs |-> None]
  /\ offered = Issues /\ deleting = {}

-----------------------------------------------------------------------------
(* The request                                                             *)

\* Every device of the form has at least one trouble, of the catalogue as it was.
Fill(r) ==
  /\ code[r] = 0 /\ form[r] = {}
  /\ \E rows \in Forms(offered) : form' = [form EXCEPT ![r] = rows]
  /\ UNCHANGED <<places, number, code, content, progress, catalogue>>

\* generate_repair_tracking_code reads the committed codes.
Number(r) ==
  /\ form[r] # {} /\ number[r] = 0
  /\ number' = [number EXCEPT ![r] = Max({code[q] : q \in Repairs}) + 1]
  /\ UNCHANGED <<places, form, code, content, progress, catalogue>>

\* Unique codes and foreign keys: another request may have taken the code, and
\* staff may have deleted an issue.
Creatable(r) ==
  number[r] \notin {code[q] : q \in Repairs} /\ Troubles(form[r]) \subseteq offered

\* create_issue_report in one transaction, or nothing and an error.
Create(r) ==
  /\ number[r] # 0
  /\ form' = [form EXCEPT ![r] = {}] /\ number' = [number EXCEPT ![r] = 0]
  /\ IF Creatable(r)
     THEN /\ code' = [code EXCEPT ![r] = number[r]]
          /\ items' = [items EXCEPT ![r] = form[r]]
          /\ mirror' = [mirror EXCEPT ![r] = Troubles(form[r])]
     ELSE UNCHANGED <<code, content>>
  /\ UNCHANGED <<places, progress, catalogue>>

\* The endpoint's check.  A customer may send a request many times before the
\* first is answered, so it stays among those on their way.
AskSlot(r, s) ==
  /\ code[r] > 0 /\ repair[r] = None /\ s \notin asked[r]
  /\ asked' = [asked EXCEPT ![r] = @ \cup {s}]
  /\ UNCHANGED <<used, repair, creation, content, progress, catalogue>>

\* update_issue_report, under the lock of the request and then of the schedule:
\* a repeated request reserves nothing, yet its status is "submitted" again.
ReserveSlot(r, s) ==
  /\ s \in asked[r]
  /\ \/ repair[r] = None /\ ~used[s] /\ ~Full(ScheduleOf[s])
     \/ repair[r] = s
  /\ repair' = [repair EXCEPT ![r] = s] /\ used' = [used EXCEPT ![s] = TRUE]
  /\ stage' = [stage EXCEPT ![r] = "submitted"]
  /\ UNCHANGED <<asked, creation, content, newest, catalogue>>

-----------------------------------------------------------------------------
(* Staff                                                                   *)

\* Any status may follow any other; a slot is kept, also when the request is
\* canceled.
MoveOn(r, to) ==
  /\ code[r] > 0 /\ stage[r] # to
  /\ stage' = [stage EXCEPT ![r] = to] /\ newest' = [newest EXCEPT ![r] = to]
  /\ UNCHANGED <<places, creation, content, catalogue>>

\* issue_is_used, without a lock ...
FindUnused(i) ==
  /\ i \in offered /\ \A r \in Repairs : i \notin Troubles(items[r]) \cup mirror[r]
  /\ deleting' = deleting \cup {i}
  /\ UNCHANGED <<places, creation, content, progress, offered>>

\* ... and delete_issue, which takes what refers to the issue with it.
Cascade(i) ==
  /\ items' = [r \in Repairs |-> {row \in items[r] : row[2] # i}]
  /\ mirror' = [r \in Repairs |-> mirror[r] \ {i}]

DeleteIssue(i) ==
  /\ i \in deleting /\ deleting' = deleting \ {i} /\ offered' = offered \ {i}
  /\ Cascade(i)
  /\ UNCHANGED <<places, creation, progress>>

Customer(r) ==
  Fill(r) \/ Number(r) \/ Create(r) \/ \E s \in Slots : AskSlot(r, s) \/ ReserveSlot(r, s)

Staff(rs) ==
  \/ \E r \in rs, to \in Stages : MoveOn(r, to)
  \/ \E i \in Issues : FindUnused(i) \/ DeleteIssue(i)

-----------------------------------------------------------------------------
DeskTypeOK ==
  /\ repair \in [Repairs -> Slots \cup {None}] /\ asked \in [Repairs -> SUBSET Slots]
  /\ form \in [Repairs -> Forms(Issues) \cup {{}}]
  /\ number \in [Repairs -> 0..Cardinality(Repairs)]
  /\ code \in [Repairs -> 0..Cardinality(Repairs)]
  /\ items \in [Repairs -> SUBSET RepairItems] /\ mirror \in [Repairs -> SUBSET Issues]
  /\ stage \in [Repairs -> Stages]
  /\ newest \in [Repairs -> Newest]
  /\ offered \subseteq Issues /\ deleting \subseteq Issues

\* Codes count the requests without a gap or a double, however many customers
\* compute one at the same time; the list that older clients read names exactly
\* the troubles of the request's devices, all of them in the catalogue, whatever
\* staff delete meanwhile; a request is beyond "submitted" only by its newest
\* history row, although a customer's repeated request sets it back.
RecordsHold ==
  LET made == {r \in Repairs : code[r] > 0} IN
  /\ {code[r] : r \in made} = 1..Cardinality(made)
  /\ \A r \in Repairs : mirror[r] = Troubles(items[r]) /\ mirror[r] \subseteq offered
  /\ \A r \in Repairs : stage[r] # "submitted" => newest[r] = stage[r]
=============================================================================
