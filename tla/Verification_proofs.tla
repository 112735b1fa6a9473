------------------------- MODULE Verification_proofs -------------------------
(***************************************************************************)
(* The verification of provider answers, for any number of processes, any  *)
(* transactions and any attempt budget.                                    *)
(*                                                                         *)
(* Of the evidence: its values are well typed, what is read as eligible is *)
(* exact evidence of its own transaction, readings move as the adapters    *)
(* and the projection allow, and every commit is one that PostgreSQL       *)
(* accepts.  Of the work: its attempts are its claims, its completion is   *)
(* its conclusive observation, it is given up only when exhausted, and it  *)
(* implements the abstract promise of ObservedWork.                        *)
(***************************************************************************)
EXTENDS VerificationWork, VerificationEvidence, FiniteSetTheorems, TLAPS

-----------------------------------------------------------------------------
(* Evidence                                                                *)

\* What an adapter returns.
ReplyType ==
  [outcome : Outcomes, effect : {"paid", "unpaid", "unknown"}, final : BOOLEAN, same : BOOLEAN,
   money : {"exact", "other", "malformed", "none"}, ref : References \cup {NoReference},
   basis : {"server", "settlement", "none"}]

\* Only a signed event is evidence of settlement by itself.
Grounded(w, r) == r.basis = "settlement" => event[w] = "signed"

\* Values of the variables.
ValueInv ==
  /\ event \in EventChoices /\ inquiry \in [Work -> WorkStates]
  /\ reply \in [Work -> {None} \cup ReplyType]
  /\ rows \in [Transactions -> Seq(RowType)]
  /\ owner \in [References -> Owners]
  /\ transaction \in [Transactions -> DOMAIN TransactionEdges \cup Ended \cup {"succeeded"}]
  /\ payment \in [Transactions -> DOMAIN PaymentEdges \cup {"paid"}]
  /\ reference \in [Transactions -> References \cup {NoReference}]
  /\ authority \in [Transactions -> {"none", "approved", "applied"}]

\* A claim that asked has an answer to apply.
AskedInv ==
  \A w \in Work : inquiry[w] = "asked" => reply[w] \in ReplyType /\ Grounded(w, reply[w])

\* A row that counts as success is complete, owns its reference, and its
\* reference is that of the transaction.
RowsInv ==
  \A t \in Transactions :
    /\ Len(rows[t]) <= MaxRows
    /\ \A i \in DOMAIN rows[t] :
         /\ Guards!RowComplete(rows[t][i])
         /\ rows[t][i].state = "success" =>
              /\ rows[t][i].ref \in References
              /\ rows[t][i].ref = reference[t]
              /\ owner[rows[t][i].ref] = <<t, i>>

\* What is owned, and what a transaction refers to, was proved by a row.
OwnerInv ==
  /\ \A r \in References : owner[r] # None =>
       \E t \in Transactions : \E i \in DOMAIN rows[t] :
         owner[r] = <<t, i>> /\ rows[t][i].state = "success" /\ rows[t][i].ref = r
  /\ \A t \in Transactions : reference[t] # NoReference =>
       \E i \in DOMAIN rows[t] : rows[t][i].state = "success"

\* A payment is open only after its transaction has ended, and money that was
\* recognized has a successful row behind it and a transaction that has ended.
GraphInv ==
  \A t \in Transactions :
    /\ payment[t] = "open" => transaction[t] \in Ended
    /\ payment[t] \in {"recognized", "paid"} =>
         Succeeded(t) /\ transaction[t] \in Ended \cup {"succeeded"}

\* The inductive invariant.
EvidenceIInv == ValueInv /\ AskedInv /\ RowsInv /\ OwnerInv /\ GraphInv

-----------------------------------------------------------------------------
(* Answers                                                                 *)

LEMMA UnclearType == \A o \in Outcomes : Unclear(o) \in ReplyType /\ Unclear(o).basis = "none"
BY DEF Unclear, ReplyType, Outcomes

LEMMA UnpaidType == \A o \in Outcomes : Unpaid(o) \in ReplyType /\ Unpaid(o).basis = "none"
<1> SUFFICES ASSUME NEW o \in Outcomes
    PROVE  Unpaid(o) \in ReplyType /\ Unpaid(o).basis = "none"
  OBVIOUS
<1>1. Unpaid(o) = [Unclear(o) EXCEPT !.effect = "unpaid", !.final = TRUE]
  BY DEF Unpaid
<1> QED BY <1>1, UnclearType DEF ReplyType

LEMMA PaidType ==
  \A x \in References, b \in {"server", "settlement"} :
    Paid(x, b) \in ReplyType /\ Paid(x, b).basis = b
BY DEF Paid, ReplyType, Outcomes

LEMMA ContractType ==
  \A x \in References, b \in {"server", "settlement"} : \A r \in Contract(x, b) :
    r \in ReplyType /\ r.basis \in {"none", b}
<1> SUFFICES ASSUME NEW x \in References, NEW b \in {"server", "settlement"}
    PROVE  \A r \in Contract(x, b) : r \in ReplyType /\ r.basis \in {"none", b}
  OBVIOUS
<1>1. Unclear("pending") \in ReplyType /\ Unclear("pending").basis = "none"
  BY UnclearType DEF Outcomes
<1>2. Unpaid("expired") \in ReplyType /\ Unpaid("expired").basis = "none"
  BY UnpaidType DEF Outcomes, Definitive
<1>3. Paid(x, b) \in ReplyType /\ Paid(x, b).basis = b
  BY PaidType
<1>4. \A r \in ReplyType :
        LET m == [r EXCEPT !.money = "malformed"] IN m \in ReplyType /\ m.basis = r.basis
  BY DEF ReplyType
<1>5. \A r \in ReplyType :
        LET m == [r EXCEPT !.money = "other"] IN m \in ReplyType /\ m.basis = r.basis
  BY DEF ReplyType
<1>6. \A r \in ReplyType :
        LET m == [r EXCEPT !.same = FALSE] IN m \in ReplyType /\ m.basis = r.basis
  BY DEF ReplyType
<1>7. \A r \in ReplyType :
        LET m == [r EXCEPT !.final = FALSE] IN m \in ReplyType /\ m.basis = r.basis
  BY DEF ReplyType
<1> QED BY <1>1, <1>2, <1>3, <1>4, <1>5, <1>6, <1>7 DEF Contract

\* Whatever an adapter returns, transport failures, a disabled policy and the
\* mismatch of a signed event among them, is such an answer.
LEMMA QueryRepliesType ==
  \A r \in QueryReplies : r \in ReplyType /\ r.basis # "settlement"
<1>1. \A c \in Codes, x \in References :
        Zarinpal(c, x) \in ReplyType /\ Zarinpal(c, x).basis # "settlement"
  BY UnclearType, UnpaidType, PaidType DEF Zarinpal, Codes, Outcomes, Definitive
<1>2. \A x \in References, own \in BOOLEAN :
        Certification(x, own) \in ReplyType /\ Certification(x, own).basis # "settlement"
  BY UnclearType, PaidType DEF Certification, Outcomes
<1>3. \A x \in References : \A r \in Contract(x, "server") :
        r \in ReplyType /\ r.basis # "settlement"
  BY ContractType
<1>4. \A r \in {Unclear("unknown"), Unclear("configuration")} :
        r \in ReplyType /\ r.basis # "settlement"
  BY UnclearType DEF Outcomes
<1> SUFFICES ASSUME NEW r \in QueryReplies PROVE r \in ReplyType /\ r.basis # "settlement"
  OBVIOUS
<1> DEFINE zarinpal == {Zarinpal(c, x) : c \in Codes, x \in References}
           certification == {Certification(x, own) : x \in References, own \in BOOLEAN}
           contract == UNION {Contract(x, "server") : x \in References}
           failures == {Unclear("unknown"), Unclear("configuration")}
<1>5. QueryReplies = ((zarinpal \cup certification) \cup contract) \cup failures
  BY DEF QueryReplies
<1>6. /\ \A q \in zarinpal : q \in ReplyType /\ q.basis # "settlement"
      /\ \A q \in certification : q \in ReplyType /\ q.basis # "settlement"
      /\ \A q \in contract : q \in ReplyType /\ q.basis # "settlement"
      /\ \A q \in failures : q \in ReplyType /\ q.basis # "settlement"
  BY <1>1, <1>2, <1>3, <1>4
<1> HIDE DEF zarinpal, certification, contract, failures
<1> QED BY <1>5, <1>6

LEMMA SignedRepliesType == \A w \in Work : \A r \in SignedReplies(w) : r \in ReplyType
<1>1. \A r \in ReplyType : [r EXCEPT !.outcome = "mismatch"] \in ReplyType
  BY DEF ReplyType, Outcomes
<1>2. Unclear("unknown") \in ReplyType
  BY UnclearType DEF Outcomes
<1>3. \A x \in References : Paid(x, "settlement") \in ReplyType
  BY PaidType
<1>4. \A x \in References : \A r \in Contract(x, "settlement") : r \in ReplyType
  BY ContractType
<1> QED BY <1>1, <1>2, <1>3, <1>4 DEF SignedReplies

LEMMA RepliesAreAnswers ==
  ASSUME NEW w \in Work, NEW r \in Replies(w)
  PROVE  r \in ReplyType /\ Grounded(w, r)
<1>1. Unclear("configuration") \in ReplyType /\ Unclear("configuration").basis # "settlement"
  BY DEF Unclear, ReplyType, Outcomes
<1> QED BY <1>1, QueryRepliesType, SignedRepliesType DEF Replies, Grounded

-----------------------------------------------------------------------------
(* Rows                                                                    *)

\* What one more row does to the rows of a transaction.
LEMMA Appended ==
  ASSUME NEW S, NEW s \in Seq(S), NEW e \in S
  PROVE  /\ Append(s, e) \in Seq(S) /\ Len(s) \in Nat /\ Len(Append(s, e)) = Len(s) + 1
         /\ DOMAIN s = 1..Len(s) /\ DOMAIN Append(s, e) = 1..(Len(s) + 1)
         /\ \A i \in DOMAIN s : Append(s, e)[i] = s[i]
         /\ Append(s, e)[Len(s) + 1] = e
OBVIOUS

\* The row that an answer becomes: it counts as success only if the answer is
\* exact, nothing recorded contradicts it and its reference is nobody else's.
LEMMA RowFacts ==
  ASSUME EvidenceIInv, NEW w \in Work, inquiry[w] = "asked"
  PROVE  LET t == TransactionOf[w]
             v == Row(w)
         IN /\ t \in Transactions /\ v \in RowType /\ Guards!RowComplete(v)
            /\ v.state = "success" =>
                 /\ v.ref \in References /\ reference[t] \in {NoReference, v.ref}
                 /\ ~EndedUnpaid(t)
            /\ Succeeded(t) => v.state \in {"success", "review"}
            /\ v.state = StateOf(v.outcome)
<1> DEFINE t == TransactionOf[w]
           r == reply[w]
           o == Compared(t, r)
           j == Judged(w)
<1>1. t \in Transactions /\ r \in ReplyType /\ Grounded(w, r)
  BY WorkAssumption DEF EvidenceIInv, AskedInv
<1>2. /\ r.outcome \in Outcomes /\ r.effect \in {"paid", "unpaid", "unknown"}
      /\ r.final \in BOOLEAN /\ r.same \in BOOLEAN
      /\ r.money \in {"exact", "other", "malformed", "none"}
      /\ r.ref \in References \cup {NoReference}
      /\ r.basis \in {"server", "settlement", "none"}
  BY <1>1 DEF ReplyType
<1>3. o \in Outcomes /\ (o = "success" => r.outcome = "success" /\ Exact(t, r))
  BY <1>2 DEF Compared, Outcomes
<1>4. /\ j \in {"contradiction", "unknown", o}
      /\ ContradictsRows(t, o) => j = "contradiction"
  BY DEF Judged
<1>5. j \in Outcomes /\ (j = "success" => o = "success" /\ ~EndedUnpaid(t))
  BY <1>3, <1>4 DEF Outcomes, ContradictsRows
<1>6. /\ StateOf(j) \in {"success", "unpaid", "unapplied", "review"}
      /\ StateOf(j) = "success" <=> j = "success"
      /\ StateOf("contradiction") = "review" /\ StateOf("unknown") = "review"
  BY DEF StateOf, Definitive
<1>7. event[w] \in Events
  BY WorkAssumption DEF EvidenceIInv, ValueInv
<1>8. Row(w) \in RowType
  BY <1>2, <1>5, <1>6, <1>7 DEF Row, RowType
<1>9. Guards!RowComplete(Row(w))
  BY <1>1, <1>2, <1>3, <1>5, <1>6 DEF Row, Guards!RowComplete, Exact, Grounded
<1>10. Succeeded(t) => StateOf(j) \in {"success", "review"}
  BY <1>4, <1>6 DEF ContradictsRows
<1>11. StateOf(j) = "success" => r.ref \in References /\ reference[t] \in {NoReference, r.ref}
  BY <1>2, <1>3, <1>5, <1>6 DEF Exact
<1> HIDE DEF j, o
<1> QED BY <1>1, <1>5, <1>6, <1>8, <1>9, <1>10, <1>11 DEF Row, j

\* A transaction has at most one successful row, and a reference belongs to
\* one transaction.
LEMMA OneSuccess ==
  ASSUME EvidenceIInv, NEW t \in Transactions
  PROVE  /\ \A i, j \in DOMAIN rows[t] :
              rows[t][i].state = "success" /\ rows[t][j].state = "success" => i = j
         /\ \A u \in Transactions : reference[t] = reference[u] => t = u \/ reference[t] = NoReference
<1>1. \A i, j \in DOMAIN rows[t] :
        rows[t][i].state = "success" /\ rows[t][j].state = "success" => i = j
  BY DEF EvidenceIInv, RowsInv
<1>2. ASSUME NEW u \in Transactions, reference[t] = reference[u], reference[t] # NoReference
      PROVE  t = u
  <2>1. PICK i \in DOMAIN rows[t] : rows[t][i].state = "success"
    BY <1>2 DEF EvidenceIInv, OwnerInv
  <2>2. PICK j \in DOMAIN rows[u] : rows[u][j].state = "success"
    BY <1>2 DEF EvidenceIInv, OwnerInv
  <2>3. owner[reference[t]] = <<t, i>> /\ owner[reference[u]] = <<u, j>>
    BY <2>1, <2>2 DEF EvidenceIInv, RowsInv
  <2> QED BY <1>2, <2>3
<1> QED BY <1>1, <1>2

-----------------------------------------------------------------------------
(* The step that records an answer                                         *)

\* What Apply does to the transaction t of its work.
Recorded(t, v) ==
  /\ rows' = [rows EXCEPT ![t] = Append(@, v)] /\ Len(rows[t]) < MaxRows
  /\ transaction' = [transaction EXCEPT ![t] = TransactionTarget(t, v)]
  /\ payment' = [payment EXCEPT ![t] = PaymentTarget(v)]
  /\ owner' = IF v.state = "success"
                THEN [owner EXCEPT ![v.ref] = <<t, Len(rows[t]) + 1>>] ELSE owner
  /\ reference' = IF v.state = "success" THEN [reference EXCEPT ![t] = v.ref] ELSE reference

LEMMA ApplyFacts ==
  ASSUME EvidenceIInv, NEW w \in Work, Apply(w)
  PROVE  LET t == TransactionOf[w]
             v == Row(w)
         IN /\ t \in Transactions /\ v \in RowType /\ Guards!RowComplete(v) /\ Projects(t, v)
            /\ Recorded(t, v)
            /\ v.state = StateOf(v.outcome)
            /\ v.state = "success" =>
                 /\ v.ref \in References /\ owner[v.ref] = None /\ reference[t] = NoReference
                 /\ ~Succeeded(t) /\ ~EndedUnpaid(t)
            /\ Succeeded(t) => v.state = "review"
<1> DEFINE t == TransactionOf[w]
           v == Row(w)
<1>1. /\ t \in Transactions /\ v \in RowType /\ Guards!RowComplete(v)
      /\ v.state = "success" =>
           v.ref \in References /\ reference[t] \in {NoReference, v.ref} /\ ~EndedUnpaid(t)
      /\ Succeeded(t) => v.state \in {"success", "review"}
      /\ v.state = StateOf(v.outcome)
  BY RowFacts DEF Apply
<1>2. Projects(t, v)
  BY DEF Apply
<1> HIDE DEF v
<1>3. ASSUME v.state = "success"
      PROVE  owner[v.ref] = None /\ ~Succeeded(t) /\ reference[t] = NoReference
  <2>1. owner[v.ref] = None /\ \A r \in References : owner[r] # None => owner[r][1] # t
    BY <1>2, <1>3 DEF Projects, OwnsReference
  <2>2. \A i \in DOMAIN rows[t] : rows[t][i].state # "success"
    <3> SUFFICES ASSUME NEW i \in DOMAIN rows[t], rows[t][i].state = "success" PROVE FALSE
      OBVIOUS
    <3>1. rows[t][i].ref \in References /\ owner[rows[t][i].ref] = <<t, i>>
      BY <1>1 DEF EvidenceIInv, RowsInv
    <3>2. <<t, i>> # <<>> /\ <<t, i>>[1] = t
      OBVIOUS
    <3> QED BY <2>1, <3>1, <3>2 DEF None
  <2> QED BY <1>1, <2>1, <2>2 DEF Succeeded, RowsOf, EvidenceIInv, OwnerInv
<1>4. Recorded(t, v)
  <2>1. reference' = IF v.state = "success" THEN [reference EXCEPT ![t] = v.ref] ELSE reference
    BY <1>3 DEF Apply, v
  <2> QED BY <2>1 DEF Apply, Recorded, v
<1> QED BY <1>1, <1>2, <1>3, <1>4 DEF v

LEMMA ApplyStep ==
  ASSUME EvidenceIInv, NEW w \in Work, Apply(w)
  PROVE  EvidenceIInv'
<1> DEFINE t == TransactionOf[w]
           v == Row(w)
           n == Len(rows[t])
<1>1. /\ t \in Transactions /\ v \in RowType /\ Guards!RowComplete(v) /\ Projects(t, v)
      /\ Recorded(t, v)
      /\ v.state = StateOf(v.outcome)
      /\ v.state = "success" =>
           /\ v.ref \in References /\ owner[v.ref] = None /\ reference[t] = NoReference
           /\ ~Succeeded(t) /\ ~EndedUnpaid(t)
      /\ Succeeded(t) => v.state = "review"
  BY ApplyFacts
<1>2. /\ v.state \in {"success", "unpaid", "unapplied", "review"}
      /\ v.outcome \in Outcomes /\ v.ref \in References \cup {NoReference}
  BY <1>1 DEF RowType
<1>3. /\ rows'[t] \in Seq(RowType) /\ n \in Nat
      /\ DOMAIN rows[t] = 1..n /\ DOMAIN rows'[t] = 1..(n + 1) /\ Len(rows'[t]) = n + 1
      /\ \A i \in 1..n : rows'[t][i] = rows[t][i]
      /\ rows'[t][n + 1] = v /\ n < MaxRows /\ n + 1 \in 1..MaxRows
      /\ rows' \in [Transactions -> Seq(RowType)]
      /\ \A u \in Transactions \ {t} : rows'[u] = rows[u]
  <2>1. rows[t] \in Seq(RowType) /\ rows \in [Transactions -> Seq(RowType)]
    BY <1>1 DEF EvidenceIInv, ValueInv
  <2>2. rows' = [rows EXCEPT ![t] = Append(rows[t], v)] /\ n < MaxRows
    BY <1>1 DEF Recorded
  <2>3. rows'[t] = Append(rows[t], v)
    BY <1>1, <2>1, <2>2
  <2>4. /\ Append(rows[t], v) \in Seq(RowType) /\ n \in Nat /\ Len(Append(rows[t], v)) = n + 1
        /\ DOMAIN rows[t] = 1..n /\ DOMAIN Append(rows[t], v) = 1..(n + 1)
        /\ \A i \in DOMAIN rows[t] : Append(rows[t], v)[i] = rows[t][i]
        /\ Append(rows[t], v)[n + 1] = v
    BY <1>1, <2>1, Appended
  <2>5. n + 1 \in 1..MaxRows
    BY <2>2, <2>4, ReferenceAssumption
  <2> HIDE DEF n, v
  <2> QED BY <1>1, <2>1, <2>2, <2>3, <2>4, <2>5
<1>4. /\ owner' \in [References -> Owners]
      /\ reference' \in [Transactions -> References \cup {NoReference}]
      /\ v.state = "success" =>
           /\ owner'[v.ref] = <<t, n + 1>>
           /\ \A r \in References \ {v.ref} : owner'[r] = owner[r]
           /\ reference'[t] = v.ref
      /\ v.state # "success" => owner' = owner /\ reference' = reference
      /\ \A u \in Transactions \ {t} : reference'[u] = reference[u]
  <2>1. <<t, n + 1>> \in Owners
    BY <1>1, <1>3 DEF Owners
  <2> HIDE DEF n, v
  <2> QED BY <1>1, <2>1 DEF Recorded, EvidenceIInv, ValueInv, n
<1>5. /\ transaction' \in [Transactions -> DOMAIN TransactionEdges \cup Ended \cup {"succeeded"}]
      /\ payment' \in [Transactions -> DOMAIN PaymentEdges \cup {"paid"}]
      /\ payment'[t] \in {"open", "processing", "review"}
      /\ payment'[t] = "open" => transaction'[t] \in Ended
      /\ \A u \in Transactions \ {t} : transaction'[u] = transaction[u] /\ payment'[u] = payment[u]
  <2>1. /\ PaymentTarget(v) \in {"open", "processing", "review"}
        /\ PaymentTarget(v) = "open" => v.state = "unpaid"
    BY <1>2 DEF PaymentTarget
  <2>2. /\ TransactionTarget(t, v) \in {"declined", "expired", "review", "pending_provider", "unknown"}
        /\ v.state = "unpaid" => TransactionTarget(t, v) \in Ended
    BY <1>2 DEF TransactionTarget, Ended
  <2>3. /\ "open" \in DOMAIN PaymentEdges /\ "processing" \in DOMAIN PaymentEdges
        /\ "review" \in DOMAIN PaymentEdges
    BY DEF PaymentEdges
  <2>4. /\ "review" \in DOMAIN TransactionEdges /\ "pending_provider" \in DOMAIN TransactionEdges
        /\ "unknown" \in DOMAIN TransactionEdges
    BY DEF TransactionEdges
  <2> HIDE DEF v
  <2> QED BY <1>1, <2>1, <2>2, <2>3, <2>4 DEF Recorded, EvidenceIInv, ValueInv, Ended
<1>6. /\ event' = event /\ authority' = authority
      /\ inquiry' \in [Work -> WorkStates] /\ reply' \in [Work -> {None} \cup ReplyType]
      /\ \A x \in Work : inquiry'[x] = "asked" => x # w /\ inquiry[x] = "asked" /\ reply'[x] = reply[x]
  BY DEF Apply, EvidenceIInv, ValueInv, WorkStates
<1> HIDE DEF v, n
<1>7. ValueInv'
  BY <1>3, <1>4, <1>5, <1>6 DEF EvidenceIInv, ValueInv
<1>8. AskedInv'
  BY <1>6 DEF EvidenceIInv, AskedInv, Grounded
<1>9. RowsInv'
  <2>1. \A u \in Transactions \ {t} :
          /\ Len(rows'[u]) <= MaxRows
          /\ \A i \in DOMAIN rows'[u] :
               /\ Guards!RowComplete(rows'[u][i])
               /\ rows'[u][i].state = "success" =>
                    /\ rows'[u][i].ref \in References
                    /\ rows'[u][i].ref = reference'[u]
                    /\ owner'[rows'[u][i].ref] = <<u, i>>
    <3> SUFFICES ASSUME NEW u \in Transactions \ {t}
        PROVE  /\ Len(rows'[u]) <= MaxRows
               /\ \A i \in DOMAIN rows'[u] :
                    /\ Guards!RowComplete(rows'[u][i])
                    /\ rows'[u][i].state = "success" =>
                         /\ rows'[u][i].ref \in References
                         /\ rows'[u][i].ref = reference'[u]
                         /\ owner'[rows'[u][i].ref] = <<u, i>>
      OBVIOUS
    <3>2. rows'[u] = rows[u] /\ reference'[u] = reference[u]
      BY <1>3, <1>4
    <3>1. \A i \in DOMAIN rows[u] : rows[u][i].state = "success" =>
            owner'[rows[u][i].ref] = owner[rows[u][i].ref]
      <4> SUFFICES ASSUME NEW i \in DOMAIN rows[u], rows[u][i].state = "success"
          PROVE  owner'[rows[u][i].ref] = owner[rows[u][i].ref]
        OBVIOUS
      <4>1. rows[u][i].ref \in References /\ owner[rows[u][i].ref] = <<u, i>>
        BY DEF EvidenceIInv, RowsInv
      <4>2. <<u, i>> # <<>>
        OBVIOUS
      <4> QED BY <1>1, <1>4, <4>1, <4>2 DEF None
    <3>3. /\ Len(rows[u]) <= MaxRows
          /\ \A i \in DOMAIN rows[u] :
               /\ Guards!RowComplete(rows[u][i])
               /\ rows[u][i].state = "success" =>
                    /\ rows[u][i].ref \in References
                    /\ rows[u][i].ref = reference[u]
                    /\ owner[rows[u][i].ref] = <<u, i>>
      BY DEF EvidenceIInv, RowsInv
    <3> QED BY <3>1, <3>2, <3>3
  <2>2. Len(rows'[t]) <= MaxRows
    BY <1>3, ReferenceAssumption
  <2>3. ASSUME NEW i \in 1..n
        PROVE  /\ Guards!RowComplete(rows'[t][i])
               /\ rows'[t][i].state = "success" =>
                    /\ rows'[t][i].ref \in References
                    /\ rows'[t][i].ref = reference'[t]
                    /\ owner'[rows'[t][i].ref] = <<t, i>>
    <3>1. Guards!RowComplete(rows[t][i])
      BY <1>1, <1>3 DEF EvidenceIInv, RowsInv
    <3>2. ASSUME rows[t][i].state = "success"
          PROVE  /\ rows[t][i].ref \in References
                 /\ rows[t][i].ref = reference'[t]
                 /\ owner'[rows[t][i].ref] = <<t, i>>
      <4>1. Succeeded(t)
        BY <1>3, <3>2 DEF Succeeded, RowsOf
      <4> QED BY <1>1, <1>3, <1>4, <3>2, <4>1 DEF EvidenceIInv, RowsInv
    <3> QED BY <1>3, <3>1, <3>2
  <2>4. /\ Guards!RowComplete(rows'[t][n + 1])
        /\ rows'[t][n + 1].state = "success" =>
             /\ rows'[t][n + 1].ref \in References
             /\ rows'[t][n + 1].ref = reference'[t]
             /\ owner'[rows'[t][n + 1].ref] = <<t, n + 1>>
    BY <1>1, <1>3, <1>4
  <2>5. \A i \in DOMAIN rows'[t] : i \in 1..n \/ i = n + 1
    BY <1>3
  <2> QED BY <2>1, <2>2, <2>3, <2>4, <2>5 DEF RowsInv
<1>10. \A u \in Transactions : \A i \in DOMAIN rows[u] :
         i \in DOMAIN rows'[u] /\ rows'[u][i] = rows[u][i]
  <2>1. \A i \in DOMAIN rows[t] : i \in DOMAIN rows'[t] /\ rows'[t][i] = rows[t][i]
    BY <1>3
  <2>2. \A u \in Transactions \ {t} : \A i \in DOMAIN rows[u] :
          i \in DOMAIN rows'[u] /\ rows'[u][i] = rows[u][i]
    BY <1>3
  <2> QED BY <2>1, <2>2
<1>11. OwnerInv'
  <2>1. ASSUME NEW r \in References, owner'[r] # None
        PROVE  \E u \in Transactions : \E i \in DOMAIN rows'[u] :
                 owner'[r] = <<u, i>> /\ rows'[u][i].state = "success" /\ rows'[u][i].ref = r
    <3>1. CASE v.state = "success" /\ r = v.ref
      <4>1. n + 1 \in DOMAIN rows'[t]
        BY <1>3
      <4> QED BY <1>1, <1>3, <1>4, <3>1, <4>1
    <3>2. CASE ~(v.state = "success" /\ r = v.ref)
      <4>1. owner'[r] = owner[r]
        BY <1>4, <3>2
      <4>2. PICK u \in Transactions : \E i \in DOMAIN rows[u] :
              owner[r] = <<u, i>> /\ rows[u][i].state = "success" /\ rows[u][i].ref = r
        BY <2>1, <4>1 DEF EvidenceIInv, OwnerInv
      <4>3. PICK i \in DOMAIN rows[u] :
              owner[r] = <<u, i>> /\ rows[u][i].state = "success" /\ rows[u][i].ref = r
        BY <4>2
      <4>4. i \in DOMAIN rows'[u] /\ rows'[u][i] = rows[u][i]
        BY <1>10
      <4> QED BY <4>1, <4>3, <4>4
    <3> QED BY <3>1, <3>2
  <2>2. ASSUME NEW u \in Transactions, reference'[u] # NoReference
        PROVE  \E i \in DOMAIN rows'[u] : rows'[u][i].state = "success"
    <3>1. CASE u = t /\ v.state = "success"
      <4>1. n + 1 \in DOMAIN rows'[t]
        BY <1>3
      <4> QED BY <1>3, <3>1, <4>1
    <3>2. CASE ~(u = t /\ v.state = "success")
      <4>1. reference'[u] = reference[u]
        BY <1>4, <3>2
      <4>2. PICK i \in DOMAIN rows[u] : rows[u][i].state = "success"
        BY <2>2, <4>1 DEF EvidenceIInv, OwnerInv
      <4>3. i \in DOMAIN rows'[u] /\ rows'[u][i] = rows[u][i]
        BY <1>10
      <4> QED BY <4>2, <4>3
    <3> QED BY <3>1, <3>2
  <2> QED BY <2>1, <2>2 DEF OwnerInv
<1>12. GraphInv'
  <2>1. \A u \in Transactions \ {t} : Succeeded(u)' <=> Succeeded(u)
    BY <1>3 DEF Succeeded, RowsOf
  <2> QED BY <1>5, <2>1 DEF EvidenceIInv, GraphInv
<1> QED BY <1>7, <1>8, <1>9, <1>11, <1>12 DEF EvidenceIInv

-----------------------------------------------------------------------------
(* The other steps                                                         *)

\* Steps that record no answer keep the rows and what is owned.
LEMMA EvidenceStays ==
  ASSUME EvidenceIInv, UNCHANGED <<rows, owner, reference, event>>
  PROVE  /\ RowsInv' /\ OwnerInv'
         /\ \A t \in Transactions : Succeeded(t)' <=> Succeeded(t)
<1>1. RowsInv'
  BY DEF EvidenceIInv, RowsInv
<1>2. OwnerInv'
  BY DEF EvidenceIInv, OwnerInv
<1>3. \A t \in Transactions : Succeeded(t)' <=> Succeeded(t)
  BY DEF Succeeded, RowsOf
<1> QED BY <1>1, <1>2, <1>3

LEMMA WorkStep ==
  ASSUME EvidenceIInv, NEW w \in Work, Ask(w) \/ Drop(w) \/ Refuse(w)
  PROVE  EvidenceIInv'
<1>1. /\ UNCHANGED <<rows, owner, graph, authority, event>>
      /\ UNCHANGED <<rows, owner, reference, event>>
  BY DEF Ask, Drop, Refuse, graph
<1>2. RowsInv' /\ OwnerInv' /\ GraphInv'
  BY <1>1, EvidenceStays DEF EvidenceIInv, GraphInv, graph
<1>3. CASE Ask(w)
  <2>1. PICK r \in Replies(w) : reply' = [reply EXCEPT ![w] = r]
    BY <1>3 DEF Ask
  <2>2. r \in ReplyType /\ Grounded(w, r)
    BY RepliesAreAnswers
  <2>3. inquiry' = [inquiry EXCEPT ![w] = "asked"]
    BY <1>3 DEF Ask
  <2>4. AskedInv'
    BY <1>1, <2>1, <2>2, <2>3 DEF EvidenceIInv, ValueInv, AskedInv, Grounded
  <2>5. ValueInv'
    BY <1>1, <2>1, <2>2, <2>3 DEF EvidenceIInv, ValueInv, WorkStates, graph
  <2> QED BY <1>2, <2>4, <2>5 DEF EvidenceIInv
<1>4. CASE Drop(w) \/ Refuse(w)
  <2>1. /\ inquiry' \in [Work -> WorkStates] /\ reply' \in [Work -> {None} \cup ReplyType]
        /\ \A x \in Work : inquiry'[x] = "asked" => inquiry[x] = "asked" /\ reply'[x] = reply[x]
    BY <1>4 DEF Drop, Refuse, EvidenceIInv, ValueInv, WorkStates
  <2>2. AskedInv'
    BY <1>1, <2>1 DEF EvidenceIInv, AskedInv, Grounded
  <2>3. ValueInv'
    BY <1>1, <2>1 DEF EvidenceIInv, ValueInv, graph
  <2> QED BY <1>2, <2>2, <2>3 DEF EvidenceIInv
<1> QED BY <1>3, <1>4

\* The evidence that controls a reading is the successful row, if there is one.
ControllingIs(t) ==
  /\ \A i \in DOMAIN rows[t] : Eligible(t, i) <=> rows[t][i].state = "success"
  /\ Succeeded(t) =>
       /\ Controlling(t) \in DOMAIN rows[t]
       /\ \A i \in DOMAIN rows[t] : rows[t][i].state = "success" <=> i = Controlling(t)
  /\ ~Succeeded(t) => Controlling(t) = 0
  /\ DOMAIN rows[t] \subseteq Nat \ {0}

EvidenceControls == \A t \in Transactions : ControllingIs(t)

LEMMA ControllingOfInvariant == EvidenceIInv => EvidenceControls
<1> SUFFICES ASSUME EvidenceIInv, NEW t \in Transactions PROVE ControllingIs(t)
  BY DEF EvidenceControls
<1>1. rows[t] \in Seq(RowType) /\ DOMAIN rows[t] = 1..Len(rows[t]) /\ Len(rows[t]) \in Nat
  BY DEF EvidenceIInv, ValueInv
<1>2. \A i \in DOMAIN rows[t] : Eligible(t, i) <=> rows[t][i].state = "success"
  <2> SUFFICES ASSUME NEW i \in DOMAIN rows[t], rows[t][i].state = "success"
      PROVE  Eligible(t, i)
    BY DEF Eligible
  <2>1. /\ Guards!RowComplete(rows[t][i]) /\ owner[rows[t][i].ref] = <<t, i>>
    BY DEF EvidenceIInv, RowsInv
  <2> QED BY <2>1 DEF Eligible, Guards!RowComplete
<1>3. ASSUME Succeeded(t)
      PROVE  /\ Controlling(t) \in DOMAIN rows[t]
             /\ \A i \in DOMAIN rows[t] : rows[t][i].state = "success" <=> i = Controlling(t)
  <2>1. PICK s \in DOMAIN rows[t] : rows[t][s].state = "success"
    BY <1>3 DEF Succeeded, RowsOf
  <2>2. \A i \in DOMAIN rows[t] : rows[t][i].state = "success" <=> i = s
    BY <2>1, OneSuccess
  <2>3. {i \in DOMAIN rows[t] : Eligible(t, i)} = {s}
    BY <1>2, <2>1, <2>2
  <2>4. Controlling(t) = CHOOSE i \in {s} : \A j \in {s} : j <= i
    BY <2>3 DEF Controlling
  <2>5. s <= s
    BY <1>1
  <2>6. Controlling(t) = s
    BY <2>4, <2>5
  <2> QED BY <2>2, <2>6
<1>4. ASSUME ~Succeeded(t) PROVE Controlling(t) = 0
  <2>1. {i \in DOMAIN rows[t] : Eligible(t, i)} = {}
    BY <1>2, <1>4 DEF Succeeded, RowsOf
  <2> QED BY <2>1 DEF Controlling
<1>5. DOMAIN rows[t] \subseteq Nat \ {0}
  BY <1>1
<1> QED BY <1>2, <1>3, <1>4, <1>5 DEF EvidenceControls, ControllingIs

\* An eligible reading rests on a successful row, which is exact.
LEMMA EligibleIs ==
  ASSUME EvidenceIInv, NEW t \in Transactions, Reading(t) = "eligible"
  PROVE  ExactSuccess(t) /\ Succeeded(t) /\ Controlling(t) \in DOMAIN rows[t]
<1>1. Controlling(t) # 0
  BY DEF Reading
<1>2. /\ Succeeded(t) /\ Controlling(t) \in DOMAIN rows[t]
      /\ rows[t][Controlling(t)].state = "success"
  BY <1>1, ControllingOfInvariant DEF EvidenceControls, ControllingIs
<1>3. /\ Guards!RowComplete(rows[t][Controlling(t)])
      /\ rows[t][Controlling(t)].ref = reference[t]
      /\ owner[rows[t][Controlling(t)].ref] = <<t, Controlling(t)>>
  BY <1>2 DEF EvidenceIInv, RowsInv
<1> QED BY <1>2, <1>3 DEF ExactSuccess, Guards!RowComplete

\* Money is recognized on evidence, or released to its finalization; a request
\* ends unpaid only while nothing succeeded.
LEMMA GraphStep ==
  ASSUME EvidenceIInv, NEW t \in Transactions,
         Recognize(t) \/ Approve(t) \/ Finalize(t) \/ EndAtRequest(t)
  PROVE  EvidenceIInv'
<1>1. UNCHANGED <<rows, owner, reference, event>> /\ UNCHANGED <<inquiry, reply>>
  BY DEF Recognize, Approve, Finalize, EndAtRequest, graph
<1>2. RowsInv' /\ OwnerInv' /\ AskedInv' /\ \A u \in Transactions : Succeeded(u)' <=> Succeeded(u)
  BY <1>1, EvidenceStays DEF EvidenceIInv, AskedInv, Grounded
<1>3. /\ "recognized" \in DOMAIN PaymentEdges /\ "open" \in DOMAIN PaymentEdges
  BY DEF PaymentEdges
<1>4. CASE Recognize(t)
  <2>1. Reading(t) = "eligible" /\ payment' = [payment EXCEPT ![t] = "recognized"]
    BY <1>4 DEF Recognize, Recognizable
  <2>2. Succeeded(t)
    BY <2>1, EligibleIs
  <2>3. /\ \/ transaction' = [transaction EXCEPT ![t] = "succeeded"]
           \/ UNCHANGED transaction /\ transaction[t] \in Ended
        /\ authority' = authority \/ authority' = [authority EXCEPT ![t] = "applied"]
    BY <1>4 DEF Recognize
  <2>4. ValueInv'
    BY <1>1, <1>3, <2>1, <2>3 DEF EvidenceIInv, ValueInv
  <2>5. GraphInv'
    BY <1>2, <2>1, <2>2, <2>3 DEF EvidenceIInv, ValueInv, GraphInv
  <2> QED BY <1>2, <2>4, <2>5 DEF EvidenceIInv
<1>5. CASE Approve(t) \/ Finalize(t)
  <2>1. ValueInv'
    BY <1>1, <1>5 DEF Approve, Finalize, EvidenceIInv, ValueInv, graph
  <2>2. GraphInv'
    BY <1>2, <1>5 DEF Approve, Finalize, EvidenceIInv, ValueInv, GraphInv, graph
  <2> QED BY <1>2, <2>1, <2>2 DEF EvidenceIInv
<1>6. CASE EndAtRequest(t)
  <2>1. ValueInv'
    BY <1>1, <1>3, <1>6 DEF EndAtRequest, EvidenceIInv, ValueInv, Ended
  <2>2. GraphInv'
    BY <1>2, <1>6 DEF EndAtRequest, EvidenceIInv, ValueInv, GraphInv, Ended
  <2> QED BY <1>2, <2>1, <2>2 DEF EvidenceIInv
<1> QED BY <1>4, <1>5, <1>6

LEMMA InitEvidenceIInv == EvidenceInit => EvidenceIInv
<1> SUFFICES ASSUME EvidenceInit PROVE EvidenceIInv
  OBVIOUS
<1>1. \A t \in Transactions : rows[t] = <<>> /\ DOMAIN rows[t] = {} /\ Len(rows[t]) = 0
  BY DEF EvidenceInit
<1>2. ValueInv
  <2>1. rows \in [Transactions -> Seq(RowType)]
    BY DEF EvidenceInit
  <2>2. transaction \in [Transactions -> DOMAIN TransactionEdges \cup Ended \cup {"succeeded"}]
    BY WorkAssumption DEF EvidenceInit, Requested, TransactionEdges
  <2>3. payment \in [Transactions -> DOMAIN PaymentEdges \cup {"paid"}]
    BY DEF EvidenceInit, PaymentEdges
  <2> QED BY <2>1, <2>2, <2>3 DEF EvidenceInit, ValueInv, WorkStates, Owners, None
<1>3. AskedInv
  BY DEF EvidenceInit, AskedInv
<1>4. RowsInv
  BY <1>1, ReferenceAssumption DEF RowsInv
<1>5. OwnerInv /\ GraphInv
  BY DEF EvidenceInit, OwnerInv, GraphInv
<1> QED BY <1>2, <1>3, <1>4, <1>5 DEF EvidenceIInv

LEMMA NextEvidenceIInv == EvidenceIInv /\ [EvidenceNext]_evidenceVars => EvidenceIInv'
<1> SUFFICES ASSUME EvidenceIInv, [EvidenceNext]_evidenceVars PROVE EvidenceIInv'
  OBVIOUS
<1>1. CASE UNCHANGED evidenceVars
  <2>1. UNCHANGED <<rows, owner, reference, event>>
    BY <1>1 DEF evidenceVars
  <2>2. RowsInv' /\ OwnerInv' /\ \A u \in Transactions : Succeeded(u)' <=> Succeeded(u)
    BY <2>1, EvidenceStays
  <2>3. ValueInv' /\ AskedInv' /\ GraphInv'
    BY <1>1, <2>2 DEF evidenceVars, EvidenceIInv, ValueInv, AskedInv, GraphInv, Grounded
  <2> QED BY <2>2, <2>3 DEF EvidenceIInv
<1> QED BY <1>1, WorkStep, ApplyStep, GraphStep DEF EvidenceNext

\* The inductive invariant holds in every behavior.
THEOREM EvidenceInvariant == EvidenceSpec => []EvidenceIInv
<1>1. QED BY InitEvidenceIInv, NextEvidenceIInv, PTL DEF EvidenceSpec

\* Type correctness: every value has its type, every row is one that the
\* database keeps, and a transaction has at most one successful row.
THEOREM EvidenceTypeCorrect == EvidenceSpec => []EvidenceTypeOK
<1>1. EvidenceIInv => EvidenceTypeOK
  <2> SUFFICES ASSUME EvidenceIInv PROVE EvidenceTypeOK
    OBVIOUS
  <2>1. ASSUME NEW t \in Transactions
        PROVE  /\ RowsOf(t) \subseteq RowType
               /\ Cardinality({i \in DOMAIN rows[t] : rows[t][i].state = "success"}) <= 1
    <3> DEFINE successes == {i \in DOMAIN rows[t] : rows[t][i].state = "success"}
    <3>1. rows[t] \in Seq(RowType) /\ DOMAIN rows[t] = 1..Len(rows[t])
      BY DEF EvidenceIInv, ValueInv
    <3>2. RowsOf(t) \subseteq RowType
      BY <3>1 DEF RowsOf
    <3>3. CASE successes = {}
      BY <3>2, <3>3, FS_EmptySet
    <3>4. CASE successes # {}
      <4>1. PICK s \in successes : TRUE
        BY <3>4
      <4>2. successes = {s}
        BY <4>1, OneSuccess
      <4> HIDE DEF successes
      <4>3. Cardinality(successes) = 1
        BY <4>2, FS_Singleton
      <4> QED BY <3>2, <4>3 DEF successes
    <3> QED BY <3>3, <3>4
  <2> QED BY <2>1 DEF EvidenceIInv, ValueInv, EvidenceTypeOK
<1>2. QED BY EvidenceInvariant, <1>1, PTL

\* Whatever was answered to concurrent queries, and in whatever order the answers
\* were recorded: a reference settles one transaction, and evidence read as
\* eligible is exact evidence of that very transaction.
THEOREM EligibleEvidenceIsExact == EvidenceSpec => []EligibleIsExact
<1>1. EvidenceIInv => EligibleIsExact
  BY OneSuccess, EligibleIs DEF EligibleIsExact
<1>2. QED BY EvidenceInvariant, <1>1, PTL

-----------------------------------------------------------------------------
(* What a step may do to a reading                                         *)

\* The part of ReadingMoves about one transaction.
ReadingStep(t) ==
  /\ Reading(t) = "blocked" =>
       \/ Reading(t)' = "blocked"
       \/ Reading(t)' = "eligible" /\ \A i \in Blockers(t) : rows[t][i].spoiled
  /\ Reading(t) \in {"unpaid", "eligible"} => Reading(t)' \in {Reading(t), "blocked"}

\* A reading depends on the rows of its transaction alone.
LEMMA ReadingStays ==
  ASSUME EvidenceIInv, EvidenceIInv', NEW t \in Transactions, rows'[t] = rows[t]
  PROVE  Reading(t)' = Reading(t)
<1>1. ControllingIs(t)
  BY ControllingOfInvariant DEF EvidenceControls
<1>2. EvidenceControls'
  BY ControllingOfInvariant, PTL
<1>3. ControllingIs(t)' /\ (Succeeded(t)' <=> Succeeded(t)) /\ (EndedUnpaid(t)' <=> EndedUnpaid(t))
  BY <1>2 DEF EvidenceControls, Succeeded, EndedUnpaid, RowsOf
<1>4. Controlling(t)' = Controlling(t)
  BY <1>1, <1>3 DEF EvidenceControls, ControllingIs
<1>5. Blockers(t)' = Blockers(t)
  BY <1>4 DEF Blockers, Superseded
<1> QED BY <1>3, <1>4, <1>5 DEF Reading

\* Another row blocks, or adds to what was read, or is the success that
\* supersedes money that could not be read.
LEMMA ReadingOfApply ==
  ASSUME EvidenceIInv, EvidenceIInv', NEW w \in Work, Apply(w)
  PROVE  ReadingStep(TransactionOf[w])
<1> DEFINE t == TransactionOf[w]
           v == Row(w)
           n == Len(rows[t])
<1>1. /\ t \in Transactions /\ v \in RowType /\ Recorded(t, v)
      /\ v.state = "success" => ~Succeeded(t) /\ ~EndedUnpaid(t)
      /\ Succeeded(t) => v.state = "review"
  BY ApplyFacts
<1>2. /\ n \in Nat /\ DOMAIN rows[t] = 1..n /\ DOMAIN rows'[t] = 1..(n + 1)
      /\ \A i \in 1..n : rows'[t][i] = rows[t][i]
      /\ rows'[t][n + 1] = v
  <2>1. rows[t] \in Seq(RowType) /\ rows'[t] = Append(rows[t], v)
    BY <1>1 DEF EvidenceIInv, ValueInv, Recorded
  <2> HIDE DEF v
  <2> QED BY <1>1, <2>1, Appended
<1>3. ControllingIs(t) /\ ControllingIs(t)'
  <2>1. EvidenceControls'
    BY ControllingOfInvariant, PTL
  <2> QED BY <1>1, <2>1, ControllingOfInvariant DEF EvidenceControls
<1> HIDE DEF v
<1>4. /\ Succeeded(t)' <=> Succeeded(t) \/ v.state = "success"
      /\ EndedUnpaid(t) => EndedUnpaid(t)'
  <2>1. {rows'[t][i] : i \in 1..(n + 1)} = {rows[t][i] : i \in 1..n} \cup {v}
    <3> HIDE DEF n
    <3>1. \A i : i \in 1..(n + 1) <=> i \in 1..n \/ i = n + 1
      BY <1>2
    <3> QED BY <1>2, <3>1
  <2>2. RowsOf(t)' = RowsOf(t) \cup {v}
    BY <1>2, <2>1 DEF RowsOf
  <2> QED BY <2>2 DEF Succeeded, EndedUnpaid
<1>5. CASE Succeeded(t)
  <2>1. v.state = "review"
    BY <1>1, <1>5
  <2>2. Controlling(t) \in 1..n /\ rows[t][Controlling(t)].state = "success"
    BY <1>2, <1>3, <1>5 DEF EvidenceControls, ControllingIs
  <2>3. Controlling(t)' = Controlling(t)
    BY <1>2, <1>3, <1>4, <1>5, <2>2 DEF EvidenceControls, ControllingIs
  <2>4. n + 1 \in Blockers(t)'
    BY <1>2, <2>1, <2>2, <2>3 DEF Blockers, Superseded
  <2>5. Reading(t)' = "blocked"
    BY <2>4 DEF Reading
  <2> QED BY <2>5 DEF ReadingStep
<1>6. CASE v.state = "success"
  <2>1. Controlling(t) = 0 /\ Reading(t) \notin {"unpaid", "eligible"}
    BY <1>1, <1>3, <1>6 DEF EvidenceControls, ControllingIs, Reading
  <2>2. Controlling(t)' = n + 1
    BY <1>2, <1>3, <1>4, <1>6 DEF EvidenceControls, ControllingIs
  <2>3. CASE Blockers(t)' = {}
    <3>1. Reading(t)' = "eligible"
      BY <1>2, <2>2, <2>3 DEF Reading
    <3>2. \A i \in Blockers(t) : rows[t][i].spoiled
      <4> SUFFICES ASSUME NEW i \in Blockers(t) PROVE rows[t][i].spoiled
        OBVIOUS
      <4>1. i \in 1..n /\ rows[t][i].state = "review"
        BY <1>2 DEF Blockers
      <4>2. i \in DOMAIN rows'[t] /\ rows'[t][i] = rows[t][i] /\ i \notin Blockers(t)'
        BY <1>2, <2>3, <4>1
      <4>3. Superseded(t, i, Controlling(t))'
        BY <4>1, <4>2 DEF Blockers
      <4> QED BY <4>2, <4>3 DEF Superseded
    <3> QED BY <2>1, <3>1, <3>2 DEF ReadingStep
  <2>4. CASE Blockers(t)' # {}
    BY <2>1, <2>4 DEF ReadingStep, Reading
  <2> QED BY <2>3, <2>4
<1>7. CASE ~Succeeded(t) /\ v.state # "success"
  <2>1. Controlling(t) = 0 /\ Controlling(t)' = 0
    BY <1>3, <1>4, <1>7 DEF EvidenceControls, ControllingIs
  <2>2. \A i \in Blockers(t) : i \in Blockers(t)'
    BY <1>2, <2>1 DEF Blockers, Superseded
  <2>3. Reading(t) = "blocked" => Reading(t)' = "blocked"
    BY <2>2 DEF Reading
  <2>4. Reading(t) # "eligible" /\ (Reading(t) = "unpaid" => EndedUnpaid(t)')
    BY <1>4, <2>1 DEF Reading
  <2>5. Reading(t) = "unpaid" => Reading(t)' \in {"unpaid", "blocked"}
    BY <2>1, <2>4 DEF Reading
  <2> QED BY <2>3, <2>4, <2>5 DEF ReadingStep
<1> QED BY <1>5, <1>6, <1>7

-----------------------------------------------------------------------------
(* What PostgreSQL accepts of a step                                       *)

\* The part of Guards!Accepted about one transaction, SuccessOwns and
\* RowComplete aside, which are invariants.
Settles(t) ==
  /\ Guards!RowsAppended(t) /\ Guards!ReferenceWrittenOnce(t)
  /\ Guards!FailureUncontradicted(t) /\ Guards!ReopenUncontradicted(t)
  /\ Guards!SuccessAllocated(t) /\ Guards!AllocationEvidenced(t)
  /\ Guards!AllocationPermanent(t)

\* A transaction that a step does not touch.
LEMMA Untouched ==
  ASSUME NEW t \in Transactions, rows'[t] = rows[t], transaction'[t] = transaction[t],
         payment'[t] = payment[t], reference'[t] = reference[t]
  PROVE  Settles(t)
BY DEF Settles, Guards!RowsAppended, Guards!ReferenceWrittenOnce, Guards!FailureUncontradicted,
       Guards!ReopenUncontradicted, Guards!SuccessAllocated, Guards!AllocationEvidenced,
       Guards!AllocationPermanent, Guards!Allocated, Guards!Unpaid

LEMMA ApplySettles ==
  ASSUME EvidenceIInv, NEW w \in Work, Apply(w)
  PROVE  Settles(TransactionOf[w])
<1> DEFINE t == TransactionOf[w]
           v == Row(w)
           n == Len(rows[t])
<1>1. /\ t \in Transactions /\ v \in RowType /\ Recorded(t, v) /\ Projects(t, v)
      /\ v.state = StateOf(v.outcome)
      /\ v.state = "success" => reference[t] = NoReference
      /\ Succeeded(t) => v.state = "review"
  BY ApplyFacts
<1>2. v.state \in {"success", "unpaid", "unapplied", "review"} /\ v.outcome \in Outcomes
  BY <1>1 DEF RowType
<1>3. /\ n \in Nat /\ DOMAIN rows[t] = 1..n /\ DOMAIN rows'[t] = 1..(n + 1)
      /\ \A i \in 1..n : rows'[t][i] = rows[t][i]
      /\ rows'[t] = Append(rows[t], v) /\ rows'[t][n + 1] = v
  <2>1. rows[t] \in Seq(RowType) /\ rows'[t] = Append(rows[t], v)
    BY <1>1 DEF EvidenceIInv, ValueInv, Recorded
  <2> HIDE DEF v
  <2> QED BY <1>1, <2>1, Appended
<1> HIDE DEF v
<1>4. RowsOf(t)' = RowsOf(t) \cup {v}
  BY <1>3 DEF RowsOf
<1>5. transaction'[t] = TransactionTarget(t, v) /\ payment'[t] = PaymentTarget(v)
  BY <1>1 DEF Recorded, EvidenceIInv, ValueInv
<1>6. /\ PaymentTarget(v) \in {"open", "processing", "review"}
      /\ PaymentTarget(v) = "open" => v.state = "unpaid"
  BY <1>2 DEF PaymentTarget
<1>7. Guards!RowsOf(t) = RowsOf(t) /\ Guards!RowsOf(t)' = RowsOf(t)'
  BY DEF Guards!RowsOf, RowsOf
<1>8. Guards!RowsAppended(t)
  BY <1>3, <1>4, <1>7 DEF Guards!RowsAppended
<1>9. Guards!ReferenceWrittenOnce(t)
  BY <1>1 DEF Guards!ReferenceWrittenOnce, Recorded
<1>10. Guards!FailureUncontradicted(t)
  <2>1. TransactionTarget(t, v) \in Guards!Unpaid /\ transaction[t] \notin Guards!Unpaid =>
          v.state = "unpaid"
    BY <1>2 DEF TransactionTarget, Guards!Unpaid, Ended
  <2>2. v.state = "unpaid" => ~Succeeded(t)
    BY <1>1
  <2> QED BY <1>5, <1>7, <2>1, <2>2 DEF Guards!FailureUncontradicted, Succeeded
<1>11. Guards!ReopenUncontradicted(t)
  <2>1. ASSUME payment'[t] = "open", payment[t] # "open"
        PROVE  \A x \in RowsOf(t)' : x.state \notin {"unapplied", "success", "review"}
    <3>1. v.state = "unpaid"
      BY <1>5, <1>6, <2>1
    <3>2. Reopenable(t)
      BY <1>1, <3>1 DEF Projects
    <3> QED BY <1>4, <2>1, <3>1, <3>2 DEF Reopenable
  <2> QED BY <1>7, <2>1 DEF Guards!ReopenUncontradicted
<1>12. Guards!SuccessAllocated(t)
  <2>1. TransactionTarget(t, v) = "succeeded" => transaction[t] = "succeeded"
    BY <1>2 DEF TransactionTarget
  <2> QED BY <1>5, <2>1 DEF Guards!SuccessAllocated
<1>13. ~Guards!Allocated(t)' /\ ~Guards!Allocated(t)
  <2>1. ~Guards!Allocated(t)'
    BY <1>5, <1>6 DEF Guards!Allocated
  <2>2. ASSUME payment[t] \in {"recognized", "paid"} PROVE FALSE
    <3>1. v.state = "review" /\ transaction[t] \in Ended \cup {"succeeded"}
      BY <1>1, <2>2 DEF EvidenceIInv, GraphInv
    <3>2. TransactionTarget(t, v) \in {"unknown", "review"}
      BY <3>1 DEF TransactionTarget
    <3>3. transaction[t] \notin DOMAIN TransactionEdges /\ transaction[t] # TransactionTarget(t, v)
      BY <3>1, <3>2 DEF Ended, TransactionEdges
    <3> QED BY <1>1, <3>3 DEF Projects, Moves
  <2> QED BY <2>1, <2>2 DEF Guards!Allocated
<1>14. Guards!AllocationEvidenced(t) /\ Guards!AllocationPermanent(t)
  BY <1>13 DEF Guards!AllocationEvidenced, Guards!AllocationPermanent
<1> QED BY <1>8, <1>9, <1>10, <1>11, <1>12, <1>14 DEF Settles

\* A reference stays owned by the row that proved it.
LEMMA OwnersStay ==
  ASSUME EvidenceIInv, EvidenceIInv', [EvidenceNext]_evidenceVars, NEW r \in References
  PROVE  Guards!OwnerNamesIt(r)' /\ Guards!OwnerPermanent(r)
<1>1. Guards!OwnerNamesIt(r)'
  <2>1. ASSUME owner'[r] # <<>>
        PROVE  LET x == rows'[owner'[r][1]][owner'[r][2]] IN x.state = "success" /\ x.ref = r
    <3>1. \E t \in Transactions : \E i \in DOMAIN rows'[t] :
            owner'[r] = <<t, i>> /\ rows'[t][i].state = "success" /\ rows'[t][i].ref = r
      BY <2>1 DEF EvidenceIInv, OwnerInv, None
    <3> QED BY <3>1
  <2> QED BY <2>1 DEF Guards!OwnerNamesIt
<1>2. Guards!OwnerPermanent(r)
  <2>1. ASSUME NEW w \in Work, Apply(w) PROVE Guards!OwnerPermanent(r)
    <3> DEFINE t == TransactionOf[w]
               v == Row(w)
    <3>1. /\ Recorded(t, v)
          /\ v.state = "success" => v.ref \in References /\ owner[v.ref] = None
      BY <2>1, ApplyFacts
    <3> HIDE DEF v, t
    <3> QED BY <3>1 DEF Recorded, Guards!OwnerPermanent, None, EvidenceIInv, ValueInv
  <2>2. CASE UNCHANGED owner
    BY <2>2 DEF Guards!OwnerPermanent
  <2>3. (\E w \in Work : Apply(w)) \/ UNCHANGED owner
    BY DEF EvidenceNext, evidenceVars, Ask, Drop, Refuse, Recognize, Approve, Finalize, EndAtRequest
  <2> QED BY <2>1, <2>2, <2>3
<1> QED BY <1>1, <1>2

LEMMA GraphSettles ==
  ASSUME EvidenceIInv, NEW t \in Transactions,
         Recognize(t) \/ Approve(t) \/ Finalize(t) \/ EndAtRequest(t)
  PROVE  Settles(t)
<1>1. UNCHANGED <<rows, owner, reference>>
  BY DEF Recognize, Approve, Finalize, EndAtRequest, graph
<1>2. Guards!RowsAppended(t) /\ Guards!ReferenceWrittenOnce(t)
  BY <1>1 DEF Guards!RowsAppended, Guards!ReferenceWrittenOnce
<1>3. Guards!RowsOf(t) = RowsOf(t) /\ Guards!RowsOf(t)' = RowsOf(t)
  BY <1>1 DEF Guards!RowsOf, RowsOf
<1>4. CASE Recognize(t)
  <2>1. Reading(t) = "eligible" /\ payment'[t] = "recognized" /\ payment[t] \in {"processing", "review"}
    BY <1>4 DEF Recognize, Recognizable, EvidenceIInv, ValueInv
  <2>2. transaction'[t] = "succeeded" \/ transaction'[t] = transaction[t]
    BY <1>4 DEF Recognize, EvidenceIInv, ValueInv
  <2>3. ExactSuccess(t) /\ Controlling(t) \in DOMAIN rows[t]
    BY <2>1, EligibleIs
  <2>4. Eligible(t, Controlling(t)) /\ Guards!RowComplete(rows[t][Controlling(t)])
    <3>1. rows[t][Controlling(t)].state = "success"
      BY <2>1, <2>3, EligibleIs, ControllingOfInvariant DEF EvidenceControls, ControllingIs
    <3> QED BY <2>3, <3>1, ControllingOfInvariant DEF EvidenceControls, ControllingIs, EvidenceIInv, RowsInv
  <2>5. Guards!AllocationEvidenced(t)
    BY <1>3, <2>3, <2>4 DEF Guards!AllocationEvidenced, ExactSuccess, Eligible, RowsOf
  <2>6. /\ Guards!FailureUncontradicted(t) /\ Guards!ReopenUncontradicted(t)
        /\ Guards!SuccessAllocated(t) /\ Guards!AllocationPermanent(t)
    BY <2>1, <2>2 DEF Guards!FailureUncontradicted, Guards!ReopenUncontradicted,
       Guards!SuccessAllocated, Guards!AllocationPermanent, Guards!Allocated, Guards!Unpaid
  <2> QED BY <1>2, <2>5, <2>6 DEF Settles
<1>5. CASE Approve(t) \/ Finalize(t)
  <2>1. /\ transaction'[t] = transaction[t]
        /\ payment'[t] = payment[t] \/ (payment[t] = "recognized" /\ payment'[t] = "paid")
    BY <1>5 DEF Approve, Finalize, graph, EvidenceIInv, ValueInv
  <2> QED BY <1>2, <2>1 DEF Settles, Guards!FailureUncontradicted, Guards!ReopenUncontradicted,
          Guards!SuccessAllocated, Guards!AllocationEvidenced, Guards!AllocationPermanent,
          Guards!Allocated, Guards!Unpaid
<1>6. CASE EndAtRequest(t)
  <2>1. /\ transaction'[t] = "declined" /\ payment'[t] = "open" /\ Reopenable(t)
        /\ transaction[t] \notin Ended \cup {"succeeded"}
    BY <1>6 DEF EndAtRequest, EvidenceIInv, ValueInv, Ended
  <2>2. payment[t] # "open" /\ ~Guards!Allocated(t) /\ ~Guards!Allocated(t)'
    BY <2>1 DEF EvidenceIInv, GraphInv, Guards!Allocated
  <2>3. \A x \in RowsOf(t) : x.state \notin {"unapplied", "success", "review"}
    BY <2>1, <2>2 DEF Reopenable
  <2> QED BY <1>2, <1>3, <2>1, <2>2, <2>3 DEF Settles, Guards!FailureUncontradicted,
          Guards!ReopenUncontradicted, Guards!SuccessAllocated, Guards!AllocationEvidenced,
          Guards!AllocationPermanent, Guards!Unpaid
<1> QED BY <1>4, <1>5, <1>6

-----------------------------------------------------------------------------
(* Every step                                                              *)

\* A step touches one transaction, or none.
LEMMA StepOf ==
  ASSUME EvidenceIInv, [EvidenceNext]_evidenceVars, NEW t \in Transactions
  PROVE  \/ \E w \in Work : Apply(w) /\ t = TransactionOf[w]
         \/ Recognize(t) \/ Approve(t) \/ Finalize(t) \/ EndAtRequest(t)
         \/ /\ rows'[t] = rows[t] /\ transaction'[t] = transaction[t]
            /\ payment'[t] = payment[t] /\ reference'[t] = reference[t]
<1>1. ASSUME NEW w \in Work, Apply(w), t # TransactionOf[w]
      PROVE  /\ rows'[t] = rows[t] /\ transaction'[t] = transaction[t]
             /\ payment'[t] = payment[t] /\ reference'[t] = reference[t]
  <2>1. Recorded(TransactionOf[w], Row(w))
    BY <1>1, ApplyFacts
  <2> QED BY <1>1, <2>1 DEF Recorded, EvidenceIInv, ValueInv
<1>2. ASSUME NEW w \in Work, Ask(w) \/ Drop(w) \/ Refuse(w)
      PROVE  UNCHANGED <<rows, transaction, payment, reference>>
  BY <1>2 DEF Ask, Drop, Refuse, graph
<1>3. ASSUME NEW u \in Transactions, u # t,
             Recognize(u) \/ Approve(u) \/ Finalize(u) \/ EndAtRequest(u)
      PROVE  /\ rows'[t] = rows[t] /\ transaction'[t] = transaction[t]
             /\ payment'[t] = payment[t] /\ reference'[t] = reference[t]
  BY <1>3 DEF Recognize, Approve, Finalize, EndAtRequest, graph, EvidenceIInv, ValueInv
<1>4. CASE UNCHANGED evidenceVars
  BY <1>4 DEF evidenceVars
<1> QED BY <1>1, <1>2, <1>3, <1>4 DEF EvidenceNext

LEMMA StepSettles ==
  ASSUME EvidenceIInv, [EvidenceNext]_evidenceVars, NEW t \in Transactions
  PROVE  Settles(t)
BY StepOf, ApplySettles, GraphSettles, Untouched

LEMMA StepReads ==
  ASSUME EvidenceIInv, EvidenceIInv', [EvidenceNext]_evidenceVars, NEW t \in Transactions
  PROVE  /\ ReadingStep(t)
         /\ payment'[t] = "recognized" /\ payment[t] # "recognized" => Reading(t) = "eligible"
<1>1. CASE \E w \in Work : Apply(w) /\ t = TransactionOf[w]
  <2>1. PICK w \in Work : Apply(w) /\ t = TransactionOf[w]
    BY <1>1
  <2>2. /\ Recorded(t, Row(w)) /\ Row(w) \in RowType
    BY <2>1, ApplyFacts
  <2>3. payment'[t] # "recognized"
    BY <2>2 DEF Recorded, PaymentTarget, RowType, EvidenceIInv, ValueInv
  <2> QED BY <2>1, <2>3, ReadingOfApply
<1>2. ASSUME rows'[t] = rows[t] PROVE ReadingStep(t)
  BY <1>2, ReadingStays DEF ReadingStep
<1>3. CASE Recognize(t)
  BY <1>2, <1>3 DEF Recognize, Recognizable
<1>4. CASE Approve(t) \/ Finalize(t) \/ EndAtRequest(t)
  BY <1>2, <1>4 DEF Approve, Finalize, EndAtRequest, graph, EvidenceIInv, ValueInv
<1>5. CASE /\ rows'[t] = rows[t] /\ transaction'[t] = transaction[t]
           /\ payment'[t] = payment[t] /\ reference'[t] = reference[t]
  BY <1>2, <1>5
<1> QED BY <1>1, <1>3, <1>4, <1>5, StepOf

\* A reading never follows the last answer alone, and every commit is one that
\* PostgreSQL accepts: rows are appended, a reference is written once and stays
\* owned by the row that proved it, and money is allocated on exact evidence.
THEOREM ReadingsMove == EvidenceSpec => ReadingMoves
<1>1. EvidenceInit => Guards!Init
  BY DEF EvidenceInit, Guards!Init, Guards!Allocated, None
<1>2. EvidenceIInv /\ EvidenceIInv' /\ [EvidenceNext]_evidenceVars => [Guards!Accepted]_Guards!vars
  <2> SUFFICES ASSUME EvidenceIInv, EvidenceIInv', [EvidenceNext]_evidenceVars PROVE Guards!Accepted
    OBVIOUS
  <2>1. \A t \in Transactions :
          Guards!SuccessOwns(t)' /\ \A v \in Guards!RowsOf(t)' : Guards!RowComplete(v)
    BY DEF EvidenceIInv, RowsInv, Guards!SuccessOwns, Guards!RowsOf
  <2> QED BY <2>1, StepSettles, OwnersStay DEF Guards!Accepted, Settles
<1>3. EvidenceIInv /\ EvidenceIInv' /\ [EvidenceNext]_evidenceVars =>
        [\A t \in Transactions :
           /\ Reading(t) = "blocked" =>
                \/ Reading(t)' = "blocked"
                \/ Reading(t)' = "eligible" /\ \A i \in Blockers(t) : rows[t][i].spoiled
           /\ Reading(t) \in {"unpaid", "eligible"} => Reading(t)' \in {Reading(t), "blocked"}
           /\ payment'[t] = "recognized" /\ payment[t] # "recognized" => Reading(t) = "eligible"
        ]_evidenceVars
  BY StepReads DEF ReadingStep
<1>4. QED BY EvidenceInvariant, <1>1, <1>2, <1>3, PTL DEF EvidenceSpec, ReadingMoves, Guards!Spec

-----------------------------------------------------------------------------
(* Work                                                                    *)

\* A process is inside a saving step exactly while it holds the graph.
LockInv ==
  \A w \in Workers : pc[w] \in {"claimSave", "applySave"} <=> graphLock = w

\* What a process remembers of its unlocked read stays bounded by the row.
KeyInv ==
  \A w \in Workers :
    /\ key[w] <= attempts + 1
    /\ pc[w] = "claimSave" => key[w] = attempts + 1 /\ attempts < MaxAttempts
    /\ pc[w] \in {"query", "apply", "applySave"} => key[w] \in claims
    /\ pc[w] = "applySave" => evidence[key[w]] = "none"

IInv ==
  /\ TypeOK
  /\ OneClaimPerAttempt
  /\ ConclusiveIffCompleted
  /\ LockInv
  /\ KeyInv

USE DEF Keys, Terminal, Open, Answers, Failures

LEMMA InitIInv == Init => IInv
<1> USE MaxAttemptsAssumption, BoundsAssumption, NoWorkerAssumption
<1> SUFFICES ASSUME Init PROVE IInv
  OBVIOUS
<1>1. TypeOK
  <2>1. due \in BOOLEAN /\ reviewed \in BOOLEAN /\ closed \in BOOLEAN
    BY Zenon DEF Init
  <2> QED BY <2>1 DEF Init, TypeOK
<1>2. OneClaimPerAttempt
  BY DEF Init, OneClaimPerAttempt
<1>3. ConclusiveIffCompleted
  BY DEF Init, ConclusiveIffCompleted
<1>4. LockInv /\ KeyInv
  BY DEF Init, LockInv, KeyInv
<1> QED BY <1>1, <1>2, <1>3, <1>4 DEF IInv

LEMMA NextIInv == IInv /\ [Next]_vars => IInv'
<1> USE MaxAttemptsAssumption, BoundsAssumption, NoWorkerAssumption
<1> SUFFICES ASSUME IInv, [Next]_vars PROVE IInv'
  OBVIOUS
<1> USE DEF IInv, TypeOK, OneClaimPerAttempt, ConclusiveIffCompleted, LockInv, KeyInv,
            work, history, locals, world, Goto, Fail, DropAnswer, DropFailure,
            GraphFree
<1>1. ASSUME NEW w \in Workers, SelectDue(w) PROVE IInv'
  BY <1>1 DEF SelectDue
<1>2. ASSUME NEW w \in Workers, RunOne(w) PROVE IInv'
  BY <1>2 DEF RunOne
<1>3. ASSUME NEW w \in Workers, Retry(w) PROVE IInv'
  BY <1>3 DEF Retry
<1>4. ASSUME NEW w \in Workers, Start(w) PROVE IInv'
  <2>1. CASE status \in Terminal
    <3>1. /\ pc[w] = "start" /\ pc' = [pc EXCEPT ![w] = "idle"] /\ UNCHANGED key
          /\ UNCHANGED <<work, history, answer, failure, world, graphLock>>
      BY <1>4, <2>1 DEF Start
    <3>2. TypeOK'
      BY <3>1
    <3>3. OneClaimPerAttempt' /\ ConclusiveIffCompleted'
      BY <3>1
    <3>4. LockInv' /\ KeyInv'
      BY <3>1
    <3> QED BY <3>2, <3>3, <3>4
  <2>2. CASE status \notin Terminal
    <3>1. /\ pc[w] = "start" /\ pc' = [pc EXCEPT ![w] = "claim"]
          /\ key' = [key EXCEPT ![w] = attempts + 1]
          /\ UNCHANGED <<work, history, answer, failure, world, graphLock>>
      BY <1>4, <2>2 DEF Start, RootKey
    <3>2. TypeOK'
      BY <3>1
    <3>3. OneClaimPerAttempt' /\ ConclusiveIffCompleted'
      BY <3>1
    <3>4. LockInv' /\ KeyInv'
      BY <3>1
    <3> QED BY <3>2, <3>3, <3>4
  <2> QED BY <2>1, <2>2
<1>5. ASSUME NEW w \in Workers, ClaimRead(w) PROVE IInv'
  <2>1. TypeOK'
    BY <1>5 DEF ClaimRead, Claimable, WithinBudget
  <2>2. OneClaimPerAttempt'
    BY <1>5 DEF ClaimRead, Claimable, WithinBudget
  <2>3. ConclusiveIffCompleted'
    BY <1>5 DEF ClaimRead, Claimable, WithinBudget
  <2>4. LockInv'
    BY <1>5 DEF ClaimRead, Claimable, WithinBudget
  <2>5. KeyInv'
    BY <1>5 DEF ClaimRead, Claimable, WithinBudget
  <2> QED BY <2>1, <2>2, <2>3, <2>4, <2>5
<1>6. ASSUME NEW w \in Workers, ClaimSave(w) PROVE IInv'
  <2>0. key[w] = attempts + 1 /\ attempts < MaxAttempts /\ key[w] \in Keys
    BY <1>6 DEF ClaimSave
  <2>1. TypeOK'
    <3>1. CASE RowAccepts
      <4>1. /\ status' = "claimed" /\ attempts' = attempts + 1 /\ token' = key[w]
            /\ claims' = claims \cup {key[w]} /\ pc' = [pc EXCEPT ![w] = "query"]
            /\ graphLock' = NoWorker
            /\ UNCHANGED <<failure, due, evidence, reviewed, key, answer, world>>
        BY <1>6, <3>1 DEF ClaimSave
      <4> QED BY <2>0, <4>1
    <3>2. CASE ~RowAccepts
      <4>1. /\ pc' = [pc EXCEPT ![w] = "failed"] /\ failure' = [failure EXCEPT ![w] = "error"]
            /\ graphLock' = NoWorker
            /\ UNCHANGED <<status, attempts, token, claims, due, evidence, reviewed, key,
                           answer, world>>
        BY <1>6, <3>2 DEF ClaimSave
      <4> QED BY <4>1
    <3> QED BY <3>1, <3>2
  <2>2. OneClaimPerAttempt'
    <3>1. CASE RowAccepts
      <4>1. claims' = (1..attempts) \cup {attempts + 1} /\ attempts' = attempts + 1
        BY <1>6, <2>0, <3>1 DEF ClaimSave
      <4>2. claims' = 1..attempts'
        BY <4>1
      <4>3. status' = "claimed" /\ token' = attempts + 1
        BY <1>6, <2>0, <3>1 DEF ClaimSave
      <4> QED BY <4>1, <4>2, <4>3
    <3>2. CASE ~RowAccepts
      BY <1>6, <3>2 DEF ClaimSave
    <3> QED BY <3>1, <3>2
  <2>3. ConclusiveIffCompleted'
    BY <1>6 DEF ClaimSave, RowAccepts
  <2>4. LockInv'
    BY <1>6 DEF ClaimSave, RowAccepts
  <2>5. KeyInv'
    BY <1>6 DEF ClaimSave, RowAccepts
  <2> QED BY <2>1, <2>2, <2>3, <2>4, <2>5
<1>7. ASSUME NEW w \in Workers, Refresh(w) PROVE IInv'
  <2>1. TypeOK'
    BY <1>7 DEF Refresh
  <2>2. OneClaimPerAttempt'
    BY <1>7 DEF Refresh
  <2>3. ConclusiveIffCompleted'
    BY <1>7 DEF Refresh
  <2>4. LockInv'
    BY <1>7 DEF Refresh
  <2>5. KeyInv'
    BY <1>7 DEF Refresh
  <2> QED BY <2>1, <2>2, <2>3, <2>4, <2>5
<1>8. ASSUME NEW w \in Workers, QueryReplay(w) PROVE IInv'
  <2>1. TypeOK'
    BY <1>8 DEF QueryReplay
  <2>2. OneClaimPerAttempt'
    BY <1>8 DEF QueryReplay
  <2>3. ConclusiveIffCompleted'
    BY <1>8 DEF QueryReplay
  <2>4. LockInv'
    BY <1>8 DEF QueryReplay
  <2>5. KeyInv'
    BY <1>8 DEF QueryReplay
  <2> QED BY <2>1, <2>2, <2>3, <2>4, <2>5
<1>9. ASSUME NEW w \in Workers, Query(w) PROVE IInv'
  BY <1>9 DEF Query
<1>10. ASSUME NEW w \in Workers, ApplyRead(w) PROVE IInv'
  <2>1. TypeOK'
    <3>1. /\ pc' \in {[pc EXCEPT ![w] = "idle"], [pc EXCEPT ![w] = "failed"],
                     [pc EXCEPT ![w] = "applySave"]}
          /\ answer' \in {answer, [answer EXCEPT ![w] = "pending"]}
          /\ failure' \in {failure, [failure EXCEPT ![w] = "error"]}
          /\ graphLock' \in {graphLock, w}
      <4>1. CASE evidence[key[w]] = answer[w]
        BY <1>10, <4>1 DEF ApplyRead
      <4>2. CASE evidence[key[w]] # answer[w]
        BY <1>10, <4>2 DEF ApplyRead
      <4> QED BY <4>1, <4>2
    <3>2. UNCHANGED <<work, history, key, world>>
      BY <1>10 DEF ApplyRead
    <3>3. pc' \in [Workers -> {"idle", "start", "claim", "claimSave", "refresh", "query",
                              "apply", "applySave", "failed", "review"}]
      BY <3>1
    <3>4. answer' \in [Workers -> Answers] /\ failure' \in [Workers -> Failures]
      BY <3>1
    <3> QED BY <3>1, <3>2, <3>3, <3>4
  <2>2. OneClaimPerAttempt' /\ ConclusiveIffCompleted'
    BY <1>10 DEF ApplyRead
  <2>3. LockInv' /\ KeyInv'
    BY <1>10 DEF ApplyRead, OwnsLease
  <2> QED BY <2>1, <2>2, <2>3
<1>11. ASSUME NEW w \in Workers, ApplySave(w) PROVE IInv'
  <2>1. TypeOK'
    <3>1. CASE RowAccepts
      <4>1. /\ evidence' = [evidence EXCEPT ![key[w]] = answer[w]]
            /\ status' \in {"waiting", "completed"} /\ token' = 0 /\ due' = FALSE
            /\ pc' = [pc EXCEPT ![w] = "idle"] /\ graphLock' = NoWorker
            /\ answer' = [answer EXCEPT ![w] = "pending"]
            /\ UNCHANGED <<failure, attempts, claims, reviewed, key, world>>
        BY <1>11, <3>1 DEF ApplySave, StatusAfter
      <4>2. evidence' \in [Keys -> Answers \cup {"none"}]
        BY <4>1
      <4>3. due' \in BOOLEAN
        BY <4>1, Zenon
      <4>4. answer' \in [Workers -> Answers]
        BY <4>1
      <4> HIDE DEF Keys, Answers
      <4> QED BY <4>1, <4>2, <4>3, <4>4
    <3>2. CASE ~RowAccepts
      BY <1>11, <3>2 DEF ApplySave
    <3> QED BY <3>1, <3>2
  <2>2. OneClaimPerAttempt'
    <3>1. CASE RowAccepts
      <4>1. status' # "claimed" /\ token' = 0 /\ claims' = claims /\ attempts' = attempts
        BY <1>11, <3>1 DEF ApplySave, StatusAfter
      <4> QED BY <4>1
    <3>2. CASE ~RowAccepts
      BY <1>11, <3>2 DEF ApplySave
    <3> QED BY <3>1, <3>2
  <2>3. ConclusiveIffCompleted'
    BY <1>11 DEF ApplySave, RowAccepts, StatusAfter
  <2>4. LockInv'
    BY <1>11 DEF ApplySave, RowAccepts, StatusAfter
  <2>5. KeyInv'
    BY <1>11 DEF ApplySave, RowAccepts, StatusAfter
  <2> QED BY <2>1, <2>2, <2>3, <2>4, <2>5
<1>12. ASSUME NEW w \in Workers, Raise(w) PROVE IInv'
  <2>1. TypeOK'
    BY <1>12 DEF Raise
  <2>2. OneClaimPerAttempt'
    BY <1>12 DEF Raise
  <2>3. ConclusiveIffCompleted'
    BY <1>12 DEF Raise
  <2>4. LockInv'
    BY <1>12 DEF Raise
  <2>5. KeyInv'
    BY <1>12 DEF Raise
  <2> QED BY <2>1, <2>2, <2>3, <2>4, <2>5
<1>13. ASSUME NEW w \in Workers, RecordFailure(w) PROVE IInv'
  <2>1. CASE FailureIgnored(failure[w])
    <3>1. /\ pc[w] = "failed" /\ pc' \in {[pc EXCEPT ![w] = "review"], [pc EXCEPT ![w] = "idle"]}
          /\ failure' = [failure EXCEPT ![w] = "error"]
          /\ UNCHANGED <<work, history, key, answer, world, graphLock>>
      BY <1>13, <2>1 DEF RecordFailure
    <3>2. TypeOK'
      BY <3>1
    <3>3. OneClaimPerAttempt' /\ ConclusiveIffCompleted'
      BY <3>1
    <3>4. LockInv' /\ KeyInv'
      BY <3>1
    <3> QED BY <3>2, <3>3, <3>4
  <2>2. CASE ~FailureIgnored(failure[w])
    <3>1. /\ pc[w] = "failed" /\ pc' \in {[pc EXCEPT ![w] = "review"], [pc EXCEPT ![w] = "idle"]}
          /\ status \notin Terminal /\ status' \in {"canceled", "waiting"}
          /\ token' = 0 /\ due' = FALSE /\ UNCHANGED attempts
          /\ failure' = [failure EXCEPT ![w] = "error"]
          /\ UNCHANGED <<history, key, answer, world, graphLock>>
      BY <1>13, <2>2 DEF RecordFailure, FailureIgnored
    <3>2. TypeOK'
      <4>1. due' \in BOOLEAN
        BY <3>1, Zenon
      <4>2. pc' \in [Workers -> {"idle", "start", "claim", "claimSave", "refresh", "query",
                                "apply", "applySave", "failed", "review"}]
        BY <3>1
      <4> QED BY <3>1, <4>1, <4>2
    <3>3. OneClaimPerAttempt'
      BY <3>1
    <3>4. ConclusiveIffCompleted'
      BY <3>1
    <3>5. LockInv' /\ KeyInv'
      BY <3>1
    <3> QED BY <3>2, <3>3, <3>4, <3>5
  <2> QED BY <2>1, <2>2
<1>14. ASSUME NEW w \in Workers, OpenReview(w) PROVE IInv'
  <2>1. TypeOK'
    BY <1>14 DEF OpenReview
  <2>2. OneClaimPerAttempt'
    BY <1>14 DEF OpenReview
  <2>3. ConclusiveIffCompleted'
    BY <1>14 DEF OpenReview
  <2>4. LockInv'
    BY <1>14 DEF OpenReview
  <2>5. KeyInv'
    BY <1>14 DEF OpenReview
  <2> QED BY <2>1, <2>2, <2>3, <2>4, <2>5
<1>15. ASSUME NEW w \in Workers, Crash(w) PROVE IInv'
  BY <1>15 DEF Crash
<1>16. ASSUME NEW k \in Keys, LeaseExpires(k) PROVE IInv'
  BY <1>16 DEF LeaseExpires
<1>17. CASE BecomesDue
  BY <1>17 DEF BecomesDue
<1>18. CASE PaymentCloses
  BY <1>18 DEF PaymentCloses
<1>19. CASE UNCHANGED vars
  BY <1>19 DEF vars
<1> QED
  BY <1>1, <1>2, <1>3, <1>4, <1>5, <1>6, <1>7, <1>8, <1>9, <1>10, <1>11, <1>12,
     <1>13, <1>14, <1>15, <1>16, <1>17, <1>18, <1>19 DEF Next, Step, Select

\* Every reachable state satisfies the inductive invariant.
THEOREM Invariant == Spec => []IInv
  BY InitIInv, NextIInv, PTL DEF Spec

\* Type correctness of the work row, its history and the processes.
THEOREM TypeCorrect == Spec => []TypeOK
<1>1. IInv => TypeOK
  BY DEF IInv
<1> QED BY <1>1, Invariant, PTL

\* Attempts and immutable claims never drift apart.
THEOREM AttemptsAreClaims == Spec => []OneClaimPerAttempt
<1>1. IInv => OneClaimPerAttempt
  BY DEF IInv
<1> QED BY <1>1, Invariant, PTL

\* Completion and the conclusive observation are committed together.
THEOREM CompletionIsConclusive == Spec => []ConclusiveIffCompleted
<1>1. IInv => ConclusiveIffCompleted
  BY DEF IInv
<1> QED BY <1>1, Invariant, PTL

-----------------------------------------------------------------------------

\* Why work is given up: only a terminal payment classifies a failure as
\* blocked, and a payment that is terminal stays so.
BlockedInv == \A w \in Workers : failure[w] = "blocked" => closed

GivenUpInv == BlockedInv /\ CanceledOnlyWhenExhausted /\ CanceledIsReviewed

LEMMA NextGivenUp == IInv /\ GivenUpInv /\ [Next]_vars => GivenUpInv'
<1> USE MaxAttemptsAssumption, BoundsAssumption, NoWorkerAssumption
<1> SUFFICES ASSUME IInv, GivenUpInv, [Next]_vars PROVE GivenUpInv'
  OBVIOUS
<1> USE DEF IInv, TypeOK, GivenUpInv, BlockedInv, CanceledOnlyWhenExhausted, CanceledIsReviewed,
            work, history, locals, world, Goto, Fail, DropAnswer, DropFailure
<1>1. ASSUME NEW w \in Workers, Select(w) PROVE GivenUpInv'
  BY <1>1 DEF Select, SelectDue, RunOne, Retry
<1>2. ASSUME NEW w \in Workers, Start(w) \/ ClaimRead(w) \/ Refresh(w) PROVE GivenUpInv'
  <2>1. \A v \in Workers : pc[v] = "review" => pc'[v] = "review"
    BY <1>2 DEF Start, ClaimRead, Refresh
  <2>2. UNCHANGED <<work, history, world>>
    BY <1>2 DEF Start, ClaimRead, Refresh
  <2>3. BlockedInv'
    BY <1>2 DEF Start, ClaimRead, Refresh
  <2> QED BY <2>1, <2>2, <2>3
<1>3. ASSUME NEW w \in Workers, ClaimSave(w) PROVE GivenUpInv'
  <2>1. CASE RowAccepts
    BY <1>3, <2>1 DEF ClaimSave
  <2>2. CASE ~RowAccepts
    BY <1>3, <2>2 DEF ClaimSave
  <2> QED BY <2>1, <2>2
<1>4. ASSUME NEW w \in Workers, QueryReplay(w) \/ Query(w) PROVE GivenUpInv'
  BY <1>4 DEF QueryReplay, Query
<1>5. ASSUME NEW w \in Workers, ApplyRead(w) PROVE GivenUpInv'
  <2>1. \A v \in Workers : pc[v] = "review" => pc'[v] = "review"
    BY <1>5 DEF ApplyRead
  <2>2. UNCHANGED <<work, history, world>>
    BY <1>5 DEF ApplyRead
  <2>3. BlockedInv'
    BY <1>5 DEF ApplyRead
  <2> QED BY <2>1, <2>2, <2>3
<1>6. ASSUME NEW w \in Workers, ApplySave(w) PROVE GivenUpInv'
  <2>1. CASE RowAccepts
    BY <1>6, <2>1 DEF ApplySave, StatusAfter
  <2>2. CASE ~RowAccepts
    BY <1>6, <2>2 DEF ApplySave
  <2> QED BY <2>1, <2>2
<1>7. ASSUME NEW w \in Workers, Raise(w) PROVE GivenUpInv'
  BY <1>7 DEF Raise
<1>8. ASSUME NEW w \in Workers, RecordFailure(w) PROVE GivenUpInv'
  <2>1. BlockedInv'
    BY <1>8 DEF RecordFailure
  <2>2. CASE ~FailureIgnored(failure[w]) /\ Exhausted(failure[w])
    <3>1. failure[w] = "blocked" \/ attempts = MaxAttempts
      BY <2>2 DEF Exhausted
    <3>2. pc'[w] = "review"
      BY <1>8, <2>2 DEF RecordFailure, Escalates
    <3>3. UNCHANGED <<attempts, closed>>
      BY <1>8, <2>2 DEF RecordFailure
    <3> QED BY <2>1, <3>1, <3>2, <3>3
  <2>3. CASE ~(~FailureIgnored(failure[w]) /\ Exhausted(failure[w]))
    <3>1. status' = "canceled" => status = "canceled"
      BY <1>8, <2>3 DEF RecordFailure
    <3>2. \A v \in Workers : pc[v] = "review" => pc'[v] = "review"
      BY <1>8 DEF RecordFailure
    <3>3. UNCHANGED <<attempts, history, world>>
      BY <1>8, <2>3 DEF RecordFailure
    <3> QED BY <2>1, <3>1, <3>2, <3>3
  <2> QED BY <2>2, <2>3
<1>9. ASSUME NEW w \in Workers, OpenReview(w) PROVE GivenUpInv'
  BY <1>9 DEF OpenReview
<1>10. ASSUME NEW w \in Workers, Crash(w) PROVE GivenUpInv'
  BY <1>10 DEF Crash
<1>11. ASSUME \/ \E k \in Keys : LeaseExpires(k)
              \/ BecomesDue \/ PaymentCloses \/ UNCHANGED vars
       PROVE GivenUpInv'
  BY <1>11 DEF LeaseExpires, BecomesDue, PaymentCloses, vars
<1> QED
  BY <1>1, <1>2, <1>3, <1>4, <1>5, <1>6, <1>7, <1>8, <1>9, <1>10, <1>11 DEF Next, Step

THEOREM GivenUpInvariant == Spec => []GivenUpInv
<1>1. Init => GivenUpInv
  BY DEF Init, GivenUpInv, BlockedInv, CanceledOnlyWhenExhausted, CanceledIsReviewed
<1> QED BY <1>1, NextGivenUp, Invariant, PTL DEF Spec

\* Work that still had attempts is never given up on an open payment.
THEOREM GivenUpIsExhausted == Spec => []CanceledOnlyWhenExhausted
<1>1. GivenUpInv => CanceledOnlyWhenExhausted
  BY DEF GivenUpInv
<1> QED BY <1>1, GivenUpInvariant, PTL

\* Whichever process gives the work up, and however many others fail on it at
\* the same time, it is under review or about to be, unless a process died.
THEOREM GivenUpIsReviewed == Spec => []CanceledIsReviewed
<1>1. GivenUpInv => CanceledIsReviewed
  BY DEF GivenUpInv
<1> QED BY <1>1, GivenUpInvariant, PTL

\* Every end of a verification work is justified: completed by conclusive
\* evidence, or given up with its budget spent and under a review.
THEOREM EndsJustified == Spec => []EndIsJustified
<1>1. ConclusiveIffCompleted /\ CanceledOnlyWhenExhausted /\ CanceledIsReviewed => EndIsJustified
  BY DEF EndIsJustified
<1>2. QED BY CompletionIsConclusive, GivenUpIsExhausted, GivenUpIsReviewed, <1>1, PTL

\* No observation after the end, and none that settles without ending it: the
\* implementation proof of the abstract promise, one step of the code at a time.
THEOREM Implementation == Spec => ImplementsObservedWork
<1> USE MaxAttemptsAssumption, BoundsAssumption, NoWorkerAssumption
<1>1. Init => Promise!Init
  BY DEF Init, Promise!Init, Outcome, Observed
<1>2. IInv /\ [Next]_vars => [Promise!Next]_(Promise!vars)
  <2> SUFFICES ASSUME IInv, [Next]_vars PROVE Promise!Next \/ UNCHANGED Promise!vars
    OBVIOUS
  <2> USE DEF IInv, TypeOK, work, history, locals, world
  <2>1. (status' = status /\ evidence' = evidence) => UNCHANGED Promise!vars
    BY DEF Promise!vars, Outcome, Observed
  <2>2. ASSUME NEW w \in Workers, ClaimSave(w) PROVE Promise!Next \/ UNCHANGED Promise!vars
    <3>1. CASE RowAccepts
      <4>1. status \notin Terminal /\ status' = "claimed" /\ evidence' = evidence
        BY <2>2, <3>1 DEF ClaimSave, RowAccepts
      <4> QED BY <4>1 DEF Promise!vars, Outcome, Observed
    <3>2. CASE ~RowAccepts
      BY <2>1, <2>2, <3>2 DEF ClaimSave
    <3> QED BY <3>1, <3>2
  <2>3. ASSUME NEW w \in Workers, ApplySave(w) PROVE Promise!Next \/ UNCHANGED Promise!vars
    <3>1. CASE RowAccepts
      <4>1. /\ status \notin Terminal
            /\ evidence' = [evidence EXCEPT ![key[w]] = answer[w]]
            /\ status' = StatusAfter(answer[w])
        BY <2>3, <3>1 DEF ApplySave, RowAccepts
      <4>2. key[w] \in Keys /\ evidence[key[w]] = "none" /\ answer[w] \in Answers
        BY <2>3 DEF ApplySave, KeyInv
      <4>3. Observed' = Observed \cup {key[w]} /\ key[w] \notin Observed
        BY <4>1, <4>2 DEF Observed
      <4>4. Outcome = "open" /\ Outcome' \in {"open", "resolved"}
        BY <4>1 DEF Outcome, StatusAfter
      <4>5. Promise!Observe(key[w]) \/ Promise!Resolve(key[w])
        BY <4>2, <4>3, <4>4 DEF Promise!Observe, Promise!Resolve
      <4> QED BY <4>2, <4>5 DEF Promise!Next
    <3>2. CASE ~RowAccepts
      BY <2>1, <2>3, <3>2 DEF ApplySave
    <3> QED BY <3>1, <3>2
  <2>4. ASSUME NEW w \in Workers, RecordFailure(w) PROVE Promise!Next \/ UNCHANGED Promise!vars
    <3>1. CASE FailureIgnored(failure[w])
      BY <2>1, <2>4, <3>1 DEF RecordFailure
    <3>2. CASE ~FailureIgnored(failure[w])
      <4>1. status \notin Terminal /\ status' \in {"canceled", "waiting"} /\ evidence' = evidence
        BY <2>4, <3>2 DEF RecordFailure, FailureIgnored
      <4>2. Observed' = Observed /\ Outcome = "open" /\ Outcome' \in {"open", "abandoned"}
        BY <4>1 DEF Observed, Outcome
      <4> QED BY <4>2 DEF Promise!Next, Promise!Abandon, Promise!vars
    <3> QED BY <3>1, <3>2
  <2>5. ASSUME NEW w \in Workers, Select(w) \/ Raise(w) \/ Crash(w)
        PROVE status' = status /\ evidence' = evidence
    BY <2>5 DEF Select, SelectDue, RunOne, Retry, Raise, Crash
  <2>6. ASSUME NEW w \in Workers, \/ Start(w) \/ ClaimRead(w) \/ Refresh(w) \/ QueryReplay(w)
                                  \/ Query(w) \/ ApplyRead(w) \/ OpenReview(w)
        PROVE status' = status /\ evidence' = evidence
    BY <2>6 DEF Start, ClaimRead, Refresh, QueryReplay, Query, ApplyRead, OpenReview
  <2>7. ASSUME \/ \E k \in Keys : LeaseExpires(k)
               \/ BecomesDue \/ PaymentCloses \/ UNCHANGED vars
        PROVE status' = status /\ evidence' = evidence
    BY <2>7 DEF LeaseExpires, BecomesDue, PaymentCloses, vars
  <2> QED
    BY <2>1, <2>2, <2>3, <2>4, <2>5, <2>6, <2>7 DEF Next, Step
<1> QED
  BY <1>1, <1>2, Invariant, PTL DEF Spec, ImplementsObservedWork, Promise!Spec

=============================================================================
