------------------------------ MODULE BookOrders ------------------------------
(***************************************************************************)
(* Orders of printed books: admins, students, the courier's webhook and    *)
(* the reader of receipts act on one row at once.  Nearly every operation  *)
(* reads the order, decides, and writes it in a later statement without    *)
(* looking again; what holds nevertheless is held by the CHECK on          *)
(* rejected rows, the claim of a push, the UNIQUE reports of the courier,  *)
(* and the order of write and look in the reading of a receipt.            *)
(*                                                                         *)
(* Every picture shows one transfer, whose number a reading may find.      *)
(* Notices, addresses and amounts are left out; a receipt may be short.    *)
(***************************************************************************)
EXTENDS Integers, FiniteSets

CONSTANTS
  Slots,    \* requests, and readings of receipts, that are under way at once
  Pictures,
  Plans     \* bounds, [orders, from, ops, payments, requests]: which orders, from
            \* which statuses, how many payments and how many of the operations

VARIABLES
  order, \* book_orders
  seen,  \* what happened to each order
  slot,
  plan   \* a plan, and what is left of its bounds

vars == <<order, seen, slot, plan>>

Ordered == UNION {p.orders : p \in Plans}
Shippable == {"paid", "printing", "returned"}
Live == {"address_only", "shipped", "delivered"} \cup Shippable
Reports == {"with agent", "delivered by agent", "returned by agent"}

\* What each operation asks of the status it reads, and the one it writes.
SubmitPayment == [from |-> {"address_only"}, to |-> "paid"]
MarkPaid == [from |-> {"address_only"}, to |-> "paid"]
MarkPrinting == [from |-> {"paid"}, to |-> "printing"]
MarkShipped == [from |-> Shippable, to |-> "shipped"]
MarkDelivered == [from |-> Shippable \cup {"shipped"}, to |-> "delivered"]
MarkReturned == [from |-> {"shipped"}, to |-> "returned"]
ConfirmReceived == [from |-> {"shipped"}, to |-> "delivered"]
Reject == [from |-> Live, to |-> "rejected"]
Moves == [pay |-> SubmitPayment, settle |-> MarkPaid, print |-> MarkPrinting,
          ship |-> MarkShipped, deliver |-> MarkDelivered, return |-> MarkReturned,
          confirm |-> ConfirmReceived, reject |-> Reject]

NoOrder(status) == [status |-> status, deleted |-> FALSE, held |-> FALSE, sent |-> FALSE,
                    pic |-> "none", ref |-> FALSE]
Unseen == [accepted |-> 0, returns |-> 0, lost |-> 0, held |-> FALSE, away |-> FALSE,
           unread |-> FALSE, reports |-> {}]
NoJob == [pc |-> "idle", op |-> "none", order |-> CHOOSE o \in Ordered : TRUE,
          to |-> "none", pic |-> "none", ref |-> FALSE]

TypeOK ==
  /\ \A o \in Ordered :
       /\ order[o].status \in Live \cup {"rejected"} /\ order[o].pic \in Pictures \cup {"none"}
       /\ seen[o].reports \subseteq Reports /\ seen[o].accepted \in Nat
  /\ \A j \in Slots : slot[j].pc \in {"idle", "read", "receipt", "write", "report", "claim",
                                      "call", "reading", "look", "hold"}

-----------------------------------------------------------------------------
Init ==
  /\ plan \in Plans
  /\ \E status \in [plan.orders -> plan.from] :
       order = [o \in Ordered |-> NoOrder(IF o \in plan.orders THEN status[o] ELSE "delivered")]
  /\ seen = [o \in Ordered |-> Unseen]
  /\ slot = [j \in Slots |-> NoJob]

MayClear(o) == ~order[o].deleted /\ order[o].held
MayDelete(o) == ~order[o].deleted
MayRestore(o) == order[o].deleted
Free(o) == ~order[o].deleted /\ ~order[o].held
MayPrintMany(o) == Free(o) /\ order[o].status = "paid"
MayShipMany(o) == Free(o) /\ order[o].status \in Shippable
MayPush(o) == Free(o) /\ ~order[o].sent /\ order[o].status \in Shippable \cup {"shipped"}

\* What the first read of an operation must find.
Allows(op, o) ==
  CASE op = "restore" -> MayRestore(o)
    [] op = "delete" -> MayDelete(o)
    [] op = "clear" -> MayClear(o)
    [] op = "print many" -> MayPrintMany(o)
    [] op = "ship many" -> MayShipMany(o)
    [] op = "push" -> MayPush(o)
    [] op \in DOMAIN Moves -> ~order[o].deleted /\ order[o].status \in Moves[op].from
    [] OTHER -> TRUE

\* Where a report of the courier takes the order that it reads.
ReportTo(op, o) ==
  LET r == order[o]
  IN CASE ~r.deleted /\ op = "with agent" /\ r.status \in Shippable -> "shipped"
       [] ~r.deleted /\ op = "delivered by agent" /\ r.status \in Shippable \cup {"shipped"} ->
            "delivered"
       [] ~r.deleted /\ op = "returned by agent" /\ r.status = "shipped" -> "returned"
       [] OTHER -> "none"

\* A batch of prints calls markPrinting, which reads the order once more.
AfterRead(op, o, pic) ==
  LET job == [NoJob EXCEPT !.op = op, !.order = o, !.pic = pic]
  IN CASE op = "pay" -> [job EXCEPT !.pc = "receipt", !.to = "paid"]
       [] op = "push" -> [job EXCEPT !.pc = "claim"]
       [] op = "print many" -> [job EXCEPT !.pc = "read", !.op = "print"]
       [] op = "ship many" -> [job EXCEPT !.pc = "write", !.to = "shipped"]
       [] op \in Reports -> [job EXCEPT !.pc = "report", !.to = ReportTo(op, o)]
       [] op \in DOMAIN Moves \ {"pay"} -> [job EXCEPT !.pc = "write", !.to = Moves[op].to]
       [] OTHER -> [job EXCEPT !.pc = "write"]

\* A request reads the order it is about; any slot will do.
Idle == {j \in Slots : slot[j].pc = "idle"}
Begin(op, o) ==
  /\ Idle # {} /\ Allows(op, o)
  /\ IF op = "pay" THEN plan.payments > 0 /\ plan' = [plan EXCEPT !.payments = @ - 1]
     ELSE plan.requests > 0 /\ op \in plan.ops /\ plan' = [plan EXCEPT !.requests = @ - 1]
  /\ \E pic \in IF op = "pay" THEN Pictures ELSE {"none"} :
       slot' = [slot EXCEPT ![CHOOSE j \in Idle : TRUE] = AfterRead(op, o, pic)]
  /\ UNCHANGED <<order, seen>>

Read(j) ==
  /\ slot[j].pc = "read"
  /\ slot' = [slot EXCEPT ![j] = IF Allows(slot[j].op, slot[j].order)
                                 THEN AfterRead(slot[j].op, slot[j].order, "none") ELSE NoJob]
  /\ UNCHANGED <<order, seen, plan>>

\* assertReceiptNotAlreadySpent: the same bytes on any other order, or a picture
\* that looks alike on one of the same phone. A picture that storage does not
\* give back has no fingerprint and is not checked.
Receipt(j) ==
  LET others == {order[p].pic : p \in {q \in plan.orders \ {slot[j].order} :
                    ~order[q].deleted /\ order[q].status # "rejected"}} \ {"none"}
  IN /\ slot[j].pc = "receipt"
     /\ \/ slot[j].pic \notin others /\ slot' = [slot EXCEPT ![j].pc = "write"]
        \/ others # {} /\ slot' = [slot EXCEPT ![j] = NoJob]
        \/ slot' = [slot EXCEPT ![j].pc = "write", ![j].pic = "none"]
     /\ UNCHANGED <<order, seen, plan>>

\* Mutant: the table has no such CHECK.
RefusedNever(o, to) == FALSE

\* book_orders_rejected_status_matches: no status but rejected beside rejected_at.
Refused(o, to) == order[o].status = "rejected" /\ to \notin {"rejected", "none"}

\* A parcel that came back is a new shipment: its push is forgotten.
Moved(o, to) ==
  [order[o] EXCEPT !.status = IF to = "none" THEN @ ELSE to, !.sent = @ /\ to # "returned"]

\* The UPDATE by id, whatever the row has become.
Write(j) ==
  LET o == slot[j].order
      op == slot[j].op
      to == slot[j].to
  IN /\ slot[j].pc = "write"
     /\ IF Refused(o, to) THEN slot' = [slot EXCEPT ![j] = NoJob] /\ UNCHANGED <<order, seen>>
        ELSE /\ order' = [order EXCEPT ![o] =
                  [Moved(o, to) EXCEPT !.deleted = IF op = "delete" THEN TRUE ELSE @ /\ op # "restore",
                                       !.held = @ /\ op # "clear",
                                       !.pic = IF op = "pay" THEN slot[j].pic ELSE @]]
             /\ seen' = [seen EXCEPT ![o].away = @ \/ op = "delete",
                                     ![o].returns = IF op = "return" THEN @ + 1 ELSE @]
             /\ slot' = [slot EXCEPT ![j] =
                  IF op = "pay" THEN [NoJob EXCEPT !.pc = "reading", !.order = o] ELSE NoJob]
     /\ UNCHANGED plan

\* The webhook: the report is inserted, UNIQUE by its fingerprint, with the move.
Report(j) ==
  LET o == slot[j].order
      op == slot[j].op
  IN /\ slot[j].pc = "report"
     /\ IF op \in seen[o].reports \/ Refused(o, slot[j].to) THEN UNCHANGED <<order, seen>>
        ELSE /\ order' = [order EXCEPT ![o] = Moved(o, slot[j].to)]
             /\ seen' = [seen EXCEPT ![o].reports = @ \cup {op},
                                     ![o].returns = IF slot[j].to = "returned" THEN @ + 1 ELSE @]
     /\ slot' = [slot EXCEPT ![j] = NoJob]
     /\ UNCHANGED plan

\* Mutant: the claim does not ask whether the row is claimed.
ClaimAgain(j) ==
  /\ slot[j].pc = "claim"
  /\ order' = [order EXCEPT ![slot[j].order].sent = TRUE]
  /\ slot' = [slot EXCEPT ![j].pc = "call"]
  /\ UNCHANGED <<seen, plan>>

\* sendOne: UPDATE ... WHERE courier_sent_at IS NULL.
Claim(j) ==
  LET o == slot[j].order
  IN /\ slot[j].pc = "claim"
     /\ IF order[o].sent \/ order[o].deleted
        THEN slot' = [slot EXCEPT ![j] = NoJob] /\ UNCHANGED order
        ELSE /\ order' = [order EXCEPT ![o].sent = TRUE]
             /\ slot' = [slot EXCEPT ![j].pc = "call"]
     /\ UNCHANGED <<seen, plan>>

\* The courier accepts, and the batch ships the order; or refuses, and the claim
\* is released; or accepts after the call has timed out, which is a refusal here.
Call(j) ==
  LET o == slot[j].order
  IN /\ slot[j].pc = "call"
     /\ \/ /\ slot' = [slot EXCEPT ![j].pc = "read", ![j].op = "ship many"]
           /\ seen' = [seen EXCEPT ![o].accepted = @ + 1]
           /\ UNCHANGED order
        \/ /\ \/ UNCHANGED seen
              \/ seen' = [seen EXCEPT ![o].accepted = @ + 1, ![o].lost = @ + 1]
           /\ order' = [order EXCEPT ![o].sent = FALSE]
           /\ slot' = [slot EXCEPT ![j] = NoJob]
     /\ UNCHANGED plan

\* readReceiptAfterwards: what was read is written before the look for a twin.
Reading(j) ==
  LET o == slot[j].order
  IN /\ slot[j].pc = "reading"
     /\ \/ /\ \E ref \in BOOLEAN :
                /\ order' = [order EXCEPT ![o].ref = ref]
                /\ slot' = [slot EXCEPT ![j].pc = "look", ![j].ref = ref]
           /\ UNCHANGED seen
        \/ slot' = [slot EXCEPT ![j] = NoJob] /\ UNCHANGED <<order, seen>>
     /\ UNCHANGED plan

\* Mutant: the pictures are compared, not the number of the transfer.
TwinPicture(o) ==
  \E p \in plan.orders \ {o} : ~order[p].deleted /\ order[p].status # "rejected"
                                /\ order[p].pic = order[o].pic

Twin(o) ==
  \E p \in plan.orders \ {o} : ~order[p].deleted /\ order[p].status # "rejected" /\ order[p].ref

Look(j) ==
  LET o == slot[j].order
  IN /\ slot[j].pc = "look"
     /\ \E short \in BOOLEAN :
          slot' = [slot EXCEPT ![j] =
            IF short \/ (slot[j].ref /\ Twin(o)) THEN [@ EXCEPT !.pc = "hold"] ELSE NoJob]
     /\ UNCHANGED <<order, seen, plan>>

Hold(j) ==
  LET o == slot[j].order
  IN /\ slot[j].pc = "hold"
     /\ order' = [order EXCEPT ![o].held = TRUE]
     /\ seen' = [seen EXCEPT ![o].held = TRUE]
     /\ slot' = [slot EXCEPT ![j] = NoJob]
     /\ UNCHANGED plan

\* The process dies, or the database does not answer.
GiveUp(j) ==
  /\ slot[j].pc # "idle"
  /\ slot' = [slot EXCEPT ![j] = NoJob]
  /\ seen' = [seen EXCEPT ![slot[j].order].unread = @ \/ slot[j].pc \in {"look", "hold"}]
  /\ UNCHANGED <<order, plan>>

Next ==
  \/ \E op \in plan.ops \cup {"pay"}, o \in plan.orders : Begin(op, o)
  \/ \E j \in Slots : \/ Read(j) \/ Receipt(j) \/ Write(j) \/ Report(j) \/ Claim(j) \/ Call(j)
                      \/ Reading(j) \/ Look(j) \/ Hold(j) \/ GiveUp(j)

Spec == Init /\ [][Next]_vars
-----------------------------------------------------------------------------
\* An order that was rejected stays rejected, even under a payment, a parcel or
\* a report of the courier that read it before. (reject; the CHECK's migration:
\* the two halves "cannot disagree".)
RejectedIsFinal ==
  [][\A o \in Ordered : order[o].status = "rejected" => order'[o].status = "rejected"]_vars

\* The courier accepts an order once, and once more for each return that was
\* recorded, whoever presses at the same time and whatever a refusal releases;
\* an acceptance whose answer was lost is the exception. (sendMany: "the
\* double-push guard is a CLAIM, not a check".)
PushedOncePerReturn ==
  \A o \in Ordered : seen[o].accepted <= 1 + seen[o].returns + seen[o].lost

\* Of two orders that were paid with one transfer, one has been held when both
\* readings have ended, though neither reading locks anything, unless one was
\* put away meanwhile or a reading died. (readReceiptAfterwards.)
Settled(o) ==
  /\ order[o].ref /\ order[o].status # "rejected" /\ ~seen[o].away /\ ~seen[o].unread
  /\ \A j \in Slots : slot[j].order = o => slot[j].pc \notin {"look", "hold"}
DuplicateIsHeld ==
  \A o, p \in plan.orders : o # p /\ Settled(o) /\ Settled(p) => seen[o].held \/ seen[p].held
=============================================================================
