------------------------------- MODULE Claims --------------------------------
(***************************************************************************)
(* The payments desk.  A student files a claim (a screenshot of a          *)
(* transfer) for a plan of a course; an admin approves or rejects it, or   *)
(* the bank's notice of the transfer approves it unattended; a purchase    *)
(* from the wallet and an admin's manual subscription write an approved    *)
(* claim of their own; a cancellation revokes the grant a claim opened.    *)
(* A claim may spend a use of a coupon, which a rejection gives back.      *)
(*                                                                         *)
(* Requests read before their transactions (READ COMMITTED) and act on     *)
(* what they read.  Of the money only the row lock of the wallet is here:  *)
(* module Wallet has the debit.  The enrollment, written with every grant, *)
(* is in module UnlockCodes.                                               *)
(***************************************************************************)
EXTENDS Integers, FiniteSets

CONSTANTS
  Requests,   \* concurrent HTTP requests and webhook deliveries
  Students,
  Dated,      \* plans sold by time: one live grant, extended by each payment
  Undated,    \* terms: a grant each, never extended
  Ids,        \* ids of payment_submissions
  Grants,     \* ids of access_grants
  Transfers,  \* incoming_transfers
  MaxUses,    \* coupons.max_uses
  None        \* no student, no grant, no claim, no holder

Plans == Dated \cup Undated

ASSUME PlansApart == Dated \cap Undated = {}
ASSUME UsesType == MaxUses \in Nat
ASSUME NoneIsNew == None \notin Requests \cup Students \cup Plans \cup Ids \cup Grants

VARIABLES
  claim,    \* payment_submissions, with the redemption of each
  grant,    \* access_grants of source purchase
  matched,  \* incoming_transfers.matched_submission_id
  uses,     \* coupons.uses_count
  lock,     \* which request holds the lock of a row
  pc, job

tables == <<claim, grant, matched, uses>>
vars == <<tables, lock, pc, job>>

\* use: coupon_redemptions of the claim, "released" once released_at is set.
\* by: what approved it; a wallet purchase has wallet_transaction_id.
Claim == [status : {"none", "pending", "approved", "rejected"},
          user : Students \cup {None}, plan : Plans \cup {None},
          use : {"none", "held", "released"}, grant : Grants \cup {None},
          by : {"none", "review", "transfer", "wallet", "manual"}]
NoClaim == [status |-> "none", user |-> None, plan |-> None, use |-> "none",
            grant |-> None, by |-> "none"]

Grant == [state : {"none", "live", "revoked"}, user : Students \cup {None},
          plan : Plans \cup {None}]
NoGrantRow == [state |-> "none", user |-> None, plan |-> None]

ClaimRow(s)    == <<"claim", s>>
GrantRow(g)    == <<"grant", g>>
TransferRow(t) == <<"transfer", t>>
MatchEntry(s)  == <<"match", s>>     \* s in the UNIQUE index of matched_submission_id
WalletRow(u)   == <<"wallet", u>>
CouponRow      == <<"coupon", None>>
Rows == {ClaimRow(s) : s \in Ids} \cup {GrantRow(g) : g \in Grants}
          \cup {TransferRow(t) : t \in Transfers} \cup {MatchEntry(s) : s \in Ids}
          \cup {WalletRow(u) : u \in Students} \cup {CouponRow}

Free(r)    == lock[r] = None
Take(q, r) == lock' = [lock EXCEPT ![r] = q]

Live(u, p) == {g \in Grants : grant[g] = [state |-> "live", user |-> u, plan |-> p]}

Ops   == {"submit", "approve", "reject", "transfer", "purchase", "manual"}
Steps == {"coupon", "debit", "read", "match", "guard", "write", "decide", "release", "commit"}

\* seen: the live grant that was read, to be extended. target: the grant the
\* transaction writes, None for a new one.
Job == [op : Ops \cup {"none"}, id : Ids \cup {None}, user : Students \cup {None},
        plan : Plans \cup {None}, coupon : BOOLEAN, transfer : Transfers \cup {None},
        seen : Grants \cup {None}, target : Grants \cup {None}]
NoJob == [op |-> "none", id |-> None, user |-> None, plan |-> None, coupon |-> FALSE,
          transfer |-> None, seen |-> None, target |-> None]

Init ==
  /\ claim = [s \in Ids |-> NoClaim]
  /\ grant = [g \in Grants |-> NoGrantRow]
  /\ matched = [t \in Transfers |-> None]
  /\ uses = 0
  /\ lock = [r \in Rows |-> None]
  /\ pc = [q \in Requests |-> "idle"]
  /\ job = [q \in Requests |-> NoJob]

-----------------------------------------------------------------------------
(***************************************************************************)
(* Control.  A request that is refused, or whose transaction rolls back,   *)
(* has changed nothing and is idle again.                                  *)
(***************************************************************************)

Begin(q, j, s) ==
  /\ pc[q] = "idle"
  /\ pc' = [pc EXCEPT ![q] = s]
  /\ job' = [job EXCEPT ![q] = j]
  /\ UNCHANGED <<tables, lock>>

Goto(q, s) == pc' = [pc EXCEPT ![q] = s]

Close(q) ==
  /\ lock' = [r \in Rows |-> IF lock[r] = q THEN None ELSE lock[r]]
  /\ pc' = [pc EXCEPT ![q] = "idle"]
  /\ job' = [job EXCEPT ![q] = NoJob]

RollBack(q) == Close(q) /\ UNCHANGED tables

-----------------------------------------------------------------------------
(***************************************************************************)
(* What each request reads before its transaction.                         *)
(***************************************************************************)

\* resolvePurchase: one outstanding claim of a student for the course.
Outstanding(u) == \E s \in Ids : claim[s].status = "pending" /\ claim[s].user = u

StartSubmit(q, u, p, c) ==
  /\ ~Outstanding(u)
  /\ Begin(q, [NoJob EXCEPT !.op = "submit", !.user = u, !.plan = p, !.coupon = c],
           IF c THEN "coupon" ELSE "commit")

StartPurchase(q, u, p, c) ==
  /\ ~Outstanding(u)
  /\ Begin(q, [NoJob EXCEPT !.op = "purchase", !.user = u, !.plan = p, !.coupon = c],
           IF c THEN "coupon" ELSE "debit")

\* resolvePurchaseExpiry finds the first live grant of a plan sold by time.
Seen(u, p) == IF p \in Dated /\ Live(u, p) # {} THEN Live(u, p) ELSE {None}

StartManual(q, u, p) ==
  \E g \in Seen(u, p) :
    Begin(q, [NoJob EXCEPT !.op = "manual", !.user = u, !.plan = p, !.seen = g], "write")

StartApprove(q, s) ==
  /\ claim[s].status = "pending"
  /\ \E g \in Seen(claim[s].user, claim[s].plan) :
       Begin(q, [NoJob EXCEPT !.op = "approve", !.id = s, !.user = claim[s].user,
                              !.plan = claim[s].plan, !.seen = g], "write")

StartReject(q, s) ==
  /\ claim[s].status = "pending"
  /\ Begin(q, [NoJob EXCEPT !.op = "reject", !.id = s, !.user = claim[s].user], "decide")

\* approveFromTransfer, for a transfer that settle matched to the claim. The
\* notice may be delivered again, and settle may try it against other claims.
StartTransfer(q, s, t) ==
  /\ claim[s].status = "pending"
  /\ \E g \in Seen(claim[s].user, claim[s].plan) :
       Begin(q, [NoJob EXCEPT !.op = "transfer", !.id = s, !.user = claim[s].user,
                              !.plan = claim[s].plan, !.transfer = t, !.seen = g], "match")

-----------------------------------------------------------------------------
(***************************************************************************)
(* The statements of a transaction.                                        *)
(***************************************************************************)

\* (Mutant: the ceiling is passed by one.)
UsesLeftAtCeiling == uses <= MaxUses
UsesLeft == uses < MaxUses

\* claimCoupon's conditional update, which takes the coupon's row lock. A
\* coupon that is refused for another reason is Abort's.
ClaimCoupon(q) ==
  /\ pc[q] = "coupon"
  /\ Free(CouponRow)
  /\ IF UsesLeft
     THEN /\ Take(q, CouponRow)
          /\ Goto(q, IF job[q].op = "submit" THEN "commit" ELSE "debit")
          /\ UNCHANGED <<tables, job>>
     ELSE RollBack(q)

\* debitWallet, which takes the wallet's row lock or refuses.
Debit(q) ==
  /\ pc[q] = "debit"
  /\ Free(WalletRow(job[q].user))
  /\ \/ /\ Take(q, WalletRow(job[q].user))
        /\ Goto(q, "read")
        /\ UNCHANGED <<tables, job>>
     \/ RollBack(q)

\* (Mutant: nothing is asked under the lock.)
NeverOwned(q) == FALSE
Owned(q) == job[q].plan \in Undated /\ Live(job[q].user, job[q].plan) # {}

\* Under that lock: what the student already holds.
Recheck(q) ==
  /\ pc[q] = "read"
  /\ IF Owned(q)
     THEN RollBack(q)
     ELSE /\ \E g \in Seen(job[q].user, job[q].plan) :
               job' = [job EXCEPT ![q].seen = g]
          /\ Goto(q, "write")
          /\ UNCHANGED <<tables, lock>>

\* The transfer is claimed where matched_submission_id is null, under its
\* UNIQUE index. (Mutant: without the condition.)
UnmatchedClaim(t, s) == \A x \in Transfers : matched[x] # s
Unmatched(t, s) == matched[t] = None /\ \A x \in Transfers : matched[x] # s

Match(q) ==
  LET t == job[q].transfer
      s == job[q].id
  IN  /\ pc[q] = "match"
      /\ Free(TransferRow(t)) /\ Free(MatchEntry(s))
      /\ IF Unmatched(t, s)
         THEN /\ lock' = [lock EXCEPT ![TransferRow(t)] = q, ![MatchEntry(s)] = q]
              /\ Goto(q, "guard")
              /\ UNCHANGED <<tables, job>>
         ELSE RollBack(q)

\* The claim is approved where it is still pending.
Guard(q) ==
  /\ pc[q] = "guard"
  /\ Free(ClaimRow(job[q].id))
  /\ IF claim[job[q].id].status = "pending"
     THEN /\ Take(q, ClaimRow(job[q].id))
          /\ Goto(q, "write")
          /\ UNCHANGED <<tables, job>>
     ELSE RollBack(q)

\* writePurchaseGrant extends the grant that was read, by its id, or makes
\* one; writeTermGrant looks for a live one now.
WriteGrant(q) ==
  LET u == job[q].user
      p == job[q].plan
  IN  /\ pc[q] = "write"
      /\ IF job[q].seen # None
         THEN /\ Free(GrantRow(job[q].seen))
              /\ Take(q, GrantRow(job[q].seen))
              /\ job' = [job EXCEPT ![q].target = job[q].seen]
         ELSE /\ \E g \in (IF p \in Undated /\ Live(u, p) # {} THEN Live(u, p) ELSE {None}) :
                   job' = [job EXCEPT ![q].target = g]
              /\ UNCHANGED lock
      /\ Goto(q, IF job[q].op = "approve" THEN "decide" ELSE "commit")
      /\ UNCHANGED tables

\* approve and reject update the claim by its id.
Decide(q) ==
  /\ pc[q] = "decide"
  /\ Free(ClaimRow(job[q].id))
  /\ Take(q, ClaimRow(job[q].id))
  /\ Goto(q, IF job[q].op = "approve" THEN "commit" ELSE "release")
  /\ UNCHANGED <<tables, job>>

\* releaseCouponRedemption gives back a use that nobody gave back before.
\* (Mutant: it asks only whether there is a redemption.)
ReleasesAny(q) == claim[job[q].id].use # "none"
Releases(q) == claim[job[q].id].use = "held"

LockUse(q) ==
  /\ pc[q] = "release"
  /\ IF Releases(q)
     THEN Free(CouponRow) /\ Take(q, CouponRow)
     ELSE UNCHANGED lock
  /\ Goto(q, "commit")
  /\ UNCHANGED <<tables, job>>

-----------------------------------------------------------------------------
(***************************************************************************)
(* Commit.                                                                 *)
(***************************************************************************)

\* The grant a committing transaction leaves behind: g is the one it
\* extended or reused, or a new row.
GrantWritten(q, g) ==
  IF job[q].target # None
  THEN g = job[q].target /\ UNCHANGED grant
  ELSE /\ grant[g].state = "none"
       /\ grant' = [grant EXCEPT ![g] = [state |-> "live", user |-> job[q].user,
                                         plan |-> job[q].plan]]

\* A claim nobody has to review: it is created approved.
CreateApproved(q, s, g, by) ==
  claim' = [claim EXCEPT ![s] = [status |-> "approved", user |-> job[q].user,
                                 plan |-> job[q].plan, grant |-> g, by |-> by,
                                 use |-> IF job[q].coupon THEN "held" ELSE "none"]]

Spend(q) == uses' = IF job[q].coupon THEN uses + 1 ELSE uses

CommitSubmit(q) ==
  /\ job[q].op = "submit"
  /\ \E s \in Ids :
       /\ claim[s].status = "none"
       /\ claim' = [claim EXCEPT ![s] = [NoClaim EXCEPT
                      !.status = "pending", !.user = job[q].user, !.plan = job[q].plan,
                      !.use = IF job[q].coupon THEN "held" ELSE "none"]]
  /\ Spend(q)
  /\ UNCHANGED <<grant, matched>>

CommitSale(q) ==
  /\ job[q].op \in {"purchase", "manual"}
  /\ \E s \in Ids, g \in Grants :
       /\ claim[s].status = "none"
       /\ GrantWritten(q, g)
       /\ CreateApproved(q, s, g, IF job[q].op = "manual" THEN "manual" ELSE "wallet")
  /\ Spend(q)
  /\ UNCHANGED matched

\* What approve and approveFromTransfer write on the claim. (Mutant: the
\* unattended path leaves grantId to somebody else.)
ApprovedUnstamped(q, g) ==
  claim' = [claim EXCEPT ![job[q].id] =
              [@ EXCEPT !.status = "approved",
                        !.by = IF job[q].op = "transfer" THEN "transfer" ELSE "review",
                        !.grant = IF job[q].op = "transfer" THEN @ ELSE g]]
Approved(q, g) ==
  claim' = [claim EXCEPT ![job[q].id] =
              [@ EXCEPT !.status = "approved", !.grant = g,
                        !.by = IF job[q].op = "transfer" THEN "transfer" ELSE "review"]]

CommitApproval(q) ==
  /\ job[q].op \in {"approve", "transfer"}
  /\ \E g \in Grants : GrantWritten(q, g) /\ Approved(q, g)
  /\ matched' = IF job[q].op = "transfer"
                THEN [matched EXCEPT ![job[q].transfer] = job[q].id] ELSE matched
  /\ UNCHANGED uses

CommitRejection(q) ==
  /\ job[q].op = "reject"
  /\ claim' = [claim EXCEPT ![job[q].id] =
                 [@ EXCEPT !.status = "rejected",
                           !.use = IF Releases(q) THEN "released"
                                    ELSE claim[job[q].id].use]]
  /\ uses' = IF Releases(q) THEN uses - 1 ELSE uses
  /\ UNCHANGED <<grant, matched>>

Commit(q) ==
  /\ pc[q] = "commit"
  /\ CommitSubmit(q) \/ CommitSale(q) \/ CommitApproval(q) \/ CommitRejection(q)
  /\ Close(q)

\* The process dies, or the database ends the transaction: approve locks the
\* grant before the claim and approveFromTransfer the claim before the grant,
\* so these two can wait for each other.
Abort(q) == pc[q] \in Steps /\ RollBack(q)

\* FinanceService.cancel and adminCancelSubscription: one update by id.
Cancel(g) ==
  /\ grant[g].state = "live"
  /\ Free(GrantRow(g))
  /\ grant' = [grant EXCEPT ![g].state = "revoked"]
  /\ UNCHANGED <<claim, matched, uses, lock, pc, job>>

\* The bounds of the model are its ids: with none left for what a request
\* creates, it can only roll back.
Start(q) ==
  \/ \E u \in Students, p \in Plans :
       \/ StartManual(q, u, p)
       \/ \E c \in BOOLEAN : StartSubmit(q, u, p, c) \/ StartPurchase(q, u, p, c)
  \/ \E s \in Ids :
       \/ StartApprove(q, s)
       \/ StartReject(q, s)
       \/ \E t \in Transfers : StartTransfer(q, s, t)

Run(q) ==
  \/ ClaimCoupon(q) \/ Debit(q) \/ Recheck(q) \/ Match(q) \/ Guard(q)
  \/ WriteGrant(q) \/ Decide(q) \/ LockUse(q) \/ Commit(q)

Next ==
  \/ \E q \in Requests : Start(q) \/ Run(q) \/ Abort(q)
  \/ \E g \in Grants : Cancel(g)

Spec == Init /\ [][Next]_vars

-----------------------------------------------------------------------------
(***************************************************************************)
(* Properties.                                                             *)
(***************************************************************************)

\* Every column stays in its range; in particular the count of a coupon's uses
\* never passes its ceiling, whoever claims the last one at once, and never
\* falls below zero. (claimCoupon's conditional update.)
TypeOK ==
  /\ claim \in [Ids -> Claim]
  /\ grant \in [Grants -> Grant]
  /\ matched \in [Transfers -> Ids \cup {None}]
  /\ uses \in 0 .. MaxUses
  /\ lock \in [Rows -> Requests \cup {None}]
  /\ pc \in [Requests -> Steps \cup {"idle"}]
  /\ job \in [Requests -> Job]

\* A transfer pays for one claim, once and for ever, and no claim is paid by
\* two transfers, however often the bank's notice is delivered and whoever
\* approves at the same moment. (approveFromTransfer: "one claim cannot be
\* paid twice".)
TransferPaysOnce ==
  [][/\ \A t \in Transfers : matched[t] # None => matched'[t] = matched[t]
     /\ \A t, x \in Transfers : matched'[t] # None /\ matched'[t] = matched'[x] => t = x
    ]_vars

\* The coupon's count is the number of uses that claims hold: none is lost,
\* none is given back twice. TypeOK adds that the ceiling is never passed.
UsesAreHeld == uses = Cardinality({s \in Ids : claim[s].use = "held"})

\* No two purchases from the wallet opened the same term: the second one is
\* refused unless the first one's grant was revoked in between.
\* (purchaseFromWallet: "Why nothing can be charged twice".)
NoDoubleSale ==
  \A s, x \in Ids :
    /\ s # x
    /\ claim[s].by = "wallet" /\ claim[x].by = "wallet"
    /\ claim[s].user = claim[x].user
    /\ claim[s].plan = claim[x].plan /\ claim[s].plan \in Undated
    => grant[claim[s].grant].state = "revoked" \/ grant[claim[x].grant].state = "revoked"

\* An approved claim has a grant of its student for its plan behind it.
\* (approve: "a submission is never left `approved` with no grant behind it".)
ApprovedIsBacked ==
  \A s \in Ids :
    claim[s].status = "approved" =>
      /\ claim[s].grant # None
      /\ grant[claim[s].grant].user = claim[s].user
      /\ grant[claim[s].grant].plan = claim[s].plan

\* A claim holds its use of the coupon unless it was rejected. (reject: "the
\* count and the status cannot disagree".)
CountAndStatusAgree ==
  \A s \in Ids : claim[s].status # "rejected" => claim[s].use # "released"

\* The grant a payment is stamped with is live when the payment takes effect.
\* (writePurchaseGrant: "creates or extends the ONE live `purchase` grant".)
PaymentOpens ==
  [][\A s \in Ids :
       claim'[s].grant # claim[s].grant => grant'[claim'[s].grant].state = "live"]_vars
=============================================================================
