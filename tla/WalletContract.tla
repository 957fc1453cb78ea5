--------------------------- MODULE WalletContract ---------------------------
(***************************************************************************)
(* What the student wallet promises, whatever runs against it at once: one *)
(* append-only statement per student, in which every row carries the       *)
(* balance it left behind.  Money moves only by posting a row; a debit     *)
(* that the balance does not cover cannot be posted, and a row that names  *)
(* a source (a top-up request, an idempotency key) can be posted once.     *)
(*                                                                         *)
(* Source: the header of wallet/wallet-ledger.ts and the constraints of    *)
(* the student_wallet migration.  Module Wallet, which runs the requests   *)
(* of WalletService and the purchase and refund paths statement by         *)
(* statement, is shown to implement this module.                           *)
(***************************************************************************)
EXTENDS Integers, Sequences

CONSTANTS
  Students,   \* accounts that may own a wallet
  Sources,    \* ids under a UNIQUE index: top-up requests, idempotency keys
  NoSource,   \* NULL in those columns: the row names no source
  Opening     \* what each wallet already held when the behaviour starts

\* What the theorems assume of the constants; Wallet assumes it of its own.
OpeningAssumption == Opening \in [Students -> Nat]

VARIABLE statement   \* wallet_transactions of each student, oldest first

CreditKinds == {"admin_credit", "transfer_topup", "refund"}
DebitKinds  == {"admin_debit", "course_purchase"}
Kinds       == CreditKinds \cup DebitKinds

\* One ledger row. `of` is refundOfSubmissionId: which purchase a refund
\* gives back, named by the purchase's own idempotency key.
Row == [kind : Kinds, cents : Int, after : Int,
        source : Sources \cup {NoSource}, of : Sources \cup {NoSource}]

\* The wallet held Opening[u] before the first request of the model: one
\* earlier admin credit, whose key no request of the model reuses.
OpeningRow(u) == [kind |-> "admin_credit", cents |-> Opening[u],
                  after |-> Opening[u], source |-> NoSource, of |-> NoSource]

LastAfter(rows) == IF rows = << >> THEN 0 ELSE rows[Len(rows)].after

\* A committed row already carries s: the UNIQUE index would refuse another.
Used(s) == \E u \in Students : \E i \in 1 .. Len(statement[u]) :
             statement[u][i].source = s

Init == statement = [u \in Students |->
                       IF Opening[u] = 0 THEN << >> ELSE << OpeningRow(u) >>]

\* The one way a statement changes.
Post(u, row) ==
  /\ (row.cents > 0) <=> (row.kind \in CreditKinds)
  /\ row.after = LastAfter(statement[u]) + row.cents
  /\ row.after >= 0
  /\ row.source # NoSource => ~Used(row.source)
  /\ statement' = [statement EXCEPT ![u] = Append(@, row)]

\* Some student's statement ends with a new row; nothing else changes.
Next == \E u \in Students :
          LET row == statement'[u][Len(statement'[u])]
          IN  statement'[u] # << >> /\ row \in Row /\ Post(u, row)

Spec == Init /\ [][Next]_statement

-----------------------------------------------------------------------------
(***************************************************************************)
(* What follows for every statement (proved in WalletProofs).              *)
(***************************************************************************)

\* A statement holds ledger rows only. (The columns of wallet_transactions.)
TypeOK == statement \in [Students -> Seq(Row)]

\* Every row's balance is the previous row's balance plus the row's amount,
\* starting from an empty wallet: the statement a student reads adds up line
\* by line, so no committed movement was lost or counted twice.
\* (wallet-ledger.ts, balanceAfterCents.)
Chained ==
  \A u \in Students : \A i \in 1 .. Len(statement[u]) :
    statement[u][i].after =
      (IF i = 1 THEN 0 ELSE statement[u][i - 1].after) + statement[u][i].cents

\* No line of any statement ever shows a negative balance, however debits
\* interleave.  (wallet-ledger.ts, debitWallet's balance >= amount.)
NeverOverdrawn ==
  \A u \in Students : \A i \in 1 .. Len(statement[u]) : statement[u][i].after >= 0

\* A top-up request or an idempotency key moved money at most once, on at
\* most one wallet.  (The UNIQUE indexes of wallet_transactions.)
EverySourceOnce ==
  \A u, v \in Students :
    \A i \in 1 .. Len(statement[u]), j \in 1 .. Len(statement[v]) :
      /\ statement[u][i].source # NoSource
      /\ statement[u][i].source = statement[v][j].source
      => u = v /\ i = j

\* History is never rewritten: a step only adds rows after the ones that are
\* there.  (The append-only trigger on wallet_transactions.)
AppendOnly ==
  [][\A u \in Students :
       /\ Len(statement'[u]) >= Len(statement[u])
       /\ \A i \in 1 .. Len(statement[u]) : statement'[u][i] = statement[u][i]
    ]_statement
=============================================================================
