---------------------------- MODULE PasswordReset ----------------------------
(***************************************************************************)
(* A forgotten password: a code is sent to the student's WhatsApp and      *)
(* brought back with the new password.  Requests, deliveries and           *)
(* confirmations run at once; a request and the claim of a delivery count  *)
(* rows and write one under the transaction's advisory lock.  A delivery   *)
(* runs behind the answer and may die with its process.  All rows are of   *)
(* one day, and one hour.                                                  *)
(***************************************************************************)
EXTENDS Integers, FiniteSets

CONSTANTS
  Requests,
  PhoneOf,  \* [Requests -> phones]
  Limits,   \* PASSWORD_RESET_LIMITS: [perPhone, requests, sends, attempts]
  Guesses   \* confirmations under way at once

VARIABLES
  row,     \* password_reset_requests
  lock,    \* the request that holds the advisory lock
  work,    \* what the request, and the delivery behind it, is doing
  guess,   \* what each confirmation is doing
  wire,    \* messages that reached WhatsApp, per request
  resets   \* passwords written on the code of a request

vars == <<row, lock, work, guess, wire, resets>>

SendStatuses == {"sending", "sent", "failed", "used", "spent"}
NoRow == [status |-> "none", attempts |-> 0, live |-> FALSE]
NoWork == [pc |-> "idle", fits |-> FALSE]
NoGuess == [pc |-> "idle", row |-> CHOOSE r \in Requests : TRUE]

TypeOK ==
  /\ \A r \in Requests :
       /\ row[r].status \in {"none", "queued", "no_account", "capped"} \cup SendStatuses
       /\ row[r].attempts \in Nat /\ wire[r] \in Nat /\ resets[r] \in Nat
       /\ work[r].pc \in {"idle", "insert", "find", "cap", "claim", "send", "mark", "fail", "done"}
  /\ lock \in Requests \cup {"free"}
  /\ \A g \in Guesses : guess[g].pc \in {"idle", "use", "write"}

-----------------------------------------------------------------------------
Init ==
  /\ row = [r \in Requests |-> NoRow] /\ lock = "free"
  /\ work = [r \in Requests |-> NoWork] /\ guess = [g \in Guesses |-> NoGuess]
  /\ wire = [r \in Requests |-> 0] /\ resets = [r \in Requests |-> 0]

Filed(p) == {r \in Requests : row[r].status # "none" /\ PhoneOf[r] = p}
AllFiled == {r \in Requests : row[r].status # "none"}

\* Mutant: the count does not wait for the lock.
LockedLoosely(r) == UNCHANGED lock

\* A transaction of r takes the lock and counts; it ends with what it wrote.
Locked(r) == lock = "free" /\ lock' = r
Unlocked(r) == lock' = IF lock = r THEN "free" ELSE lock

Count(r) ==
  /\ work[r].pc = "idle"
  /\ Locked(r)
  /\ work' = [work EXCEPT ![r] = [pc |-> "insert",
                fits |-> Cardinality(Filed(PhoneOf[r])) < Limits.perPhone
                           /\ Cardinality(AllFiled) < Limits.requests]]
  /\ UNCHANGED <<row, guess, wire, resets>>

\* Accepted, and its delivery is scheduled; or limited.
Insert(r) ==
  /\ work[r].pc = "insert"
  /\ row' = IF work[r].fits THEN [row EXCEPT ![r].status = "queued"] ELSE row
  /\ Unlocked(r)
  /\ work' = [work EXCEPT ![r].pc = IF work[r].fits THEN "find" ELSE "done"]
  /\ UNCHANGED <<guess, wire, resets>>

\* deliver: a student owns the number, or nobody who is messaged does.
Find(r) ==
  /\ work[r].pc = "find" /\ row[r].status = "queued"
  /\ \/ work' = [work EXCEPT ![r].pc = "cap"] /\ UNCHANGED row
     \/ /\ row' = [row EXCEPT ![r].status = "no_account"]
        /\ work' = [work EXCEPT ![r].pc = "done"]
  /\ UNCHANGED <<lock, guess, wire, resets>>

Sends(r) == {q \in Requests \ {r} : row[q].status \in SendStatuses}

Cap(r) ==
  /\ work[r].pc = "cap"
  /\ Locked(r)
  /\ work' = [work EXCEPT ![r] = [pc |-> "claim",
                                  fits |-> Cardinality(Sends(r)) < Limits.sends]]
  /\ UNCHANGED <<row, guess, wire, resets>>

Claim(r) ==
  /\ work[r].pc = "claim" /\ row[r].status = "queued"
  /\ row' = [row EXCEPT ![r].status = IF work[r].fits THEN "sending" ELSE "capped"]
  /\ Unlocked(r)
  /\ work' = [work EXCEPT ![r].pc = IF work[r].fits THEN "send" ELSE "done"]
  /\ UNCHANGED <<guess, wire, resets>>

\* The device takes the message and answers; or refuses it; or takes it and the
\* answer is lost.
Send(r) ==
  /\ work[r].pc = "send"
  /\ \E taken, answered \in BOOLEAN :
       /\ wire' = IF taken THEN [wire EXCEPT ![r] = @ + 1] ELSE wire
       /\ work' = [work EXCEPT ![r].pc = IF taken /\ answered THEN "mark" ELSE "fail"]
  /\ UNCHANGED <<row, lock, guess, resets>>

\* The hash is written with the status, once the message has gone.
Mark(r) ==
  /\ work[r].pc \in {"mark", "fail"}
  /\ row' = IF row[r].status # "sending" THEN row
            ELSE IF work[r].pc = "mark"
                 THEN [row EXCEPT ![r].status = "sent", ![r].live = TRUE]
                 ELSE [row EXCEPT ![r].status = "failed"]
  /\ work' = [work EXCEPT ![r].pc = "done"]
  /\ UNCHANGED <<lock, guess, wire, resets>>

\* The process dies; a transaction that was open never was.
Crash(r) ==
  /\ work[r].pc \notin {"idle", "done"}
  /\ work' = [work EXCEPT ![r].pc = "done"]
  /\ lock' = IF lock = r THEN "free" ELSE lock
  /\ UNCHANGED <<row, guess, wire, resets>>

Expire(r) ==
  /\ row[r].live /\ row' = [row EXCEPT ![r].live = FALSE]
  /\ UNCHANGED <<lock, work, guess, wire, resets>>

\* confirm: one UPDATE counts the attempt and reads the row.
Idle == {g \in Guesses : guess[g].pc = "idle"}
Guess(r) ==
  /\ Idle # {}
  /\ row[r].status = "sent" /\ row[r].live /\ row[r].attempts < Limits.attempts
  /\ row' = [row EXCEPT ![r].attempts = @ + 1,
                        ![r].status = IF row[r].attempts + 1 >= Limits.attempts THEN "spent" ELSE @]
  /\ \E right \in BOOLEAN :
       guess' = IF right THEN [guess EXCEPT ![CHOOSE g \in Idle : TRUE] = [pc |-> "use", row |-> r]]
                ELSE guess
  /\ UNCHANGED <<lock, work, wire, resets>>

\* Mutant: the row is used whatever its status.
UseAgain(g) ==
  /\ guess[g].pc = "use"
  /\ row' = [row EXCEPT ![guess[g].row].status = "used"]
  /\ guess' = [guess EXCEPT ![g].pc = "write"]
  /\ UNCHANGED <<lock, work, wire, resets>>

\* UPDATE ... WHERE used_at IS NULL AND status IN ('sent', 'spent').
Use(g) ==
  LET r == guess[g].row
  IN /\ guess[g].pc = "use"
     /\ IF row[r].status \in {"sent", "spent"}
        THEN /\ row' = [row EXCEPT ![r].status = "used"]
             /\ guess' = [guess EXCEPT ![g].pc = "write"]
        ELSE guess' = [guess EXCEPT ![g] = NoGuess] /\ UNCHANGED row
     /\ UNCHANGED <<lock, work, wire, resets>>

\* The password is written unless the account has changed hands, has none to
\* change, or the process dies.
Write(g) ==
  /\ guess[g].pc = "write"
  /\ \E done \in BOOLEAN :
       resets' = IF done THEN [resets EXCEPT ![guess[g].row] = @ + 1] ELSE resets
  /\ guess' = [guess EXCEPT ![g] = NoGuess]
  /\ UNCHANGED <<row, lock, work, wire>>

Next ==
  \/ \E r \in Requests : \/ Count(r) \/ Insert(r) \/ Find(r) \/ Cap(r) \/ Claim(r)
                         \/ Send(r) \/ Mark(r) \/ Crash(r) \/ Expire(r)
  \/ \E r \in Requests : Guess(r)
  \/ \E g \in Guesses : Use(g) \/ Write(g)

Spec == Init /\ [][Next]_vars
-----------------------------------------------------------------------------
\* However many requests and deliveries race, the stack never sends more codes
\* than its cap, never two for one request, and never accepts more requests of
\* one number than its limit. (LOCK_LABEL: "two at once cannot both read 'one
\* slot left' and both take it".)
SendLimitsHold ==
  /\ Cardinality({r \in Requests : wire[r] > 0}) <= Limits.sends
  /\ \A r \in Requests : wire[r] <= 1 /\ Cardinality(Filed(PhoneOf[r])) <= Limits.perPhone

\* One code resets one password once, though two right answers race, the fifth
\* guess is the right one, or the code was burned meanwhile; and it does so only
\* within its guesses, after its message has gone. (confirm: "of two right
\* answers racing, exactly one flips the row"; hash_only_once_sent.)
OneResetPerCode ==
  \A r \in Requests :
    /\ resets[r] <= 1 /\ row[r].attempts <= Limits.attempts
    /\ resets[r] = 1 => wire[r] = 1 /\ row[r].status = "used" /\ row[r].attempts > 0
=============================================================================
