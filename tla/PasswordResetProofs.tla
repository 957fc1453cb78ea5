------------------------- MODULE PasswordResetProofs -------------------------
(***************************************************************************)
(* Proofs about PasswordReset for any number of requests, of confirmations *)
(* under way and of guesses.  A password is reset in two statements, so    *)
(* OneResetPerCode alone is not inductive: what is kept besides is that a  *)
(* confirmation between them is alone on its code, that a code which can   *)
(* be guessed has left, and that a right answer was counted.               *)
(***************************************************************************)
EXTENDS PasswordReset, FiniteSetTheorems, TLAPS

\* What the code assumes of its constants; "free" is no request.
Bounds ==
  /\ Limits.attempts \in Nat /\ Limits.perPhone \in Nat /\ Limits.sends \in Nat
  /\ Requests # {} /\ IsFiniteSet(Requests) /\ "free" \notin Requests

RowSet == [status : {"none", "queued", "no_account", "capped"} \cup SendStatuses,
           attempts : Nat, live : BOOLEAN]
WorkSet == [pc : {"idle", "insert", "find", "cap", "claim", "send", "mark", "fail", "done"},
            fits : BOOLEAN]
GuessSet == [pc : {"idle", "use", "write"}, row : Requests]

Types ==
  /\ row \in [Requests -> RowSet] /\ work \in [Requests -> WorkSet]
  /\ guess \in [Guesses -> GuessSet]
  /\ wire \in [Requests -> Nat] /\ resets \in [Requests -> Nat]

\* The message goes once, and before any of the statuses that a guess needs.
Sent(r) ==
  /\ work[r].pc \in {"idle", "insert"} => row[r].status = "none"
  /\ work[r].pc \in {"idle", "insert", "find", "cap", "claim", "send"} => wire[r] = 0
  /\ wire[r] <= 1
  /\ work[r].pc = "mark" => wire[r] = 1
  /\ row[r].status \in {"sent", "spent", "used"} => wire[r] = 1

\* Attempts are counted before anything can come of them.
Counted(r) ==
  /\ row[r].attempts <= Limits.attempts
  /\ row[r].status \in {"spent", "used"} => row[r].attempts > 0

\* A right answer stands at a code that was sent, and counted.
Right(g) ==
  guess[g].pc # "idle" =>
    /\ row[guess[g].row].status \in {"sent", "spent", "used"}
    /\ row[guess[g].row].attempts > 0

\* Whoever flipped the row is alone with it until the password is written.
Flipped(g) ==
  guess[g].pc = "write" =>
    /\ row[guess[g].row].status = "used" /\ resets[guess[g].row] = 0
    /\ \A h \in Guesses : guess[h].pc = "write" /\ guess[h].row = guess[g].row => h = g

Written(r) == resets[r] <= 1 /\ (resets[r] = 1 => row[r].status = "used")

IInv ==
  /\ Types
  /\ \A r \in Requests : Sent(r) /\ Counted(r) /\ Written(r)
  /\ \A g \in Guesses : Right(g) /\ Flipped(g)

-----------------------------------------------------------------------------
\* What the advisory lock is for: a transaction that has counted keeps the others
\* from counting until it has written, so that what it found room for still fits.
Messaged == {r \in Requests : row[r].status \in SendStatuses}
Serial(r) ==
  /\ work[r].pc \in {"insert", "claim"} => lock = r
  /\ work[r].pc = "insert" /\ work[r].fits => Cardinality(Filed(PhoneOf[r])) < Limits.perPhone
  /\ work[r].pc = "claim" /\ work[r].fits => Cardinality(Sends(r)) < Limits.sends
  /\ work[r].pc = "send" \/ wire[r] > 0 => row[r].status \in SendStatuses

LInv ==
  /\ lock \in Requests \cup {"free"}
  /\ \A r \in Requests : Serial(r) /\ Cardinality(Filed(PhoneOf[r])) <= Limits.perPhone
  /\ Cardinality(Messaged) <= Limits.sends

-----------------------------------------------------------------------------
LEMMA InitEstablishes == Bounds /\ Init => IInv
<1> SUFFICES ASSUME Bounds, Init PROVE IInv
  OBVIOUS
<1>1. NoGuess \in GuessSet /\ NoGuess.pc = "idle"
  BY DEF Bounds, NoGuess, GuessSet
<1>2. Types
  BY <1>1 DEF Init, Types, NoRow, NoWork, RowSet, WorkSet
<1>3. \A r \in Requests : Sent(r) /\ Counted(r) /\ Written(r)
  BY DEF Bounds, Init, NoRow, NoWork, Sent, Counted, Written
<1>4. \A g \in Guesses : Right(g) /\ Flipped(g)
  BY <1>1 DEF Init, Right, Flipped
<1>. QED BY <1>2, <1>3, <1>4 DEF IInv

\* A step of one request that leaves the codes that can be guessed alone, and
\* makes no other guessable, disturbs no confirmation.
LEMMA ConfirmationsKept ==
  ASSUME IInv, UNCHANGED <<guess, resets>>,
         \A r \in Requests : row[r].status \in {"sent", "spent", "used"} =>
           row'[r].status = row[r].status /\ row'[r].attempts = row[r].attempts
  PROVE  /\ \A g \in Guesses : Right(g)' /\ Flipped(g)'
         /\ \A r \in Requests : Written(r)'
<1>1. \A g \in Guesses : guess[g].row \in Requests
  BY DEF IInv, Types, GuessSet
<1>2. \A g \in Guesses : Right(g)' /\ Flipped(g)'
  BY <1>1 DEF IInv, Right, Flipped
<1>3. \A r \in Requests : Written(r)'
  BY DEF IInv, Written, Types
<1>. QED BY <1>2, <1>3

\* The statements of a request and of its delivery, and the death of either.
LEMMA RequestKeeps ==
  ASSUME Bounds, IInv, NEW r \in Requests,
         \/ Count(r) \/ Insert(r) \/ Find(r) \/ Cap(r) \/ Claim(r)
         \/ Send(r) \/ Mark(r) \/ Crash(r) \/ Expire(r)
  PROVE  IInv'
<1>1. UNCHANGED <<guess, resets>>
  BY DEF Count, Insert, Find, Cap, Claim, Send, Mark, Crash, Expire
<1>2. Types /\ Sent(r) /\ Counted(r) /\ work[r] \in WorkSet /\ row[r] \in RowSet /\ wire[r] \in Nat
  BY DEF IInv, Types
<1>3. /\ work' \in [Requests -> WorkSet] /\ row' \in [Requests -> RowSet]
      /\ wire' \in [Requests -> Nat]
      /\ \A q \in Requests \ {r} : work'[q] = work[q] /\ row'[q] = row[q] /\ wire'[q] = wire[q]
      /\ row'[r].attempts = row[r].attempts
      /\ row[r].status \in {"sent", "spent", "used"} => row'[r].status = row[r].status
      /\ row'[r].status \in {"spent", "used"} => row[r].status \in {"spent", "used"}
      /\ Sent(r)'
  <2>1. CASE Count(r)
    BY <1>2, <2>1 DEF Count, Types, Sent, WorkSet
  <2>2. CASE Insert(r)
    BY <1>2, <2>2 DEF Insert, Types, Sent, WorkSet, RowSet
  <2>3. CASE Find(r)
    <3>1. CASE work' = [work EXCEPT ![r].pc = "cap"] /\ UNCHANGED row
      BY <1>2, <2>3, <3>1 DEF Find, Types, Sent, WorkSet
    <3>2. CASE /\ row' = [row EXCEPT ![r].status = "no_account"]
               /\ work' = [work EXCEPT ![r].pc = "done"]
      BY <1>2, <2>3, <3>2 DEF Find, Types, Sent, WorkSet, RowSet
    <3>. QED BY <2>3, <3>1, <3>2 DEF Find
  <2>4. CASE Cap(r)
    BY <1>2, <2>4 DEF Cap, Types, Sent, WorkSet
  <2>5. CASE Claim(r)
    BY <1>2, <2>5 DEF Claim, Types, Sent, WorkSet, RowSet, SendStatuses
  <2>6. CASE Send(r)
    BY <1>2, <2>6 DEF Send, Types, Sent, WorkSet
  <2>7. CASE Mark(r)
    BY <1>2, <2>7 DEF Mark, Types, Sent, WorkSet, RowSet, SendStatuses
  <2>8. CASE Crash(r)
    BY <1>2, <2>8 DEF Crash, Types, Sent, WorkSet
  <2>9. CASE Expire(r)
    BY <1>2, <2>9 DEF Expire, Types, Sent, RowSet
  <2>. QED BY <2>1, <2>2, <2>3, <2>4, <2>5, <2>6, <2>7, <2>8, <2>9
<1>4. Types'
  BY <1>1, <1>2, <1>3 DEF Types
<1>5. Counted(r)'
  BY <1>2, <1>3 DEF Counted
<1>6. \A q \in Requests \ {r} : Sent(q)' /\ Counted(q)'
  BY <1>3 DEF IInv, Sent, Counted
<1>7. /\ \A g \in Guesses : Right(g)' /\ Flipped(g)'
      /\ \A q \in Requests : Written(q)'
  <2>1. \A q \in Requests : row[q].status \in {"sent", "spent", "used"} =>
           row'[q].status = row[q].status /\ row'[q].attempts = row[q].attempts
    BY <1>3
  <2>. QED BY <1>1, <2>1, ConfirmationsKept
<1>. QED BY <1>3, <1>4, <1>5, <1>6, <1>7 DEF IInv

\* A guess is counted, and burns the code, in the statement that reads it.
LEMMA GuessKeeps ==
  ASSUME Bounds, IInv, NEW r \in Requests, Guess(r)
  PROVE  IInv'
<1>1. /\ row[r].status = "sent" /\ row[r].attempts < Limits.attempts
      /\ row' = [row EXCEPT ![r].attempts = @ + 1,
                   ![r].status = IF row[r].attempts + 1 >= Limits.attempts THEN "spent" ELSE @]
      /\ UNCHANGED <<lock, work, wire, resets>>
  BY DEF Guess
<1>2. PICK g \in Guesses : guess[g].pc = "idle" /\
        (guess' = guess \/ guess' = [guess EXCEPT ![g] = [pc |-> "use", row |-> r]])
  BY DEF Guess, Idle
<1>3. Types /\ row[r] \in RowSet /\ Sent(r) /\ Counted(r) /\ Written(r)
  BY DEF IInv, Types
<1>4. /\ row' \in [Requests -> RowSet] /\ row'[r].attempts = row[r].attempts + 1
      /\ row'[r].status \in {"sent", "spent"}
      /\ \A q \in Requests \ {r} : row'[q] = row[q]
  <2>1. PICK s \in {"sent", "spent"} :
          row' = [row EXCEPT ![r] = [@ EXCEPT !.attempts = row[r].attempts + 1, !.status = s]]
    <3>1. PICK s : s = IF row[r].attempts + 1 >= Limits.attempts THEN "spent" ELSE row[r].status
      OBVIOUS
    <3>. QED BY <1>1, <1>3, <3>1 DEF Types, RowSet
  <2>2. row'[r] = [status |-> s, attempts |-> row[r].attempts + 1, live |-> row[r].live]
    <3>1. row[r] = [status |-> row[r].status, attempts |-> row[r].attempts, live |-> row[r].live]
      BY <1>3 DEF RowSet
    <3>. QED BY <1>3, <2>1, <3>1 DEF Types
  <2>3. row'[r] \in RowSet /\ row'[r].attempts = row[r].attempts + 1 /\ row'[r].status = s
    BY <1>3, <2>2 DEF RowSet, SendStatuses
  <2>. QED BY <1>3, <2>1, <2>3 DEF Types
<1>5. Types'
  BY <1>1, <1>2, <1>3, <1>4 DEF Types, GuessSet
<1>6. Sent(r)' /\ Counted(r)' /\ Written(r)'
  BY <1>1, <1>3, <1>4 DEF Types, RowSet, Sent, Counted, Written, Bounds
<1>7. \A q \in Requests \ {r} : Sent(q)' /\ Counted(q)' /\ Written(q)'
  BY <1>1, <1>4 DEF IInv, Sent, Counted, Written
<1>8. \A h \in Guesses : h # g => guess'[h] = guess[h]
  BY <1>2, <1>3 DEF Types
<1>9. guess'[g] = guess[g] \/ guess'[g] = [pc |-> "use", row |-> r]
  BY <1>2, <1>3 DEF Types
<1>10. \A h \in Guesses : guess[h].row \in Requests
  BY <1>3 DEF Types, GuessSet
<1>11. ASSUME NEW h \in Guesses PROVE Right(h)'
  <2>1. Right(h)
    BY DEF IInv
  <2>2. row[r].attempts \in Nat
    BY <1>3 DEF RowSet
  <2>. QED BY <1>4, <1>8, <1>9, <1>10, <2>1, <2>2 DEF Right
<1>12. ASSUME NEW h \in Guesses PROVE Flipped(h)'
  <2>1. Flipped(h) /\ \A k \in Guesses : guess'[k].pc = "write" => k # g /\ guess'[k] = guess[k]
    BY <1>2, <1>8, <1>9 DEF IInv
  <2>2. guess[h].pc = "write" => guess[h].row # r
    BY <1>1, <2>1 DEF Flipped
  <2>. QED BY <1>1, <1>4, <1>10, <2>1, <2>2 DEF Flipped
<1>. QED BY <1>5, <1>6, <1>7, <1>11, <1>12 DEF IInv

\* Of two right answers one finds the row not used, and is alone with it.
LEMMA UseKeeps ==
  ASSUME Bounds, IInv, NEW g \in Guesses, Use(g)
  PROVE  IInv'
<1>. PICK r \in Requests : r = guess[g].row
  BY DEF IInv, Types, GuessSet
<1>1. Types /\ r \in Requests /\ row[r] \in RowSet /\ Sent(r) /\ Counted(r) /\ Written(r)
      /\ Right(g) /\ NoGuess \in GuessSet /\ NoGuess.pc = "idle"
  BY DEF IInv, Types, GuessSet, NoGuess
<1>2. guess[g].pc = "use" /\ UNCHANGED <<lock, work, wire, resets>>
  BY DEF Use
<1>3. CASE row[r].status \in {"sent", "spent"}
  <2>1. /\ row' = [row EXCEPT ![r].status = "used"] /\ guess' = [guess EXCEPT ![g].pc = "write"]
    BY <1>3 DEF Use
  <2>2. /\ row' \in [Requests -> RowSet] /\ row'[r].status = "used"
        /\ row'[r].attempts = row[r].attempts
        /\ \A q \in Requests \ {r} : row'[q] = row[q]
    BY <1>1, <2>1 DEF Types, RowSet, SendStatuses
  <2>3. /\ guess' \in [Guesses -> GuessSet] /\ guess'[g].pc = "write" /\ guess'[g].row = r
        /\ \A h \in Guesses \ {g} : guess'[h] = guess[h]
    BY <1>1, <2>1 DEF Types, GuessSet
  <2>4. \A h \in Guesses : guess[h].row \in Requests
    BY <1>1 DEF Types, GuessSet
  <2>5. resets[r] = 0
    BY <1>1, <1>3 DEF Types, Written
  <2>6. Types'
    BY <1>1, <1>2, <2>2, <2>3 DEF Types
  <2>7. Sent(r)' /\ Counted(r)' /\ Written(r)' /\ Right(g)'
    BY <1>1, <1>2, <1>3, <2>2, <2>3, <2>5 DEF Sent, Counted, Written, Right
  <2>8. \A q \in Requests \ {r} : Sent(q)' /\ Counted(q)' /\ Written(q)'
    BY <1>2, <2>2 DEF IInv, Sent, Counted, Written
  <2>9. \A h \in Guesses \ {g} : Right(h)'
    BY <1>3, <2>2, <2>3, <2>4 DEF IInv, Right
  <2>10. \A h \in Guesses \ {g} : guess[h].pc = "write" => guess[h].row # r
    BY <1>3 DEF IInv, Flipped
  <2>11. \A h \in Guesses : Flipped(h)'
    <3>1. Flipped(g)'
      BY <1>2, <2>2, <2>3, <2>5, <2>10 DEF Flipped
    <3>2. ASSUME NEW h \in Guesses, h # g PROVE Flipped(h)'
      <4>1. Flipped(h) /\ guess'[h] = guess[h] /\ (guess[h].pc = "write" => guess[h].row # r)
        BY <2>3, <2>10, <3>2 DEF IInv
      <4>. QED BY <1>2, <2>2, <2>3, <2>4, <4>1 DEF Flipped
    <3>. QED BY <3>1, <3>2
  <2>12. \A q \in Requests : Sent(q)' /\ Counted(q)' /\ Written(q)'
    BY <2>7, <2>8
  <2>13. \A h \in Guesses : Right(h)'
    BY <2>7, <2>9
  <2>. QED BY <2>6, <2>11, <2>12, <2>13 DEF IInv
<1>4. CASE row[r].status \notin {"sent", "spent"}
  <2>1. guess' = [guess EXCEPT ![g] = NoGuess] /\ UNCHANGED row
    BY <1>4 DEF Use
  <2>2. Types'
    BY <1>1, <1>2, <2>1 DEF Types
  <2>3. \A q \in Requests : Sent(q)' /\ Counted(q)' /\ Written(q)'
    BY <1>2, <2>1 DEF IInv, Sent, Counted, Written
  <2>4. \A h \in Guesses : guess'[h].pc # "idle" => h # g /\ guess'[h] = guess[h]
    BY <1>1, <2>1 DEF Types
  <2>5. \A h \in Guesses : Right(h)' /\ Flipped(h)'
    BY <1>2, <2>1, <2>4 DEF IInv, Right, Flipped
  <2>. QED BY <2>2, <2>3, <2>5 DEF IInv
<1>. QED BY <1>3, <1>4

LEMMA WriteKeeps ==
  ASSUME Bounds, IInv, NEW g \in Guesses, Write(g)
  PROVE  IInv'
<1>. PICK r \in Requests : r = guess[g].row
  BY DEF IInv, Types, GuessSet
<1>1. Types /\ r \in Requests /\ Flipped(g) /\ NoGuess \in GuessSet /\ NoGuess.pc = "idle"
  BY DEF IInv, Types, GuessSet, NoGuess
<1>2. /\ guess[g].pc = "write" /\ UNCHANGED <<row, lock, work, wire>>
      /\ guess' = [guess EXCEPT ![g] = NoGuess]
      /\ resets' = resets \/ resets' = [resets EXCEPT ![r] = @ + 1]
  BY DEF Write
<1>3. row[r].status = "used" /\ resets[r] = 0
  BY <1>1, <1>2 DEF Flipped
<1>4. /\ resets' \in [Requests -> Nat] /\ resets'[r] \in {0, 1}
      /\ \A q \in Requests \ {r} : resets'[q] = resets[q]
  BY <1>1, <1>2, <1>3 DEF Types
<1>5. \A h \in Guesses : guess'[h].pc # "idle" => h # g /\ guess'[h] = guess[h]
  BY <1>1, <1>2 DEF Types
<1>6. Types'
  BY <1>1, <1>2, <1>4 DEF Types
<1>7. \A q \in Requests : Sent(q)' /\ Counted(q)'
  BY <1>2 DEF IInv, Sent, Counted
<1>8. \A q \in Requests : Written(q)'
  BY <1>2, <1>3, <1>4 DEF IInv, Written
<1>9. \A h \in Guesses : guess'[h].pc = "write" => guess[h].row # r
  BY <1>1, <1>2, <1>5 DEF Flipped
<1>10. \A h \in Guesses : guess[h].row \in Requests
  BY <1>1 DEF Types, GuessSet
<1>11. \A h \in Guesses : Right(h)'
  BY <1>2, <1>5 DEF IInv, Right
<1>12. \A h \in Guesses : Flipped(h)'
  BY <1>2, <1>4, <1>5, <1>9, <1>10 DEF IInv, Flipped
<1>. QED BY <1>6, <1>7, <1>8, <1>11, <1>12 DEF IInv

-----------------------------------------------------------------------------
\* What the rows, the deliveries and the confirmations under way say of each
\* other at every moment (PasswordResetService.request, deliver and confirm).
THEOREM CodeInvariant == Bounds => (Spec => []IInv)
<1> SUFFICES ASSUME Bounds PROVE Spec => []IInv
  OBVIOUS
<1>1. Init => IInv
  BY InitEstablishes
<1>2. IInv /\ [Next]_vars => IInv'
  <2> SUFFICES ASSUME IInv, [Next]_vars PROVE IInv'
    OBVIOUS
  <2>1. ASSUME NEW r \in Requests,
               \/ Count(r) \/ Insert(r) \/ Find(r) \/ Cap(r) \/ Claim(r)
               \/ Send(r) \/ Mark(r) \/ Crash(r) \/ Expire(r)
        PROVE  IInv'
    BY <2>1, RequestKeeps
  <2>2. ASSUME NEW r \in Requests, Guess(r) PROVE IInv'
    BY <2>2, GuessKeeps
  <2>3. ASSUME NEW g \in Guesses, Use(g) PROVE IInv'
    BY <2>3, UseKeeps
  <2>4. ASSUME NEW g \in Guesses, Write(g) PROVE IInv'
    BY <2>4, WriteKeeps
  <2>5. CASE UNCHANGED vars
    BY <2>5 DEF vars, IInv, Types, Sent, Counted, Right, Flipped, Written
  <2>. QED BY <2>1, <2>2, <2>3, <2>4, <2>5 DEF Next
<1>. QED BY <1>1, <1>2, PTL DEF Spec

\* However many answers race for a code, it resets one password once, within its
\* guesses and after its message has gone (confirm).
THEOREM CodeResetsOnce == Bounds => (Spec => []OneResetPerCode)
<1> SUFFICES ASSUME Bounds PROVE Spec => []OneResetPerCode
  OBVIOUS
<1>1. IInv => OneResetPerCode
  BY DEF IInv, Sent, Counted, Written, OneResetPerCode
<1>. QED BY <1>1, CodeInvariant, PTL

-----------------------------------------------------------------------------
LEMMA LocksInit == Bounds /\ Init => LInv
<1> SUFFICES ASSUME Bounds, Init PROVE LInv
  OBVIOUS
<1>1. \A r \in Requests : row[r].status = "none" /\ work[r].pc = "idle" /\ wire[r] = 0
  BY DEF Init, NoRow, NoWork
<1>2. Messaged = {} /\ \A p : Filed(p) = {}
  BY <1>1 DEF Messaged, Filed, SendStatuses
<1>3. Cardinality({}) = 0
  BY FS_EmptySet
<1>4. \A r \in Requests : Serial(r)
  BY <1>1 DEF Serial
<1>. QED BY <1>2, <1>3, <1>4 DEF LInv, Bounds, Init

LEMMA CountsAreNumbers ==
  ASSUME Bounds
  PROVE  /\ IsFiniteSet(Messaged) /\ Cardinality(Messaged) \in Nat
         /\ \A p : IsFiniteSet(Filed(p)) /\ Cardinality(Filed(p)) \in Nat
<1>1. \A S \in SUBSET Requests : IsFiniteSet(S) /\ Cardinality(S) \in Nat
  BY FS_Subset, FS_CardinalityType DEF Bounds
<1>2. Messaged \in SUBSET Requests /\ \A p : Filed(p) \in SUBSET Requests
  BY DEF Messaged, Filed
<1>. QED BY <1>1, <1>2

\* A step that files nothing and sends nothing new leaves every count as it is.
LEMMA CountsStay ==
  ASSUME \A q \in Requests : /\ row'[q].status = "none" <=> row[q].status = "none"
                             /\ row'[q].status \in SendStatuses <=> row[q].status \in SendStatuses
  PROVE  /\ Messaged' = Messaged /\ \A p : Filed(p)' = Filed(p)
         /\ \A q : Sends(q)' = Sends(q)
BY DEF Messaged, Filed, Sends, SendStatuses

\* Nobody else is between counting and writing.
LEMMA OneCounts ==
  ASSUME Bounds, LInv, NEW r \in Requests, lock \in {"free", r}
  PROVE  \A q \in Requests \ {r} : work[q].pc \notin {"insert", "claim"}
BY DEF LInv, Serial, Bounds

LEMMA StayKeeps ==
  ASSUME Bounds, LInv, NEW r \in Requests,
         Messaged' = Messaged, \A p : Filed(p)' = Filed(p), \A q : Sends(q)' = Sends(q),
         \A q \in Requests : /\ row'[q].status \in SendStatuses <=> row[q].status \in SendStatuses
                             /\ q # r => work'[q] = work[q] /\ wire'[q] = wire[q],
         lock' \in Requests \cup {"free"},
         \A q \in Requests \ {r} : work[q].pc \in {"insert", "claim"} => lock' = q,
         Serial(r)'
  PROVE  LInv'
<1>1. ASSUME NEW q \in Requests, q # r PROVE Serial(q)'
  BY <1>1 DEF LInv, Serial
<1>2. \A q \in Requests : Serial(q)' /\ Cardinality(Filed(PhoneOf[q]))' <= Limits.perPhone
  BY <1>1 DEF LInv
<1>. QED BY <1>2 DEF LInv

LEMMA RequestFits ==
  ASSUME Bounds, IInv, LInv, NEW r \in Requests,
         \/ Count(r) \/ Insert(r) \/ Find(r) \/ Cap(r) \/ Claim(r)
         \/ Send(r) \/ Mark(r) \/ Crash(r) \/ Expire(r)
  PROVE  LInv'
<1>1. /\ row \in [Requests -> RowSet] /\ work \in [Requests -> WorkSet] /\ Sent(r) /\ Serial(r)
      /\ wire \in [Requests -> Nat] /\ lock \in Requests \cup {"free"} /\ "free" \notin Requests
      /\ \A q \in Requests : work[q].pc \in {"insert", "claim"} => lock = q
  BY DEF IInv, Types, LInv, Serial, Bounds
<1>2. CASE Count(r)
  <2>1. /\ lock = "free" /\ lock' = r /\ UNCHANGED <<row, wire>> /\ work[r].pc = "idle"
        /\ work'[r].pc = "insert" /\ \A q \in Requests \ {r} : work'[q] = work[q]
        /\ work'[r].fits => Cardinality(Filed(PhoneOf[r])) < Limits.perPhone
    BY <1>1, <1>2 DEF Count, Locked
  <2>2. Messaged' = Messaged /\ (\A p : Filed(p)' = Filed(p)) /\ \A q : Sends(q)' = Sends(q)
    BY <2>1, CountsStay
  <2>3. Serial(r)'
    BY <1>1, <2>1, <2>2 DEF Serial
  <2>4. \A q \in Requests \ {r} : work[q].pc \in {"insert", "claim"} => lock' = q
    BY <1>1, <2>1
  <2>. QED BY <2>1, <2>2, <2>3, <2>4, StayKeeps
<1>3. CASE Cap(r)
  <2>1. /\ lock = "free" /\ lock' = r /\ UNCHANGED <<row, wire>> /\ work[r].pc = "cap"
        /\ work'[r].pc = "claim" /\ \A q \in Requests \ {r} : work'[q] = work[q]
        /\ work'[r].fits => Cardinality(Sends(r)) < Limits.sends
    BY <1>1, <1>3 DEF Cap, Locked
  <2>2. Messaged' = Messaged /\ (\A p : Filed(p)' = Filed(p)) /\ \A q : Sends(q)' = Sends(q)
    BY <2>1, CountsStay
  <2>3. Serial(r)'
    BY <1>1, <2>1, <2>2 DEF Serial
  <2>4. \A q \in Requests \ {r} : work[q].pc \in {"insert", "claim"} => lock' = q
    BY <1>1, <2>1
  <2>. QED BY <2>1, <2>2, <2>3, <2>4, StayKeeps
<1>4. CASE Insert(r) \/ Claim(r)
  <2>1. /\ lock = r /\ lock' = "free" /\ UNCHANGED wire /\ wire[r] = 0
        /\ work'[r].pc \notin {"insert", "claim"}
        /\ \A q \in Requests \ {r} : /\ work'[q] = work[q] /\ row'[q] = row[q]
                                      /\ work[q].pc \notin {"insert", "claim"}
        /\ work'[r].pc = "send" => row'[r].status \in SendStatuses
        /\ row[r].status \notin SendStatuses
    BY <1>1, <1>4 DEF Insert, Claim, Unlocked, SendStatuses, Sent, WorkSet, RowSet
  <2>2. \A q \in Requests : Serial(q)'
    <3>1. Serial(r)'
      BY <2>1 DEF Serial
    <3>2. \A q \in Requests \ {r} : Serial(q)'
      BY <2>1 DEF LInv, Serial
    <3>. QED BY <3>1, <3>2
  <2>3. \A q \in Requests : Cardinality(Filed(PhoneOf[q]))' <= Limits.perPhone
    <3> SUFFICES ASSUME NEW q \in Requests PROVE Cardinality(Filed(PhoneOf[q])') <= Limits.perPhone
      OBVIOUS
    <3>1. Cardinality(Filed(PhoneOf[q])) <= Limits.perPhone
      BY DEF LInv
    <3>2. CASE Insert(r) /\ work[r].fits /\ PhoneOf[q] = PhoneOf[r]
      <4>1. row'[r].status = "queued" /\ row[r].status = "none"
        BY <1>1, <3>2 DEF Insert, Sent, RowSet
      <4>2. Filed(PhoneOf[q])' = Filed(PhoneOf[q]) \cup {r} /\ r \notin Filed(PhoneOf[q])
        BY <2>1, <3>2, <4>1 DEF Filed
      <4>3. Cardinality(Filed(PhoneOf[q]) \cup {r}) = Cardinality(Filed(PhoneOf[q])) + 1
        BY <4>2, CountsAreNumbers, FS_AddElement
      <4>4. Cardinality(Filed(PhoneOf[q])) < Limits.perPhone
        BY <1>1, <3>2 DEF Insert, Serial
      <4>5. Cardinality(Filed(PhoneOf[q])) \in Nat /\ Limits.perPhone \in Nat
        BY CountsAreNumbers DEF Bounds
      <4>. QED BY <4>2, <4>3, <4>4, <4>5
    <3>3. CASE ~(Insert(r) /\ work[r].fits /\ PhoneOf[q] = PhoneOf[r])
      <4>1. Filed(PhoneOf[q])' = Filed(PhoneOf[q])
        <5>1. \A x \in Requests : PhoneOf[x] = PhoneOf[q] =>
                (row'[x].status = "none" <=> row[x].status = "none")
          BY <1>1, <1>4, <2>1, <3>3 DEF Insert, Claim, RowSet
        <5>. QED BY <5>1 DEF Filed
      <4>. QED BY <3>1, <4>1
    <3>. QED BY <3>2, <3>3
  <2>4. Cardinality(Messaged)' <= Limits.sends
    <3>1. Cardinality(Messaged) <= Limits.sends /\ Limits.sends \in Nat /\ Cardinality(Messaged) \in Nat
      BY CountsAreNumbers DEF LInv, Bounds
    <3>2. CASE Claim(r) /\ work[r].fits
      <4>1. row'[r].status = "sending"
        BY <1>1, <3>2 DEF Claim, RowSet
      <4>2. Messaged' = Messaged \cup {r} /\ r \notin Messaged /\ Messaged = Sends(r)
        BY <2>1, <4>1 DEF Messaged, Sends, SendStatuses
      <4>3. Cardinality(Messaged \cup {r}) = Cardinality(Messaged) + 1
        BY <4>2, CountsAreNumbers, FS_AddElement
      <4>4. Cardinality(Messaged) < Limits.sends
        BY <1>1, <3>2, <4>2 DEF Claim, Serial
      <4>. QED BY <3>1, <4>2, <4>3, <4>4
    <3>3. CASE ~(Claim(r) /\ work[r].fits)
      <4>1. row'[r].status \notin SendStatuses
        BY <1>1, <1>4, <2>1, <3>3 DEF Insert, Claim, RowSet, SendStatuses
      <4>2. Messaged' = Messaged
        BY <2>1, <4>1 DEF Messaged
      <4>. QED BY <3>1, <4>2
    <3>. QED BY <3>2, <3>3
  <2>. QED BY <2>1, <2>2, <2>3, <2>4 DEF LInv
<1>5. CASE Find(r) \/ Send(r) \/ Mark(r) \/ Crash(r) \/ Expire(r)
  <2>1. /\ \A q \in Requests \ {r} : work'[q] = work[q] /\ row'[q] = row[q] /\ wire'[q] = wire[q]
        /\ row'[r].status = "none" <=> row[r].status = "none"
        /\ row'[r].status \in SendStatuses <=> row[r].status \in SendStatuses
        /\ work'[r].pc \notin {"insert", "claim", "send"}
             \/ (work'[r] = work[r] /\ lock' = lock)
        /\ wire'[r] > 0 => wire[r] > 0 \/ work[r].pc = "send"
        /\ lock' = lock \/ (lock = r /\ lock' = "free")
    BY <1>1, <1>5 DEF Find, Send, Mark, Crash, Expire, RowSet, WorkSet, SendStatuses
  <2>2. Messaged' = Messaged /\ (\A p : Filed(p)' = Filed(p)) /\ \A q : Sends(q)' = Sends(q)
    BY <2>1, CountsStay
  <2>3. Serial(r)'
    BY <1>1, <2>1, <2>2 DEF Serial
  <2>. QED BY <1>1, <2>1, <2>2, <2>3, StayKeeps
<1>. QED BY <1>2, <1>3, <1>4, <1>5

LEMMA ConfirmationFits ==
  ASSUME Bounds, IInv, LInv, UNCHANGED <<lock, work, wire>>, NEW r \in Requests,
         row'[r].status # "none" /\ row[r].status # "none",
         row'[r].status \in SendStatuses <=> row[r].status \in SendStatuses,
         \A q \in Requests \ {r} : row'[q] = row[q]
  PROVE  LInv'
<1>1. Messaged' = Messaged /\ (\A p : Filed(p)' = Filed(p)) /\ \A q : Sends(q)' = Sends(q)
  BY CountsStay
<1>2. Serial(r)'
  BY <1>1 DEF LInv, Serial
<1>. QED BY <1>1, <1>2, StayKeeps DEF LInv, Serial

\* However many requests and deliveries race, no count passes its limit.
THEOREM LimitInvariant == Bounds => (Spec => []LInv)
<1> SUFFICES ASSUME Bounds PROVE Spec => []LInv
  OBVIOUS
<1>1. Init => LInv
  BY LocksInit
<1>2. IInv /\ LInv /\ [Next]_vars => LInv'
  <2> SUFFICES ASSUME IInv, LInv, [Next]_vars PROVE LInv'
    OBVIOUS
  <2>1. ASSUME NEW r \in Requests,
               \/ Count(r) \/ Insert(r) \/ Find(r) \/ Cap(r) \/ Claim(r)
               \/ Send(r) \/ Mark(r) \/ Crash(r) \/ Expire(r)
        PROVE  LInv'
    BY <2>1, RequestFits
  <2>2. ASSUME NEW r \in Requests, Guess(r) PROVE LInv'
    <3>1. row \in [Requests -> RowSet]
      BY DEF IInv, Types
    <3>2. /\ row[r].status = "sent" /\ row'[r].status \in {"sent", "spent"}
          /\ \A q \in Requests \ {r} : row'[q] = row[q]
      BY <2>2, <3>1 DEF Guess, RowSet
    <3>. QED BY <2>2, <3>2, ConfirmationFits DEF Guess, SendStatuses
  <2>3. ASSUME NEW g \in Guesses, Use(g) PROVE LInv'
    <3>1. guess[g].row \in Requests /\ row \in [Requests -> RowSet]
      BY DEF IInv, Types, GuessSet
    <3>2. CASE row[guess[g].row].status \in {"sent", "spent"}
      <4>1. /\ row'[guess[g].row].status = "used"
            /\ \A q \in Requests \ {guess[g].row} : row'[q] = row[q]
        BY <2>3, <3>1, <3>2 DEF Use, RowSet
      <4>. QED BY <2>3, <3>1, <3>2, <4>1, ConfirmationFits DEF Use, SendStatuses
    <3>3. CASE row[guess[g].row].status \notin {"sent", "spent"}
      <4>1. UNCHANGED <<lock, work, wire, row>>
        BY <2>3, <3>3 DEF Use
      <4>. QED BY <4>1 DEF LInv, Serial, Messaged, Filed, Sends
    <3>. QED BY <3>2, <3>3
  <2>4. ASSUME UNCHANGED <<lock, work, wire, row>> PROVE LInv'
    BY <2>4 DEF LInv, Serial, Messaged, Filed, Sends
  <2>. QED BY <2>1, <2>2, <2>3, <2>4 DEF Next, Write, vars
<1>. QED BY <1>1, <1>2, CodeInvariant, PTL DEF Spec

\* The stack never sends more codes than its cap, never two for one request, and
\* accepts no more requests of a number than its limit (LOCK_LABEL).
THEOREM SendLimitsAlways == Bounds => (Spec => []SendLimitsHold)
<1> SUFFICES ASSUME Bounds PROVE Spec => []SendLimitsHold
  OBVIOUS
<1>1. IInv /\ LInv => SendLimitsHold
  <2> SUFFICES ASSUME IInv, LInv PROVE SendLimitsHold
    OBVIOUS
  <2>1. {r \in Requests : wire[r] > 0} \subseteq Messaged
    BY DEF LInv, Serial, Messaged
  <2>2. Cardinality({r \in Requests : wire[r] > 0}) <= Cardinality(Messaged)
        /\ Cardinality({r \in Requests : wire[r] > 0}) \in Nat
    BY <2>1, CountsAreNumbers, FS_Subset, FS_CardinalityType
  <2>3. Cardinality({r \in Requests : wire[r] > 0}) <= Limits.sends
    BY <2>2, CountsAreNumbers DEF LInv, Bounds
  <2>4. \A r \in Requests : wire[r] <= 1 /\ Cardinality(Filed(PhoneOf[r])) <= Limits.perPhone
    BY DEF IInv, Sent, LInv
  <2>. QED BY <2>3, <2>4 DEF SendLimitsHold
<1>. QED BY <1>1, CodeInvariant, LimitInvariant, PTL

\* Every row, lock, request and confirmation is of its type.
THEOREM ResetTypes == Bounds => (Spec => []TypeOK)
<1> SUFFICES ASSUME Bounds PROVE Spec => []TypeOK
  OBVIOUS
<1>1. IInv /\ LInv => TypeOK
  BY DEF IInv, Types, LInv, TypeOK, RowSet, WorkSet, GuessSet
<1>. QED BY <1>1, CodeInvariant, LimitInvariant, PTL
=============================================================================
