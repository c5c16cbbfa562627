----------------------------- MODULE EmailCodes -----------------------------
(***************************************************************************)
(* One-time codes sent by mail: the table email_verifications, and what    *)
(* the signup service and the password reset of the auth service have in   *)
(* common when they send and check a code.  A row is one code; its digits  *)
(* are its id.  A handler is a record in calls whose step names what it    *)
(* does after its next await; every step is one statement or one commit of *)
(* the database, so handlers interleave where the code lets them.  Times   *)
(* are ticks of a clock that starts at 1: 0 is a null consumed_at.         *)
(***************************************************************************)
EXTENDS Naturals, FiniteSets, Sequences

CONSTANTS Callers,         \* requests the server handles at the same time
          Forms,           \* what people enter: [userId, email, phoneNumber]
          Cooldown,        \* ticks before another code may be sent, 60 s in the code
          CodeTtl,         \* ticks a code is valid, 10 min in the code
          VerifiedWindow,  \* ticks a verified code may be used, 30 min in the code
          MaxAttempts,     \* guesses a code admits, 5 in the code
          MaxClock, MaxCodes   \* bounds

ASSUME CodesAssumption ==
    /\ {Cooldown, CodeTtl, VerifiedWindow, MaxAttempts, MaxClock, MaxCodes} \subseteq Nat \ {0}
    /\ Cooldown <= CodeTtl /\ CodeTtl <= VerifiedWindow

VARIABLES clock,
          codes,      \* the rows of email_verifications of the purpose in question
          calls,      \* the handlers under way
          guesses     \* for every code ever sent, how often a guess was compared with it

codeVars == <<clock, codes, calls, guesses>>

Emails == {form.email : form \in Forms}
NoForm == [userId |-> "", email |-> "", phoneNumber |-> ""]
Idle == [step |-> "idle", now |-> 0, form |-> NoForm, row |-> 0, guess |-> 0]
NoCode == [id |-> 0, email |-> "", sentAt |-> 0, expiresAt |-> 0,
           attempts |-> 0, consumedAt |-> 0]

CodesInit ==
    /\ clock = 1
    /\ codes = {}
    /\ calls = [c \in Callers |-> Idle]
    /\ guesses = <<>>

\* The request is answered, with success or with an error.
Answered(c) == calls' = [calls EXCEPT ![c] = Idle]

\* The statement under way ends and the handler goes on to its next await.
GoesOn(c, step) == calls' = [calls EXCEPT ![c].step = step]

(* --- queries -------------------------------------------------------------- *)

\* The row that was created last among those of a set, NoCode if there is none.
Newest(rows) ==
    IF rows = {} THEN NoCode
    ELSE CHOOSE r \in rows : \A other \in rows : other.sentAt <= r.sentAt

LatestCode(email) == Newest({r \in codes : r.email = email})

\* The cool-down is measured with the time the handler started at.
CoolingDown(email, now) ==
    /\ LatestCode(email) # NoCode
    /\ now < LatestCode(email).sentAt + Cooldown

\* What is checked of the row that was read, before an attempt is claimed.
WorthAttempting(row) ==
    /\ row # NoCode
    /\ row.consumedAt = 0
    /\ row.expiresAt > clock
    /\ row.attempts < MaxAttempts

\* Mutant: the update that claims an attempt does not repeat the limit.
AttemptableWithoutLimit(id) == {r \in codes : r.id = id /\ r.consumedAt = 0}

\* updateMany with attempts <= MAX - 1 and consumed_at null.
Attemptable(id) == {r \in codes : r.id = id /\ r.consumedAt = 0 /\ r.attempts <= MaxAttempts - 1}

\* updateMany with consumed_at null.
Consumable(id) == {r \in codes : r.id = id /\ r.consumedAt = 0}

\* The rows that cleanupExpiredEmailVerifications keeps.
KeptCodes ==
    {r \in codes : IF r.consumedAt = 0 THEN r.expiresAt > clock
                                       ELSE r.consumedAt + VerifiedWindow > clock}

(* --- the steps both services take ----------------------------------------- *)

\* One transaction under the advisory lock of the address: cool-down or new row.
StoreCode(c) ==
    /\ calls[c].step = "store code"
    /\ \/ /\ CoolingDown(calls[c].form.email, calls[c].now)
          /\ Answered(c)
          /\ UNCHANGED <<codes, guesses>>
       \/ /\ ~CoolingDown(calls[c].form.email, calls[c].now)
          /\ Len(guesses) < MaxCodes
          /\ codes' = codes \cup
                {[id |-> Len(guesses) + 1, email |-> calls[c].form.email,
                  sentAt |-> clock, expiresAt |-> calls[c].now + CodeTtl,
                  attempts |-> 0, consumedAt |-> 0]}
          /\ guesses' = Append(guesses, 0)
          /\ calls' = [calls EXCEPT ![c].step = "mail code", ![c].row = Len(guesses) + 1]
    /\ UNCHANGED clock

\* sendEmail never throws.  Without a key of the mail service it skips the mail; a refusal,
\* a lost connection and 10 s without an answer, when the mail may have been sent, are one.
MailResults ==
    {[delivered |-> TRUE, skipped |-> FALSE], [delivered |-> FALSE, skipped |-> TRUE],
     [delivered |-> FALSE, skipped |-> FALSE]}

\* The row of a mail that was not delivered is deleted, unless deleting it fails too.
MailCode(c) ==
    /\ calls[c].step = "mail code"
    /\ \E result \in MailResults :
          \/ UNCHANGED codes
          \/ /\ ~result.delivered /\ ~result.skipped
             /\ codes' = {r \in codes : r.id # calls[c].row}
    /\ Answered(c)
    /\ UNCHANGED <<clock, guesses>>

\* Reads the newest code of an address. What was typed is some code that was sent,
\* or 0 for one that never was.
BeginVerifyCode(c) ==
    /\ calls[c] = Idle
    /\ \E email \in Emails, guess \in 0..Len(guesses) :
          /\ WorthAttempting(LatestCode(email))
          /\ calls' = [calls EXCEPT ![c] =
                [Idle EXCEPT !.step = "claim attempt", !.now = clock, !.guess = guess,
                             !.row = LatestCode(email).id]]
    /\ UNCHANGED <<clock, codes, guesses>>

\* Claims one of the attempts, then compares with the hash that was read.
ClaimAttempt(c) ==
    /\ calls[c].step = "claim attempt"
    /\ \/ /\ Attemptable(calls[c].row) = {}
          /\ Answered(c)
          /\ UNCHANGED <<codes, guesses>>
       \/ \E r \in Attemptable(calls[c].row) :
          /\ codes' = (codes \ {r}) \cup {[r EXCEPT !.attempts = @ + 1]}
          /\ guesses' = [guesses EXCEPT ![r.id] = @ + 1]
          /\ IF calls[c].guess = r.id THEN GoesOn(c, "consume code") ELSE Answered(c)
    /\ UNCHANGED clock

\* The code matched: one of the handlers that got here marks it as verified.
ConsumeCode(c) ==
    /\ calls[c].step = "consume code"
    /\ codes' = {IF r \in Consumable(calls[c].row)
                 THEN [r EXCEPT !.consumedAt = calls[c].now] ELSE r : r \in codes}
    /\ Answered(c)
    /\ UNCHANGED <<clock, guesses>>

Tick ==
    /\ clock < MaxClock
    /\ clock' = clock + 1
    /\ UNCHANGED <<codes, calls, guesses>>
=============================================================================
