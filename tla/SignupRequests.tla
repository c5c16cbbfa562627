--------------------------- MODULE SignupRequests ---------------------------
(***************************************************************************)
(* Signup: an applicant proves an address with an emailed code and leaves  *)
(* a request, an administrator approves or rejects it, maintenance expires *)
(* it and anonymises it.                                                   *)
(***************************************************************************)
EXTENDS EmailCodes

CONSTANTS RequestLife,   \* ticks a pending request lives, 30 days in the code
          Retention,     \* ticks the data of a closed request is kept, 90 days
          MaxRequests    \* bound

ASSUME SignupAssumption ==
    /\ {RequestLife, Retention, MaxRequests} \subseteq Nat \ {0}
    /\ VerifiedWindow <= RequestLife /\ RequestLife <= Retention

VARIABLES signups,    \* the rows of signup_requests
          accounts    \* the rows of users, each with the request it came from

signupVars == <<codeVars, signups, accounts>>

Fields == {"userId", "email", "phoneNumber"}
Closed == {"APPROVED", "REJECTED", "EXPIRED"}

SignupInit == CodesInit /\ signups = {} /\ accounts = {}

OnlyCalls == UNCHANGED <<clock, codes, guesses, signups, accounts>>

(* --- queries and bulk updates -------------------------------------------- *)

\* Nobody has the value: no account, no pending request that is still live.
Available(field, value) ==
    /\ \A a \in accounts : a.form[field] # value
    /\ \A s \in signups :
          ~(s.form[field] = value /\ s.status = "PENDING" /\ s.expiresAt > clock)

\* The unique indexes: on users, and on the pending rows of signup_requests.
UniqueAmong(rows, form) == \A r \in rows, f \in Fields : r.form[f] # form[f]
Pending(rows) == {s \in rows : s.status = "PENDING"}

\* expirePendingSignupRequests.
Expired(rows, now) ==
    {IF s.status = "PENDING" /\ s.expiresAt <= now
     THEN [s EXCEPT !.status = "EXPIRED", !.updatedAt = now] ELSE s : s \in rows}

\* Maintenance takes the personal data out of what was closed long ago.
Anonymised(rows, now) ==
    {IF s.status \in Closed /\ s.form # NoForm /\ s.updatedAt + Retention <= now
     THEN [s EXCEPT !.form = NoForm, !.updatedAt = now] ELSE s : s \in rows}

\* One transaction of runSignupRequestMaintenance.
Maintained ==
    /\ signups' = Anonymised(Expired(signups, clock), clock)
    /\ codes' = KeptCodes

(* --- sendSignupEmailCode, verifySignupEmailCode --------------------------- *)

\* The handler takes the time, then sees whether the address is free.
BeginSendCode(c) ==
    /\ calls[c] = Idle
    /\ \E form \in Forms :
          /\ Available("email", form.email)
          /\ calls' = [calls EXCEPT ![c] =
                [Idle EXCEPT !.step = "store code", !.now = clock, !.form = form]]
    /\ OnlyCalls

SignupCode(c) ==
    /\ StoreCode(c) \/ MailCode(c) \/ BeginVerifyCode(c) \/ ClaimAttempt(c) \/ ConsumeCode(c)
    /\ UNCHANGED <<signups, accounts>>

(* --- createSignupRequest -------------------------------------------------- *)

\* Expires what is due before it looks at the form.
BeginSubmit(c) ==
    /\ calls[c] = Idle
    /\ signups' = Expired(signups, clock)
    /\ \E form \in Forms :
          calls' = [calls EXCEPT ![c] = [Idle EXCEPT !.step = "userId", !.form = form]]
    /\ UNCHANGED <<clock, codes, accounts, guesses>>

\* ensureUserIdAvailable, ensureEmailAvailable, ensurePhoneNumberAvailable, each
\* awaited before the next; then the password is hashed and the time taken.
EnsureAvailable(c) ==
    /\ calls[c].step \in Fields
    /\ IF ~Available(calls[c].step, calls[c].form[calls[c].step]) THEN Answered(c)
       ELSE CASE calls[c].step = "userId" -> GoesOn(c, "email")
              [] calls[c].step = "email" -> GoesOn(c, "phoneNumber")
              [] calls[c].step = "phoneNumber" ->
                   calls' = [calls EXCEPT ![c].step = "read code", ![c].now = clock]
    /\ OnlyCalls

\* The transaction reads the newest verified code of the address.
VerifiedCode(email) == Newest({r \in codes : r.email = email /\ r.consumedAt # 0})

ReadVerifiedCode(c) ==
    /\ calls[c].step = "read code"
    /\ IF /\ VerifiedCode(calls[c].form.email) # NoCode
          /\ calls[c].now < VerifiedCode(calls[c].form.email).consumedAt + VerifiedWindow
       THEN calls' = [calls EXCEPT ![c].step = "insert request",
                                   ![c].row = VerifiedCode(calls[c].form.email).id]
       ELSE Answered(c)
    /\ OnlyCalls

\* It inserts the request and deletes the code it read. Either index or a code that
\* is gone rolls both back.
SpendsCode(c) == calls[c].row \in {r.id : r \in codes}

InsertRequest(c) ==
    /\ calls[c].step = "insert request"
    /\ \/ /\ SpendsCode(c)
          /\ UniqueAmong(Pending(signups), calls[c].form)
          /\ Cardinality(signups) < MaxRequests
          /\ codes' = {r \in codes : r.id # calls[c].row}
          /\ signups' = signups \cup
                {[id |-> Cardinality(signups) + 1, form |-> calls[c].form,
                  status |-> "PENDING", expiresAt |-> calls[c].now + RequestLife,
                  updatedAt |-> clock, code |-> calls[c].row]}
       \/ /\ ~SpendsCode(c) \/ ~UniqueAmong(Pending(signups), calls[c].form)
          /\ UNCHANGED <<codes, signups>>
    /\ Answered(c)
    /\ UNCHANGED <<clock, accounts, guesses>>

(* --- listSignupRequests, approveSignupRequest, rejectSignupRequest -------- *)

\* The list, the hourly timer and the start of the server run maintenance alone.
Maintain ==
    /\ Maintained
    /\ UNCHANGED <<clock, accounts, calls, guesses>>

\* Both decisions begin with maintenance, before their transaction.
BeginReview(c) ==
    /\ calls[c] = Idle
    /\ Maintained
    /\ \E s \in signups, step \in {"read to approve", "read to reject"} :
          calls' = [calls EXCEPT ![c] = [Idle EXCEPT !.step = step, !.row = s.id]]
    /\ UNCHANGED <<clock, accounts, guesses>>

\* The transaction reads the request: ensurePendingStatus.
ReadRequest(c) ==
    /\ calls[c].step \in {"read to approve", "read to reject"}
    /\ \E s \in signups :
          /\ s.id = calls[c].row
          /\ IF s.status # "PENDING" THEN Answered(c)
             ELSE calls' = [calls EXCEPT ![c].form = s.form,
                    ![c].step = IF @ = "read to approve" THEN "approve" ELSE "reject"]
    /\ OnlyCalls

\* Mutant: the update that decides does not ask for a pending request again.
ClaimableAgain(id) == {s \in signups : s.id = id /\ s.expiresAt > clock}

\* updateMany where the request is still pending and live.
Claimable(id) ==
    {s \in signups : s.id = id /\ s.status = "PENDING" /\ s.expiresAt > clock}

Decided(s, status) ==
    signups' = (signups \ {s}) \cup {[s EXCEPT !.status = status, !.updatedAt = clock]}

\* Claims the request and creates the account from what was read, or neither.
Approve(c) ==
    /\ calls[c].step = "approve"
    /\ \/ \E s \in Claimable(calls[c].row) :
          /\ UniqueAmong(accounts, calls[c].form)
          /\ Decided(s, "APPROVED")
          /\ accounts' = accounts \cup {[form |-> calls[c].form, request |-> s.id]}
       \/ /\ Claimable(calls[c].row) = {} \/ ~UniqueAmong(accounts, calls[c].form)
          /\ UNCHANGED <<signups, accounts>>
    /\ Answered(c)
    /\ UNCHANGED <<clock, codes, guesses>>

Reject(c) ==
    /\ calls[c].step = "reject"
    /\ \/ \E s \in Claimable(calls[c].row) : Decided(s, "REJECTED")
       \/ Claimable(calls[c].row) = {} /\ UNCHANGED signups
    /\ Answered(c)
    /\ UNCHANGED <<clock, codes, accounts, guesses>>

(* --- around signup -------------------------------------------------------- *)

\* An administrator makes an account without a request: createUser of the users
\* service. Its own look-ups do not matter, the indexes decide.
CreateUser ==
    /\ \E form \in Forms :
          /\ UniqueAmong(accounts, form)
          /\ accounts' = accounts \cup {[form |-> form, request |-> 0]}
    /\ UNCHANGED <<clock, codes, signups, calls, guesses>>

\* The process stops: handlers vanish between two statements; the new one begins
\* with maintenance.
RestartServer ==
    /\ Maintained
    /\ calls' = [c \in Callers |-> Idle]
    /\ UNCHANGED <<clock, accounts, guesses>>

SignupTick == Tick /\ UNCHANGED <<signups, accounts>>

SignupNext ==
    \/ \E c \in Callers :
          \/ BeginSendCode(c) \/ SignupCode(c)
          \/ BeginSubmit(c) \/ EnsureAvailable(c) \/ ReadVerifiedCode(c) \/ InsertRequest(c)
          \/ BeginReview(c) \/ ReadRequest(c) \/ Approve(c) \/ Reject(c)
    \/ Maintain \/ CreateUser \/ RestartServer \/ SignupTick

SignupSpec == SignupInit /\ [][SignupNext]_signupVars

\* A verified code backs one request, however submissions and reviews interleave.
SignupCodesAreSpentOnce == \A s, t \in signups : s.code = t.code => s = t

\* Approvals, rejections, expiry and maintenance race for a request: an account comes of
\* it exactly when it ends up approved, and one only.
ApprovalMakesOneAccount ==
    \A s \in signups :
        Cardinality({a \in accounts : a.request = s.id}) = IF s.status = "APPROVED" THEN 1 ELSE 0
=============================================================================
