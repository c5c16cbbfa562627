--------------------------- MODULE AccountsProofs ---------------------------
(***************************************************************************)
(* Proofs about accounts, for any callers, forms, handlers and bounds:     *)
(* mailed codes (CodesAreSpentOnce), approvals (ApprovalMakesOneAccount),  *)
(* sessions (OneSessionUnlessOverlapped), websocket tickets                *)
(* (TicketsOpenOneConnection), administration (AdministrationIsSafe),      *)
(* request limits (LimitsAreKept), and in the browser the signing out of a *)
(* tab (SignedOutOnlyWithCause) and the forms (FormsActOnWhatIsShown).     *)
(* MCAccounts puts the components side by side; each invariant is about    *)
(* one of them and looks at no scene.                                      *)
(***************************************************************************)
EXTENDS MCAccounts, FiniteSetTheorems, FunctionTheorems, SequenceTheorems, TLAPS

-----------------------------------------------------------------------------
(* The codes.                                                              *)

Numbers(rows) == {r.id : r \in rows}
UniqueIds(rows) == \A r, s \in rows : r.id = s.id => r = s

CodeFields == {"id", "email", "sentAt", "expiresAt", "attempts", "consumedAt"}

\* A row counts the guesses compared with it, which are never too many; the
\* number of the row is its place in guesses, and no number is used twice.
CodesInv ==
    /\ guesses \in Seq(Nat)
    /\ \A r \in codes : /\ DOMAIN r = CodeFields
                        /\ r.id \in 1..Len(guesses)
                        /\ r.attempts = guesses[r.id]
    /\ UniqueIds(codes)
    /\ \A i \in 1..Len(guesses) : guesses[i] <= MaxAttempts

\* A code that was sent and whose row is gone: nothing can come of it any more.
Spent(id) == id \in 1..Len(guesses) /\ id \notin Numbers(codes)

SpentInv ==
    /\ \A s \in signups : Spent(s.code)
    /\ \A i \in 1..Len(resets) : Spent(resets[i])
    /\ SignupCodesAreSpentOnce
    /\ ResetCodesAreSpentOnce

-----------------------------------------------------------------------------
(* The requests and the accounts made of them.                             *)

SignupFields == {"id", "form", "status", "expiresAt", "updatedAt", "code"}

\* Requests are numbered in turn.
Numbered ==
    /\ \A s \in signups : DOMAIN s = SignupFields
    /\ UniqueIds(signups)
    /\ \E n \in Nat : Numbers(signups) = 1..n

\* The account of a request.
ApprovedHasAccount ==
    /\ \A s \in signups : s.status = "APPROVED" => \E a \in accounts : a.request = s.id
    /\ \A a \in accounts :
          a.request # 0 => \E s \in signups : s.id = a.request /\ s.status = "APPROVED"
    /\ \A a, b \in accounts : a.request # 0 /\ a.request = b.request => a = b

ApprovalInv == Numbered /\ ApprovedHasAccount

-----------------------------------------------------------------------------
(* The sessions.                                                           *)

Token == [live: BOOLEAN, password: Passwords \cup {""}]
Handler ==
    {r \in [step: {"idle", "revoke", "commit", "read user", "update"},
            op: {"", "login", "refresh", "deactivate", "activate", "stay inactive",
                 "change", "connect"},
            password: Passwords \cup {""}, token: Nat, seen: SUBSET Nat, crossed: BOOLEAN] :
        /\ r.step = "update" => r.op \in {"activate", "stay inactive"}
        /\ r.op = "change" => r.password \in Passwords}

SessionTypes ==
    /\ account \in [active: BOOLEAN, password: Passwords, version: Nat]
    /\ refreshTokens \in Seq(Token)
    /\ access \subseteq [version: Nat, refresh: Nat]
    /\ handlers \in [Handlers -> Handler]
    /\ overlapped \in BOOLEAN

\* No access token is ahead of the account.
VersionsGrow == \A a \in access : a.version <= account.version

\* What a handler has read still holds unless another commit crossed it.
UncrossedKnows ==
    \A h \in Handlers : ~handlers[h].crossed =>
        /\ handlers[h].op = "login" =>
              account.active /\ handlers[h].password = account.password
        /\ handlers[h].op = "refresh" => handlers[h].token \in Live
        /\ handlers[h].op = "stay inactive" => ~account.active
        /\ handlers[h].step = "commit" => handlers[h].seen = Live

\* OneSessionUnlessOverlapped, for an account out of use as well: it may be
\* taken into use again, and its old tokens must not come back with it.
OneSession ==
    ~overlapped =>
        /\ \A i, j \in Live : i = j
        /\ \A i \in Live : account.active /\ refreshTokens[i].password = account.password
        /\ \A a \in access : a.version = account.version => a.refresh \in Live

SessionInv == SessionTypes /\ VersionsGrow /\ UncrossedKnows /\ OneSession

Connecting(h) == handlers[h].step = "read user" /\ handlers[h].op = "connect"

\* A ticket is marked as used as long as its connection or its handler is
\* there, and it has one of them at most.
TicketsInv ==
    /\ connections \in Seq(Nat)
    /\ \A i \in 1..Len(connections) : connections[i] \in used
    /\ \A h \in Handlers : Connecting(h) =>
          /\ handlers[h].token \in used
          /\ \A i \in 1..Len(connections) : connections[i] # handlers[h].token
    /\ \A g, h \in Handlers :
          Connecting(g) /\ Connecting(h) /\ handlers[g].token = handlers[h].token => g = h
    /\ TicketsOpenOneConnection

-----------------------------------------------------------------------------
(* Codes: what the steps of both services do to the table.                 *)

\* The scenes that move codes and requests, and the others.
LEMMA Scenes ==
    ASSUME [Next]_vars
    PROVE  \/ SignupNext /\ UNCHANGED tokenVars
           \/ ResetNext /\ UNCHANGED <<signups, accounts>>
           \/ UNCHANGED <<codeVars, signups, accounts, tokenVars>>
BY DEF Next, Signup, Reset, Session, Administration, Limits, Client, PageOfSignup, PageOfReset,
       Modal, vars, signupVars

RowsOnlyGo == codes' \subseteq codes /\ UNCHANGED guesses

LEMMA CodeEffects ==
    ASSUME [Next]_vars
    PROVE  \/ RowsOnlyGo
           \/ \E c \in Callers : StoreCode(c) \/ ClaimAttempt(c) \/ ConsumeCode(c)
<1>1. KeptCodes \subseteq codes
  BY DEF KeptCodes
<1>2. ASSUME SignupNext
      PROVE  \/ RowsOnlyGo
             \/ \E c \in Callers : StoreCode(c) \/ ClaimAttempt(c) \/ ConsumeCode(c)
  BY <1>1, <1>2
     DEF SignupNext, BeginSendCode, SignupCode, MailCode, BeginVerifyCode, BeginSubmit,
         EnsureAvailable, ReadVerifiedCode, InsertRequest, BeginReview, ReadRequest, Approve,
         Reject, Maintain, Maintained, CreateUser, RestartServer, SignupTick, Tick, OnlyCalls,
         RowsOnlyGo
<1>3. ASSUME ResetNext
      PROVE  \/ RowsOnlyGo
             \/ \E c \in Callers : StoreCode(c) \/ ClaimAttempt(c) \/ ConsumeCode(c)
  BY <1>1, <1>3
     DEF ResetNext, BeginRequestReset, ResetCode, MailCode, BeginVerifyCode, MintResetToken,
         BeginConfirmReset, ReadOwner, ConfirmReset, SetOwnerActive, CleanCodes, ResetTick,
         Tick, RowsOnlyGo, codeVars
<1> QED
  BY <1>2, <1>3, Scenes DEF codeVars, RowsOnlyGo

\* What was spent stays so: a new row gets a number of its own.
CodesMoveOn == CodesInv' /\ \A id \in Nat : Spent(id) => Spent(id)'

LEMMA RowsGo == ASSUME CodesInv, RowsOnlyGo PROVE CodesMoveOn
BY DEF CodesInv, RowsOnlyGo, CodesMoveOn, Spent, Numbers, UniqueIds

LEMMA RowIsAdded ==
    ASSUME CodesInv, NEW c \in Callers, StoreCode(c)
    PROVE  CodesMoveOn
<1>1. CASE UNCHANGED <<codes, guesses>>
  BY <1>1, RowsGo DEF RowsOnlyGo
<1> DEFINE new == [id |-> Len(guesses) + 1, email |-> calls[c].form.email,
                   sentAt |-> clock, expiresAt |-> calls[c].now + CodeTtl,
                   attempts |-> 0, consumedAt |-> 0]
<1>2. CASE guesses' = Append(guesses, 0) /\ codes' = codes \cup {new}
  <2>1. PICK n \in Nat : n = Len(guesses)
    BY DEF CodesInv
  <2>2. /\ guesses' \in Seq(Nat)
        /\ Len(guesses') = n + 1
        /\ \A i \in 1..n : guesses'[i] = guesses[i]
        /\ guesses'[n + 1] = 0
    BY <1>2, <2>1, AppendProperties DEF CodesInv
  <2>3. codes' = codes \cup {new}
    BY <1>2
  <2>4. new.id = n + 1 /\ new.attempts = 0 /\ DOMAIN new = CodeFields
    BY <2>1 DEF CodeFields
  <2>5. \A r \in codes : r.id \in 1..n
    BY <2>1 DEF CodesInv
  <2> HIDE DEF new
  <2>6. UniqueIds(codes')
    BY <2>3, <2>4, <2>5 DEF CodesInv, UniqueIds
  <2>7. \A i \in 1..(n + 1) : guesses'[i] <= MaxAttempts
    <3>1. 0 <= MaxAttempts /\ \A i \in 1..n : guesses[i] <= MaxAttempts
      BY <2>1, CodesAssumption DEF CodesInv
    <3> QED
      BY <2>1, <2>2, <3>1
  <2>8. \A r \in codes' : /\ DOMAIN r = CodeFields
                          /\ r.id \in 1..(n + 1)
                          /\ r.attempts = guesses'[r.id]
    BY <2>1, <2>2, <2>3, <2>4, <2>5 DEF CodesInv
  <2>9. CodesInv'
    BY <2>2, <2>6, <2>7, <2>8 DEF CodesInv
  <2>10. \A id \in Nat : Spent(id) => Spent(id)'
    BY <2>1, <2>2, <2>3, <2>4 DEF Spent, Numbers
  <2> QED
    BY <2>9, <2>10 DEF CodesMoveOn
<1> QED
  BY <1>1, <1>2 DEF StoreCode

LEMMA AttemptIsClaimed ==
    ASSUME CodesInv, NEW c \in Callers, ClaimAttempt(c)
    PROVE  CodesMoveOn
<1>1. CASE UNCHANGED <<codes, guesses>>
  BY <1>1, RowsGo DEF RowsOnlyGo
<1>2. ASSUME NEW r \in Attemptable(calls[c].row),
             codes' = (codes \ {r}) \cup {[r EXCEPT !.attempts = @ + 1]},
             guesses' = [guesses EXCEPT ![r.id] = @ + 1]
      PROVE  CodesMoveOn
  <2> DEFINE new == [r EXCEPT !.attempts = @ + 1]
  <2>1. PICK n \in Nat : n = Len(guesses)
    BY DEF CodesInv
  <2>2. /\ r \in codes /\ DOMAIN r = CodeFields
        /\ r.id \in 1..n /\ r.attempts = guesses[r.id]
        /\ r.attempts <= MaxAttempts - 1
    BY <2>1 DEF Attemptable, CodesInv
  <2>3. DOMAIN new = CodeFields /\ new.id = r.id /\ new.attempts = r.attempts + 1
    BY <2>2 DEF CodeFields
  <2>4. /\ guesses \in [1..n -> Nat]
        /\ guesses' \in [1..n -> Nat]
        /\ guesses'[r.id] = guesses[r.id] + 1
        /\ \A i \in 1..n : i # r.id => guesses'[i] = guesses[i]
    <3>1. guesses \in [1..n -> Nat]
      BY <2>1, LenProperties DEF CodesInv
    <3> QED
      BY <1>2, <2>2, <3>1
  <2>5. guesses' \in Seq(Nat) /\ Len(guesses') = n
    BY <2>1, <2>4, LenProperties DEF CodesInv
  <2>6. codes' = (codes \ {r}) \cup {new}
    BY <1>2
  <2> HIDE DEF new
  <2>7. UniqueIds(codes') /\ Numbers(codes') = Numbers(codes)
    BY <2>2, <2>3, <2>6 DEF CodesInv, UniqueIds, Numbers
  <2>8. \A i \in 1..n : guesses'[i] <= MaxAttempts
    <3>1. MaxAttempts \in Nat /\ \A i \in 1..n : guesses[i] \in Nat /\ guesses[i] <= MaxAttempts
      BY <2>1, <2>4, CodesAssumption DEF CodesInv
    <3>2. guesses'[r.id] <= MaxAttempts
      BY <2>2, <2>4, <3>1
    <3> QED
      BY <2>4, <3>1, <3>2
  <2>9. ASSUME NEW q \in codes'
        PROVE  DOMAIN q = CodeFields /\ q.id \in 1..n /\ q.attempts = guesses'[q.id]
    <3>1. CASE q = new
      BY <2>2, <2>3, <2>4, <3>1
    <3>2. CASE q # new
      <4>1. q \in codes /\ q # r
        BY <2>6, <3>2
      <4>2. q.id # r.id /\ q.id \in 1..n /\ DOMAIN q = CodeFields /\ q.attempts = guesses[q.id]
        BY <2>1, <2>2, <4>1 DEF CodesInv, UniqueIds
      <4> QED
        BY <2>4, <4>2
    <3> QED
      BY <3>1, <3>2
  <2>10. CodesInv'
    BY <2>5, <2>7, <2>8, <2>9 DEF CodesInv
  <2>11. \A id \in Nat : Spent(id) => Spent(id)'
    BY <2>1, <2>5, <2>7 DEF Spent
  <2> QED
    BY <2>10, <2>11 DEF CodesMoveOn
<1> QED
  BY <1>1, <1>2 DEF ClaimAttempt

LEMMA CodeIsConsumed ==
    ASSUME CodesInv, NEW c \in Callers, ConsumeCode(c)
    PROVE  CodesMoveOn
<1> DEFINE Marked(r) == IF r \in Consumable(calls[c].row)
                        THEN [r EXCEPT !.consumedAt = calls[c].now] ELSE r
<1>1. ASSUME NEW r \in codes
      PROVE  /\ DOMAIN Marked(r) = CodeFields
             /\ Marked(r).id = r.id
             /\ Marked(r).attempts = r.attempts
  BY DEF CodesInv, CodeFields
<1>2. codes' = {Marked(r) : r \in codes}
  BY DEF ConsumeCode
<1>3. UNCHANGED guesses
  BY DEF ConsumeCode
<1> HIDE DEF Marked
<1>4. \A q \in codes' : /\ DOMAIN q = CodeFields
                        /\ q.id \in 1..Len(guesses)
                        /\ q.attempts = guesses[q.id]
  BY <1>1, <1>2 DEF CodesInv
<1>5. UniqueIds(codes')
  BY <1>1, <1>2 DEF CodesInv, UniqueIds
<1>6. Numbers(codes') = Numbers(codes)
  BY <1>1, <1>2 DEF Numbers
<1>7. CodesInv'
  BY <1>3, <1>4, <1>5 DEF CodesInv
<1> QED
  BY <1>3, <1>6, <1>7 DEF CodesMoveOn, Spent

LEMMA StepCodes ==
    ASSUME CodesInv, [Next]_vars
    PROVE  CodesMoveOn
BY CodeEffects, RowsGo, RowIsAdded, AttemptIsClaimed, CodeIsConsumed

-----------------------------------------------------------------------------
(* Requests: what maintenance and decisions leave alone.                   *)

\* The same requests with the same codes.
SameRequests(rows, new) ==
    /\ UniqueIds(new)
    /\ \A t \in new : /\ DOMAIN t = SignupFields
                      /\ \E s \in rows : t.id = s.id /\ t.code = s.code
    /\ \A s \in rows : \E t \in new : t.id = s.id

\* Those that were approved are, and no others.
SameApproved(rows, new) ==
    \A s \in rows, t \in new :
        s.id = t.id => (s.status = "APPROVED" <=> t.status = "APPROVED")

Rows(rows) == UniqueIds(rows) /\ \A s \in rows : DOMAIN s = SignupFields

LEMMA ExpiredAreTheSame ==
    ASSUME NEW rows, NEW time, Rows(rows)
    PROVE  SameRequests(rows, Expired(rows, time)) /\ SameApproved(rows, Expired(rows, time))
<1> DEFINE E(s) == IF s.status = "PENDING" /\ s.expiresAt <= time
                   THEN [s EXCEPT !.status = "EXPIRED", !.updatedAt = time] ELSE s
<1>1. ASSUME NEW s \in rows
      PROVE  /\ DOMAIN E(s) = SignupFields
             /\ E(s).id = s.id
             /\ E(s).code = s.code
             /\ s.status = "APPROVED" <=> E(s).status = "APPROVED"
  BY DEF Rows, SignupFields
<1>2. Expired(rows, time) = {E(s) : s \in rows}
  BY DEF Expired
<1> HIDE DEF E
<1>3. SameRequests(rows, Expired(rows, time))
  BY <1>1, <1>2 DEF SameRequests, Rows, UniqueIds
<1>4. SameApproved(rows, Expired(rows, time))
  BY <1>1, <1>2 DEF SameApproved, Rows, UniqueIds
<1> QED
  BY <1>3, <1>4

LEMMA AnonymisedAreTheSame ==
    ASSUME NEW rows, NEW time, Rows(rows)
    PROVE  /\ SameRequests(rows, Anonymised(rows, time))
           /\ SameApproved(rows, Anonymised(rows, time))
<1> DEFINE E(s) == IF s.status \in Closed /\ s.form # NoForm /\ s.updatedAt + Retention <= time
                   THEN [s EXCEPT !.form = NoForm, !.updatedAt = time] ELSE s
<1>1. ASSUME NEW s \in rows
      PROVE  /\ DOMAIN E(s) = SignupFields
             /\ E(s).id = s.id
             /\ E(s).code = s.code
             /\ s.status = "APPROVED" <=> E(s).status = "APPROVED"
  BY DEF Rows, SignupFields
<1>2. Anonymised(rows, time) = {E(s) : s \in rows}
  BY DEF Anonymised
<1> HIDE DEF E
<1>3. SameRequests(rows, Anonymised(rows, time))
  BY <1>1, <1>2 DEF SameRequests, Rows, UniqueIds
<1>4. SameApproved(rows, Anonymised(rows, time))
  BY <1>1, <1>2 DEF SameApproved, Rows, UniqueIds
<1> QED
  BY <1>3, <1>4

LEMMA SameTwice ==
    ASSUME NEW a, NEW b, NEW c, Rows(a), SameRequests(a, b), SameApproved(a, b),
           SameRequests(b, c), SameApproved(b, c)
    PROVE  SameRequests(a, c) /\ SameApproved(a, c)
<1>1. \A t \in c : \E s \in a : t.id = s.id /\ t.code = s.code
  BY DEF SameRequests
<1>2. \A s \in a : \E t \in c : t.id = s.id
  BY DEF SameRequests
<1>3. \A s \in a, t \in c :
         s.id = t.id => (s.status = "APPROVED" <=> t.status = "APPROVED")
  <2> SUFFICES ASSUME NEW s \in a, NEW t \in c, s.id = t.id
               PROVE  s.status = "APPROVED" <=> t.status = "APPROVED"
    OBVIOUS
  <2>1. PICK r \in b : r.id = s.id
    BY DEF SameRequests
  <2> QED
    BY <2>1 DEF SameApproved
<1> QED
  BY <1>1, <1>2, <1>3 DEF SameRequests, SameApproved

LEMMA MaintainedAreTheSame ==
    ASSUME Rows(signups), NEW new,
           new \in {signups, Expired(signups, clock), Anonymised(Expired(signups, clock), clock)}
    PROVE  SameRequests(signups, new) /\ SameApproved(signups, new)
<1>1. CASE new = signups
  BY <1>1 DEF SameRequests, SameApproved, Rows, UniqueIds
<1>2. CASE new = Expired(signups, clock)
  BY <1>2, ExpiredAreTheSame
<1>3. CASE new = Anonymised(Expired(signups, clock), clock)
  <2> DEFINE b == Expired(signups, clock)
  <2>1. SameRequests(signups, b) /\ SameApproved(signups, b)
    BY ExpiredAreTheSame
  <2>2. Rows(b)
    BY <2>1 DEF SameRequests, Rows
  <2> HIDE DEF b
  <2>3. SameRequests(b, Anonymised(b, clock)) /\ SameApproved(b, Anonymised(b, clock))
    BY <2>2, AnonymisedAreTheSame
  <2>4. SameRequests(signups, Anonymised(b, clock)) /\ SameApproved(signups, Anonymised(b, clock))
    BY <2>1, <2>3, SameTwice
  <2> QED
    BY <1>3, <2>4 DEF b
<1> QED
  BY <1>1, <1>2, <1>3

LEMMA DecidedAreTheSame ==
    ASSUME Rows(signups), NEW s \in signups, NEW status, Decided(s, status)
    PROVE  /\ SameRequests(signups, signups')
           /\ \A t \in signups, u \in signups' :
                 t.id = u.id => \/ t = s /\ u.status = status
                                \/ t # s /\ u = t
<1> DEFINE d == [s EXCEPT !.status = status, !.updatedAt = clock]
<1>1. /\ DOMAIN d = SignupFields /\ d.id = s.id /\ d.code = s.code /\ d.status = status
  BY DEF Rows, SignupFields
<1>2. signups' = (signups \ {s}) \cup {d}
  BY DEF Decided
<1> HIDE DEF d
<1> QED
  BY <1>1, <1>2 DEF SameRequests, Rows, UniqueIds

\* What a step does to requests and accounts.
Maintains ==
    /\ signups' \in {signups, Expired(signups, clock), Anonymised(Expired(signups, clock), clock)}
    /\ \/ accounts' = accounts
       \/ \E a : a.request = 0 /\ accounts' = accounts \cup {a}

Inserts(c) ==
    /\ SpendsCode(c)
    /\ codes' = {r \in codes : r.id # calls[c].row}
    /\ signups' = signups \cup
          {[id |-> Cardinality(signups) + 1, form |-> calls[c].form,
            status |-> "PENDING", expiresAt |-> calls[c].now + RequestLife,
            updatedAt |-> clock, code |-> calls[c].row]}
    /\ UNCHANGED <<accounts, guesses>>

Approves(c) ==
    \E s \in Claimable(calls[c].row) :
        /\ Decided(s, "APPROVED")
        /\ accounts' = accounts \cup {[form |-> calls[c].form, request |-> s.id]}

Rejects == (\E s \in Pending(signups) : Decided(s, "REJECTED")) /\ UNCHANGED accounts

LEMMA SignupEffects ==
    ASSUME [Next]_vars
    PROVE  \/ Maintains
           \/ \E c \in Callers : Inserts(c) \/ Approves(c)
           \/ Rejects
<1>1. ASSUME SignupNext
      PROVE  \/ Maintains
             \/ \E c \in Callers : Inserts(c) \/ Approves(c)
             \/ Rejects
  <2>1. ASSUME NEW c \in Callers, InsertRequest(c)
        PROVE  Maintains \/ Inserts(c)
    BY <2>1 DEF InsertRequest, Maintains, Inserts
  <2>2. ASSUME NEW c \in Callers, Approve(c)
        PROVE  Maintains \/ Approves(c)
    BY <2>2 DEF Approve, Maintains, Approves
  <2>3. ASSUME NEW c \in Callers, Reject(c)
        PROVE  Maintains \/ Rejects
    BY <2>3 DEF Reject, Maintains, Rejects, Claimable, Pending
  <2>4. ASSUME CreateUser
        PROVE  Maintains
    <3>1. PICK entered \in Forms : accounts' = accounts \cup {[form |-> entered, request |-> 0]}
      BY <2>4 DEF CreateUser
    <3>2. [form |-> entered, request |-> 0].request = 0
      OBVIOUS
    <3> QED
      BY <2>4, <3>1, <3>2 DEF CreateUser, Maintains
  <2>5. \/ Maintains
        \/ \E c \in Callers : InsertRequest(c) \/ Approve(c) \/ Reject(c)
        \/ CreateUser
    BY <1>1
       DEF SignupNext, BeginSendCode, SignupCode, BeginSubmit, EnsureAvailable,
           ReadVerifiedCode, BeginReview, ReadRequest, Maintain, Maintained, RestartServer,
           SignupTick, OnlyCalls, Maintains
  <2> QED
    BY <2>1, <2>2, <2>3, <2>4, <2>5
<1>2. UNCHANGED <<signups, accounts>> => Maintains
  BY DEF Maintains
<1> QED
  BY <1>1, <1>2, Scenes

\* Rows with numbers of their own are as many as the numbers.
LEMMA AsManyAsNumbers ==
    ASSUME NEW rows, NEW n \in Nat, UniqueIds(rows), Numbers(rows) = 1..n
    PROVE  Cardinality(rows) = n
<1> DEFINE f == [i \in 1..n |-> CHOOSE r \in rows : r.id = i]
<1>1. \A i \in 1..n : f[i] \in rows /\ f[i].id = i
  <2> SUFFICES ASSUME NEW i \in 1..n PROVE f[i] \in rows /\ f[i].id = i
    OBVIOUS
  <2>1. \E r \in rows : r.id = i
    BY DEF Numbers
  <2> QED
    BY <2>1
<1>2. \A r \in rows : r.id \in 1..n
  BY DEF Numbers
<1>3. f \in [1..n -> rows]
  BY <1>1
<1> HIDE DEF f
<1>4. \A i, j \in 1..n : f[i] = f[j] => i = j
  BY <1>1
<1>5. \A r \in rows : \E i \in 1..n : f[i] = r
  BY <1>1, <1>2 DEF UniqueIds
<1>6. f \in Bijection(1..n, rows)
  BY <1>3, <1>4, <1>5, Fun_IsBij
<1>7. ExistsBijection(1..n, rows)
  BY <1>6, Fun_ExistsBij
<1>8. IsFiniteSet(1..n) /\ Cardinality(1..n) = n
  BY FS_Interval
<1> QED
  BY <1>7, <1>8, FS_Bijection

LEMMA StillNumbered ==
    ASSUME Numbered, SameRequests(signups, signups')
    PROVE  Numbered'
<1>1. Numbers(signups') = Numbers(signups)
  BY DEF SameRequests, Numbers
<1> QED
  BY <1>1 DEF Numbered, SameRequests

LEMMA InsertIsNumbered ==
    ASSUME Numbered, NEW c \in Callers, Inserts(c)
    PROVE  /\ Numbered'
           /\ \E new : /\ signups' = signups \cup {new}
                       /\ new.status = "PENDING" /\ new.code = calls[c].row
                       /\ new.id \in Nat \ {0} /\ new.id \notin Numbers(signups)
<1> DEFINE new == [id |-> Cardinality(signups) + 1, form |-> calls[c].form,
                   status |-> "PENDING", expiresAt |-> calls[c].now + RequestLife,
                   updatedAt |-> clock, code |-> calls[c].row]
<1>1. PICK n \in Nat : Numbers(signups) = 1..n
  BY DEF Numbered
<1>2. Cardinality(signups) = n
  BY <1>1, AsManyAsNumbers DEF Numbered
<1>3. /\ DOMAIN new = SignupFields /\ new.id = n + 1
      /\ new.status = "PENDING" /\ new.code = calls[c].row
  BY <1>2 DEF SignupFields
<1>4. signups' = signups \cup {new}
  BY DEF Inserts
<1> HIDE DEF new
<1>5. n + 1 \notin Numbers(signups) /\ n + 1 \in Nat \ {0}
  BY <1>1
<1>6. UniqueIds(signups')
  BY <1>3, <1>4, <1>5 DEF Numbered, UniqueIds, Numbers
<1>7. Numbers(signups') = 1..(n + 1)
  <2>1. Numbers(signups') = Numbers(signups) \cup {n + 1}
    BY <1>3, <1>4 DEF Numbers
  <2> QED
    BY <1>1, <2>1
<1>8. n + 1 \in Nat
  OBVIOUS
<1>9. Numbered'
  BY <1>3, <1>4, <1>6, <1>7, <1>8 DEF Numbered
<1> QED
  BY <1>3, <1>4, <1>5, <1>9

LEMMA StepNumbered ==
    ASSUME Numbered, [Next]_vars
    PROVE  Numbered'
<1>1. Rows(signups)
  BY DEF Numbered, Rows
<1>2. CASE Maintains
  BY <1>1, <1>2, MaintainedAreTheSame, StillNumbered DEF Maintains
<1>3. ASSUME NEW c \in Callers, Inserts(c) PROVE Numbered'
  BY <1>3, InsertIsNumbered
<1>4. ASSUME NEW c \in Callers, Approves(c) PROVE Numbered'
  BY <1>1, <1>4, DecidedAreTheSame, StillNumbered DEF Approves, Claimable
<1>5. CASE Rejects
  BY <1>1, <1>5, DecidedAreTheSame, StillNumbered DEF Rejects, Pending
<1> QED
  BY <1>2, <1>3, <1>4, <1>5, SignupEffects

-----------------------------------------------------------------------------
(* A code serves once.                                                     *)

\* A new password is the end of a code.
LEMMA ResetEffects ==
    ASSUME [Next]_vars
    PROVE  \/ UNCHANGED resets
           \/ \E c \in Callers : /\ DeletesRow(c) /\ UNCHANGED guesses
                                 /\ codes' = {r \in codes : r.id # calls[c].row}
                                 /\ resets' = Append(resets, calls[c].row)
<1>1. ASSUME ResetNext
      PROVE  \/ UNCHANGED resets
             \/ \E c \in Callers : /\ DeletesRow(c) /\ UNCHANGED guesses
                                   /\ codes' = {r \in codes : r.id # calls[c].row}
                                   /\ resets' = Append(resets, calls[c].row)
  BY <1>1 DEF ResetNext, BeginRequestReset, ResetCode, MintResetToken, BeginConfirmReset,
     ReadOwner, ConfirmReset, SetOwnerActive, CleanCodes, ResetTick
<1> QED
  BY <1>1, Scenes DEF tokenVars

CodesSpentInv == CodesInv /\ Numbered /\ resets \in Seq(Nat) /\ SpentInv

LEMMA StepSignupsSpent ==
    ASSUME CodesSpentInv, CodesMoveOn, [Next]_vars
    PROVE  SignupCodesAreSpentOnce' /\ \A s \in signups' : Spent(s.code)'
<1>1. Rows(signups)
  BY DEF CodesSpentInv, Numbered, Rows
<1>2. \A s \in signups : Spent(s.code)'
  <2>1. \A s \in signups : Spent(s.code) /\ s.code \in Nat
    BY DEF CodesSpentInv, CodesInv, SpentInv, Spent
  <2> QED
    BY <2>1 DEF CodesMoveOn
<1>3. ASSUME SameRequests(signups, signups')
      PROVE  SignupCodesAreSpentOnce' /\ \A s \in signups' : Spent(s.code)'
  <2>1. \A t \in signups' : \E s \in signups : t.id = s.id /\ t.code = s.code
    BY <1>3 DEF SameRequests
  <2>2. \A t \in signups' : Spent(t.code)'
    <3> SUFFICES ASSUME NEW t \in signups' PROVE Spent(t.code)'
      OBVIOUS
    <3>1. PICK s \in signups : t.code = s.code
      BY <2>1
    <3> QED
      BY <1>2, <3>1 DEF Spent
  <2>3. \A t, u \in signups' : t.code = u.code => t = u
    <3> SUFFICES ASSUME NEW t \in signups', NEW u \in signups', t.code = u.code
                 PROVE  t = u
      OBVIOUS
    <3>1. PICK s \in signups : t.id = s.id /\ t.code = s.code
      BY <2>1
    <3>2. PICK r \in signups : u.id = r.id /\ u.code = r.code
      BY <2>1
    <3>3. s = r
      BY <3>1, <3>2 DEF CodesSpentInv, SpentInv, SignupCodesAreSpentOnce
    <3> QED
      BY <1>3, <3>1, <3>2, <3>3 DEF SameRequests, UniqueIds
  <2> QED
    BY <2>2, <2>3 DEF SignupCodesAreSpentOnce
<1>4. ASSUME NEW c \in Callers, Inserts(c)
      PROVE  SignupCodesAreSpentOnce' /\ \A s \in signups' : Spent(s.code)'
  <2>1. PICK new : signups' = signups \cup {new} /\ new.code = calls[c].row
    BY <1>4, InsertIsNumbered DEF CodesSpentInv
  <2>2. new.code \in 1..Len(guesses) /\ new.code \in Numbers(codes)
    BY <1>4, <2>1 DEF Inserts, SpendsCode, Numbers, CodesSpentInv, CodesInv
  <2>3. \A s \in signups : s.code # new.code
    BY <2>2 DEF CodesSpentInv, SpentInv, Spent
  <2>4. Spent(new.code)'
    BY <1>4, <2>1, <2>2 DEF Inserts, Spent, Numbers
  <2>5. \A s \in signups' : Spent(s.code)'
    <3> SUFFICES ASSUME NEW s \in signups' PROVE Spent(s.code)'
      OBVIOUS
    <3> QED
      BY <1>2, <2>1, <2>4 DEF Spent
  <2> QED
    BY <2>1, <2>3, <2>5 DEF SignupCodesAreSpentOnce, CodesSpentInv, SpentInv
<1>5. CASE Maintains
  BY <1>1, <1>3, <1>5, MaintainedAreTheSame DEF Maintains
<1>6. ASSUME NEW c \in Callers, Approves(c) PROVE SameRequests(signups, signups')
  BY <1>1, <1>6, DecidedAreTheSame DEF Approves, Claimable
<1>7. CASE Rejects
  BY <1>1, <1>3, <1>7, DecidedAreTheSame DEF Rejects, Pending
<1> QED
  BY <1>3, <1>4, <1>5, <1>6, <1>7, SignupEffects

LEMMA StepResetsSpent ==
    ASSUME CodesSpentInv, CodesMoveOn, [Next]_vars
    PROVE  /\ resets' \in Seq(Nat)
           /\ ResetCodesAreSpentOnce'
           /\ (\A i \in 1..Len(resets) : Spent(resets[i]))'
<1> DEFINE NowSpent(id) == id \in 1..Len(guesses') /\ id \notin Numbers(codes')
<1>1. /\ resets \in Seq(Nat)
      /\ \A i \in 1..Len(resets) : Spent(resets[i]) /\ resets[i] \in Nat
      /\ \A i, j \in 1..Len(resets) : resets[i] = resets[j] => i = j
  BY DEF CodesSpentInv, SpentInv, ResetCodesAreSpentOnce
<1>2. \A i \in 1..Len(resets) : NowSpent(resets[i])
  <2>1. \A id \in Nat : Spent(id) => NowSpent(id)
    BY DEF CodesMoveOn, Spent
  <2> HIDE DEF NowSpent
  <2> QED
    BY <1>1, <2>1
<1>3. CASE UNCHANGED resets
  BY <1>1, <1>2, <1>3 DEF ResetCodesAreSpentOnce, Spent
<1>4. ASSUME NEW c \in Callers, DeletesRow(c), UNCHANGED guesses,
             codes' = {r \in codes : r.id # calls[c].row},
             resets' = Append(resets, calls[c].row)
      PROVE  /\ resets' \in Seq(Nat)
             /\ ResetCodesAreSpentOnce'
             /\ \A i \in 1..Len(resets') : NowSpent(resets'[i])
  <2> DEFINE row == calls[c].row
  <2>1. row \in 1..Len(guesses) /\ row \in Numbers(codes) /\ row \in Nat
    BY <1>4 DEF DeletesRow, Numbers, CodesSpentInv, CodesInv
  <2>2. PICK n \in Nat : n = Len(resets)
    BY <1>1
  <2>3. /\ resets' \in Seq(Nat) /\ Len(resets') = n + 1
        /\ \A i \in 1..n : resets'[i] = resets[i]
        /\ resets'[n + 1] = row
    BY <1>1, <1>4, <2>1, <2>2, AppendProperties
  <2>4. \A i \in 1..n : resets[i] # row
    BY <1>1, <2>1, <2>2 DEF Spent
  <2>5. NowSpent(row)
    BY <1>4, <2>1 DEF Spent, Numbers
  <2> HIDE DEF row
  <2>6. ASSUME NEW i \in 1..(n + 1) PROVE NowSpent(resets'[i])
    <3>1. CASE i = n + 1
      BY <2>3, <2>5, <3>1
    <3>2. CASE i # n + 1
      <4>1. i \in 1..n
        BY <2>2, <3>2
      <4> QED
        BY <1>2, <2>2, <2>3, <4>1
    <3> QED
      BY <3>1, <3>2
  <2>7. \A i, j \in 1..(n + 1) : resets'[i] = resets'[j] => i = j
    <3>1. \A i \in 1..(n + 1) : i \in 1..n \/ i = n + 1
      OBVIOUS
    <3>2. \A i, j \in 1..n : resets'[i] = resets'[j] => i = j
      BY <1>1, <2>2, <2>3
    <3>3. \A i \in 1..n : resets'[i] # resets'[n + 1]
      BY <2>3, <2>4
    <3> QED
      BY <3>1, <3>2, <3>3
  <2> QED
    BY <2>3, <2>6, <2>7 DEF ResetCodesAreSpentOnce
<1> QED
  BY <1>3, <1>4, ResetEffects DEF Spent

LEMMA InitCodes == Init => CodesSpentInv /\ ApprovedHasAccount
<1> SUFFICES ASSUME Init PROVE CodesSpentInv /\ ApprovedHasAccount
  OBVIOUS
<1>1. /\ codes = {} /\ signups = {} /\ accounts = {}
      /\ guesses = << >> /\ resets = << >>
  BY DEF Init, SignupInit, ResetInit, CodesInit
<1>2. /\ guesses \in Seq(Nat) /\ resets \in Seq(Nat)
      /\ Len(guesses) = 0 /\ Len(resets) = 0
  BY <1>1
<1>3. CodesInv
  BY <1>1, <1>2 DEF CodesInv, UniqueIds
<1>4. Numbered
  <2>1. Numbers(signups) = 1..0
    BY <1>1 DEF Numbers
  <2> QED
    BY <1>1, <2>1 DEF Numbered, UniqueIds
<1>5. SpentInv
  BY <1>1, <1>2 DEF SpentInv, SignupCodesAreSpentOnce, ResetCodesAreSpentOnce
<1>6. ApprovedHasAccount
  BY <1>1 DEF ApprovedHasAccount
<1> QED
  BY <1>2, <1>3, <1>4, <1>5, <1>6 DEF CodesSpentInv

LEMMA CodesSpentInvariant == Spec => []CodesSpentInv
<1>1. CodesSpentInv /\ [Next]_vars => CodesSpentInv'
  <2> SUFFICES ASSUME CodesSpentInv, [Next]_vars PROVE CodesSpentInv'
    OBVIOUS
  <2>1. CodesMoveOn
    BY StepCodes DEF CodesSpentInv
  <2>2. Numbered'
    BY StepNumbered DEF CodesSpentInv
  <2> QED
    BY <2>1, <2>2, StepSignupsSpent, StepResetsSpent DEF CodesSpentInv, SpentInv, CodesMoveOn
<1> QED
  BY <1>1, InitCodes, PTL DEF Spec

\* One signup request or one new password comes of a mailed code, however
\* submissions, reviews and confirmations interleave with each other and with
\* maintenance: its row is deleted by whatever uses it, and no later row gets
\* its number.  And no more guesses are compared with it than it admits, for
\* the row counts them in the update that claims one (signupRequests.service.js and
\* auth.service.js, the updateMany on email_verifications).
THEOREM EveryCodeServesOnce == Spec => []CodesAreSpentOnce
<1>1. CodesSpentInv => CodesAreSpentOnce
  BY DEF CodesSpentInv, CodesInv, SpentInv, CodesAreSpentOnce
<1> QED
  BY <1>1, CodesSpentInvariant, PTL

-----------------------------------------------------------------------------
(* An approved request has one account.                                    *)

LEMMA SameAccounts ==
    ASSUME ApprovalInv, SameRequests(signups, signups'), SameApproved(signups, signups'),
           \/ accounts' = accounts
           \/ \E a : a.request = 0 /\ accounts' = accounts \cup {a}
    PROVE  ApprovedHasAccount'
<1>1. \A a \in accounts' : a \in accounts \/ a.request = 0
  OBVIOUS
<1>2. accounts \subseteq accounts'
  OBVIOUS
<1>3. ASSUME NEW t \in signups', t.status = "APPROVED"
      PROVE  \E a \in accounts' : a.request = t.id
  <2>1. PICK s \in signups : t.id = s.id
    BY <1>3 DEF SameRequests
  <2>2. s.status = "APPROVED"
    BY <1>3, <2>1 DEF SameApproved
  <2> QED
    BY <1>2, <2>1, <2>2 DEF ApprovalInv, ApprovedHasAccount
<1>4. ASSUME NEW a \in accounts', a.request # 0
      PROVE  \E t \in signups' : t.id = a.request /\ t.status = "APPROVED"
  <2>1. PICK s \in signups : s.id = a.request /\ s.status = "APPROVED"
    BY <1>1, <1>4 DEF ApprovalInv, ApprovedHasAccount
  <2>2. PICK t \in signups' : t.id = s.id
    BY <2>1 DEF SameRequests
  <2> QED
    BY <2>1, <2>2 DEF SameApproved
<1>5. \A a, b \in accounts' : a.request # 0 /\ a.request = b.request => a = b
  BY <1>1 DEF ApprovalInv, ApprovedHasAccount
<1> QED
  BY <1>3, <1>4, <1>5 DEF ApprovedHasAccount

LEMMA StepApproved ==
    ASSUME ApprovalInv, [Next]_vars
    PROVE  ApprovedHasAccount'
<1>1. Rows(signups)
  BY DEF ApprovalInv, Numbered, Rows
<1>2. CASE Maintains
  BY <1>1, <1>2, MaintainedAreTheSame, SameAccounts DEF Maintains
<1>3. ASSUME NEW c \in Callers, Inserts(c) PROVE ApprovedHasAccount'
  <2>1. PICK new : signups' = signups \cup {new} /\ new.status = "PENDING"
    BY <1>3, InsertIsNumbered DEF ApprovalInv
  <2>2. accounts' = accounts
    BY <1>3 DEF Inserts
  <2> QED
    BY <2>1, <2>2 DEF ApprovalInv, ApprovedHasAccount
<1>4. ASSUME NEW c \in Callers, Approves(c) PROVE ApprovedHasAccount'
  <2>1. PICK s \in Claimable(calls[c].row) :
            /\ Decided(s, "APPROVED")
            /\ accounts' = accounts \cup {[form |-> calls[c].form, request |-> s.id]}
    BY <1>4 DEF Approves
  <2> DEFINE new == [form |-> calls[c].form, request |-> s.id]
  <2>2. s \in signups /\ s.status = "PENDING" /\ new.request = s.id
    BY DEF Claimable
  <2>3. accounts' = accounts \cup {new}
    BY <2>1
  <2> HIDE DEF new
  <2>4. /\ SameRequests(signups, signups')
        /\ \A t \in signups, u \in signups' :
              t.id = u.id => \/ t = s /\ u.status = "APPROVED"
                             \/ t # s /\ u = t
    BY <1>1, <2>1, <2>2, DecidedAreTheSame
  <2>5. \A a \in accounts : a.request # s.id
    <3>1. s.id # 0
      BY <2>2 DEF ApprovalInv, Numbered, Numbers
    <3> QED
      BY <2>2, <3>1 DEF ApprovalInv, Numbered, UniqueIds, ApprovedHasAccount
  <2>6. ASSUME NEW u \in signups', u.status = "APPROVED"
        PROVE  \E a \in accounts' : a.request = u.id
    <3>1. PICK t \in signups : u.id = t.id
      BY <2>4 DEF SameRequests
    <3>2. CASE t = s
      BY <2>2, <2>3, <3>1, <3>2
    <3>3. CASE t # s
      <4>1. t.status = "APPROVED"
        BY <2>4, <2>6, <3>1, <3>3
      <4> QED
        BY <2>3, <3>1, <4>1 DEF ApprovalInv, ApprovedHasAccount
    <3> QED
      BY <3>2, <3>3
  <2>7. ASSUME NEW a \in accounts', a.request # 0
        PROVE  \E u \in signups' : u.id = a.request /\ u.status = "APPROVED"
    <3>1. PICK t \in signups : t.id = a.request /\ (t = s \/ t.status = "APPROVED")
      BY <2>2, <2>3, <2>7 DEF ApprovalInv, ApprovedHasAccount
    <3>2. PICK u \in signups' : u.id = t.id
      BY <2>4 DEF SameRequests
    <3> QED
      BY <2>4, <3>1, <3>2
  <2>8. \A a, b \in accounts' : a.request # 0 /\ a.request = b.request => a = b
    BY <2>2, <2>3, <2>5 DEF ApprovalInv, ApprovedHasAccount
  <2> QED
    BY <2>6, <2>7, <2>8 DEF ApprovedHasAccount
<1>5. CASE Rejects
  <2>1. PICK s \in Pending(signups) : Decided(s, "REJECTED")
    BY <1>5 DEF Rejects
  <2>2. s \in signups /\ s.status = "PENDING"
    BY DEF Pending
  <2>3. /\ SameRequests(signups, signups')
        /\ \A t \in signups, u \in signups' :
              t.id = u.id => \/ t = s /\ u.status = "REJECTED"
                             \/ t # s /\ u = t
    BY <1>1, <2>1, <2>2, DecidedAreTheSame
  <2>4. SameApproved(signups, signups')
    BY <2>2, <2>3 DEF SameApproved
  <2> QED
    BY <1>5, <2>3, <2>4, SameAccounts DEF Rejects
<1> QED
  BY <1>2, <1>3, <1>4, <1>5, SignupEffects

LEMMA ApprovalInvariant == Spec => []ApprovalInv
<1>1. Init => ApprovalInv
  BY InitCodes DEF CodesSpentInv, ApprovalInv
<1>2. ApprovalInv /\ [Next]_vars => ApprovalInv'
  BY StepNumbered, StepApproved DEF ApprovalInv
<1> QED
  BY <1>1, <1>2, PTL DEF Spec

\* Two administrators, maintenance and expiry may decide on a request at the
\* same moment: whoever finds it pending in the update that claims it decides,
\* so that an approved request has one account and any other has none
\* (approveSignupRequest and rejectSignupRequest in signupRequests.service.js).
THEOREM ApprovalsMakeOneAccount == Spec => []ApprovalMakesOneAccount
<1>1. ApprovalInv => ApprovalMakesOneAccount
  <2> SUFFICES ASSUME ApprovalInv, NEW s \in signups
               PROVE  Cardinality({a \in accounts : a.request = s.id})
                        = IF s.status = "APPROVED" THEN 1 ELSE 0
    BY DEF ApprovalMakesOneAccount
  <2> DEFINE made == {a \in accounts : a.request = s.id}
  <2>1. s.id # 0
    BY DEF ApprovalInv, Numbered, Numbers
  <2>2. CASE s.status = "APPROVED"
    <3>1. PICK a \in accounts : a.request = s.id
      BY <2>2 DEF ApprovalInv, ApprovedHasAccount
    <3>2. made = {a}
      BY <2>1, <3>1 DEF ApprovalInv, ApprovedHasAccount
    <3> HIDE DEF made
    <3>3. Cardinality(made) = 1
      BY <3>2, FS_Singleton
    <3> QED
      BY <2>2, <3>3 DEF made
  <2>3. CASE s.status # "APPROVED"
    <3>1. made = {}
      BY <2>1, <2>3 DEF ApprovalInv, Numbered, UniqueIds, ApprovedHasAccount
    <3> HIDE DEF made
    <3>2. Cardinality(made) = 0
      BY <3>1, FS_EmptySet
    <3> QED
      BY <2>3, <3>2 DEF made
  <2> QED
    BY <2>2, <2>3
<1> QED
  BY <1>1, ApprovalInvariant, PTL

-----------------------------------------------------------------------------
(* One session.                                                            *)

LEMMA RestIsHandler ==
    /\ AtRest \in Handler
    /\ AtRest.op = "" /\ AtRest.step = "idle" /\ ~AtRest.crossed
BY DEF AtRest, Handler

LEMMA LiveIsNumbers == SessionTypes => Live \subseteq Nat
BY DEF SessionTypes, Live

\* What is revoked is live no longer, and nothing else changes.
LEMMA RevokedKeeps ==
    ASSUME SessionTypes, NEW ids
    PROVE  /\ Revoked(ids) \in Seq(Token)
           /\ Len(Revoked(ids)) = Len(refreshTokens)
           /\ \A i \in 1..Len(refreshTokens) :
                 /\ Revoked(ids)[i].live <=> refreshTokens[i].live /\ i \notin ids
                 /\ Revoked(ids)[i].password = refreshTokens[i].password
<1>1. PICK n \in Nat : n = Len(refreshTokens)
  BY DEF SessionTypes
<1>2. \A i \in 1..n : refreshTokens[i] \in Token
  BY <1>1 DEF SessionTypes
<1> DEFINE R(i) == IF i \in ids THEN [refreshTokens[i] EXCEPT !.live = FALSE]
                               ELSE refreshTokens[i]
<1>3. ASSUME NEW i \in 1..n
      PROVE  /\ R(i) \in Token
             /\ R(i).live <=> refreshTokens[i].live /\ i \notin ids
             /\ R(i).password = refreshTokens[i].password
  BY <1>2 DEF Token
<1>4. Revoked(ids) = [i \in 1..n |-> R(i)]
  BY <1>1 DEF Revoked
<1> HIDE DEF R
<1>5. Revoked(ids) \in [1..n -> Token]
  BY <1>3, <1>4
<1>6. Revoked(ids) \in Seq(Token) /\ Len(Revoked(ids)) = n
  BY <1>5
<1> QED
  BY <1>1, <1>3, <1>4, <1>6

LEMMA LiveAfterRevoking ==
    ASSUME SessionTypes, NEW ids, refreshTokens' = Revoked(ids)
    PROVE  /\ refreshTokens' \in Seq(Token)
           /\ Live' = Live \ ids
           /\ \A i \in Live' : refreshTokens'[i].password = refreshTokens[i].password
BY RevokedKeeps DEF Live

\* A handler that begins now knows what it has read.
LEMMA StartKeepsSessions ==
    ASSUME SessionInv, NEW h \in Handlers, NEW stage, NEW op, NEW password, NEW carried,
           Starts(h, stage, op, password, carried),
           stage \in {"revoke", "read user", "update"},
           op \in {"login", "refresh", "deactivate", "activate", "stay inactive", "change"},
           password \in Passwords \cup {""}, carried \in Nat,
           op = "login" => account.active /\ password = account.password,
           op = "refresh" => carried \in Live,
           op = "stay inactive" => ~account.active,
           stage = "update" => op \in {"activate", "stay inactive"},
           op = "change" => password \in Passwords
    PROVE  SessionInv'
<1> DEFINE new == [AtRest EXCEPT !.step = stage, !.op = op, !.password = password,
                                 !.token = carried]
<1>1. /\ new \in Handler /\ ~new.crossed
      /\ new.step = stage /\ new.op = op /\ new.password = password /\ new.token = carried
  BY DEF AtRest, Handler
<1>2. /\ handlers' = [handlers EXCEPT ![h] = new]
      /\ UNCHANGED <<account, refreshTokens, access, overlapped>>
  BY DEF Starts
<1> HIDE DEF new
<1>3. /\ handlers' \in [Handlers -> Handler]
      /\ handlers'[h] = new
      /\ \A g \in Handlers \ {h} : handlers'[g] = handlers[g]
  BY <1>1, <1>2 DEF SessionInv, SessionTypes
<1>4. Live' = Live
  BY <1>2 DEF Live
<1>5. UncrossedKnows'
  <2> SUFFICES ASSUME NEW g \in Handlers, ~handlers'[g].crossed
               PROVE  /\ handlers'[g].op = "login" =>
                            account.active /\ handlers'[g].password = account.password
                      /\ handlers'[g].op = "refresh" => handlers'[g].token \in Live
                      /\ handlers'[g].op = "stay inactive" => ~account.active
                      /\ handlers'[g].step = "commit" => handlers'[g].seen = Live
    BY <1>2, <1>4 DEF UncrossedKnows
  <2>1. CASE g = h
    BY <1>1, <1>3, <2>1
  <2>2. CASE g # h
    BY <1>3, <2>2 DEF SessionInv, UncrossedKnows
  <2> QED
    BY <2>1, <2>2
<1> QED
  BY <1>2, <1>3, <1>4, <1>5
     DEF SessionInv, SessionTypes, VersionsGrow, OneSession

LEMMA SnapshotKeepsSessions ==
    ASSUME SessionInv, NEW h \in Handlers, RevokeLive(h)
    PROVE  SessionInv'
<1> DEFINE new == [handlers[h] EXCEPT !.step = "commit", !.seen = Live]
<1>1. handlers[h] \in Handler /\ handlers \in [Handlers -> Handler] /\ Live \in SUBSET Nat
  BY LiveIsNumbers DEF SessionInv, SessionTypes
<1>2. /\ new \in Handler /\ new.seen = Live
      /\ new.crossed = handlers[h].crossed /\ new.op = handlers[h].op
      /\ new.password = handlers[h].password /\ new.token = handlers[h].token
  BY <1>1 DEF Handler
<1>3. /\ handlers' = [handlers EXCEPT ![h] = new]
      /\ UNCHANGED <<account, refreshTokens, access, overlapped>>
  BY <1>1 DEF RevokeLive
<1> HIDE DEF new
<1>4. /\ handlers' \in [Handlers -> Handler]
      /\ handlers'[h] = new
      /\ \A g \in Handlers \ {h} : handlers'[g] = handlers[g]
  BY <1>1, <1>2, <1>3
<1>5. Live' = Live
  BY <1>3 DEF Live
<1>6. UncrossedKnows'
  BY <1>2, <1>3, <1>4, <1>5 DEF SessionInv, UncrossedKnows
<1> QED
  BY <1>3, <1>4, <1>5, <1>6
     DEF SessionInv, SessionTypes, VersionsGrow, OneSession

\* A handler that ends has nothing to know.
LEMMA RestKnowsNothing ==
    ASSUME SessionInv, handlers' \in [Handlers -> Handler],
           UNCHANGED <<account, refreshTokens>>,
           \A g \in Handlers : \/ handlers'[g] \in {AtRest, handlers[g]}
                               \/ /\ handlers'[g].op = "connect"
                                  /\ handlers'[g].step # "commit"
    PROVE  UncrossedKnows'
<1>1. Live' = Live
  BY DEF Live
<1> QED
  BY <1>1, RestIsHandler DEF SessionInv, UncrossedKnows

\* After a commit, what the others had read may be old.
LEMMA CommitCrosses ==
    ASSUME SessionInv, NEW hs \in SUBSET Handlers,
           handlers' = [g \in Handlers |->
               IF g \in hs THEN AtRest
               ELSE [handlers[g] EXCEPT !.crossed = handlers[g] # AtRest]]
    PROVE  handlers' \in [Handlers -> Handler] /\ UncrossedKnows'
<1>1. ASSUME NEW g \in Handlers
      PROVE  handlers'[g] \in Handler /\ (handlers'[g].crossed \/ handlers'[g] = AtRest)
  <2>1. handlers[g] \in Handler
    BY DEF SessionInv, SessionTypes
  <2>2. CASE g \in hs
    BY <2>2, RestIsHandler
  <2>3. CASE g \notin hs /\ handlers[g] = AtRest
    <3>1. handlers'[g] = [AtRest EXCEPT !.crossed = FALSE]
      BY <2>3
    <3>2. [AtRest EXCEPT !.crossed = FALSE] = AtRest
      <4>1. AtRest \in Handler /\ AtRest.crossed = FALSE
        BY RestIsHandler DEF AtRest
      <4> QED
        BY <4>1 DEF Handler
    <3> QED
      BY <3>1, <3>2, RestIsHandler
  <2>4. CASE g \notin hs /\ handlers[g] # AtRest
    <3>1. handlers'[g] = [handlers[g] EXCEPT !.crossed = TRUE]
      BY <2>4
    <3> QED
      BY <2>1, <3>1, ZenonT(40) DEF Handler
  <2> QED
    BY <2>2, <2>3, <2>4
<1>2. handlers' \in [Handlers -> Handler]
  BY <1>1
<1> QED
  BY <1>1, <1>2, RestIsHandler DEF UncrossedKnows

LEMMA CommittedCrosses ==
    ASSUME SessionInv, NEW h \in Handlers, Committed(h)
    PROVE  handlers' \in [Handlers -> Handler] /\ UncrossedKnows'
<1>1. handlers' = [g \in Handlers |->
               IF g \in {h} THEN AtRest
               ELSE [handlers[g] EXCEPT !.crossed = handlers[g] # AtRest]]
  BY DEF Committed
<1> HIDE DEF SessionInv
<1> QED
  BY <1>1, CommitCrosses

\* A transaction that ends all sessions and opens none.
LEMMA EndingKeepsSessions ==
    ASSUME SessionInv, NEW h \in Handlers, EndsSessions(h),
           account' \in [active: BOOLEAN, password: Passwords, version: Nat],
           account'.version = account.version + 1,
           refreshTokens' = Revoked(handlers[h].seen), UNCHANGED access
    PROVE  SessionInv'
<1>1. handlers' \in [Handlers -> Handler] /\ UncrossedKnows'
  BY CommittedCrosses DEF EndsSessions
<1>2. /\ refreshTokens' \in Seq(Token)
      /\ Live' = Live \ handlers[h].seen
  BY LiveAfterRevoking DEF SessionInv
<1>3. /\ handlers[h] \in Handler
      /\ handlers[h].step = "commit" /\ overlapped' = handlers[h].crossed
  BY DEF SessionInv, SessionTypes, EndsSessions
<1>4. overlapped' \in BOOLEAN
  BY <1>3 DEF Handler
<1>5. ~overlapped' => Live' = {}
  BY <1>2, <1>3 DEF SessionInv, UncrossedKnows
<1>6. \A a \in access : a.version < account'.version
  <2>1. account.version \in Nat /\ \A a \in access : a.version \in Nat
    BY DEF SessionInv, SessionTypes
  <2> QED
    BY <2>1 DEF SessionInv, VersionsGrow
<1>7. VersionsGrow'
  <2>1. account'.version \in Nat /\ \A a \in access : a.version \in Nat
    BY DEF SessionInv, SessionTypes
  <2> QED
    BY <1>6, <2>1 DEF VersionsGrow
<1>8. OneSession'
  <2>1. \A a \in access : a.version # account'.version
    <3>1. account'.version \in Nat /\ \A a \in access : a.version \in Nat
      BY DEF SessionInv, SessionTypes
    <3> QED
      BY <1>6, <3>1
  <2> QED
    BY <1>5, <2>1 DEF OneSession
<1>9. SessionTypes'
  BY <1>1, <1>2, <1>4 DEF SessionInv, SessionTypes
<1> QED
  BY <1>1, <1>7, <1>8, <1>9 DEF SessionInv

LEMMA LoginKeepsSessions ==
    ASSUME SessionInv, NEW h \in Handlers, CommitLogin(h)
    PROVE  SessionInv'
<1> DEFINE kept == Revoked(handlers[h].seen)
           opened == [live |-> TRUE, password |-> handlers[h].password]
<1>1. handlers' \in [Handlers -> Handler] /\ UncrossedKnows'
  BY CommittedCrosses DEF CommitLogin, EndsSessions
<1>2. /\ handlers[h] \in Handler
      /\ handlers[h].op = "login" /\ handlers[h].step = "commit"
      /\ overlapped' = handlers[h].crossed
  BY DEF SessionInv, SessionTypes, CommitLogin, EndsSessions
<1>3. /\ kept \in Seq(Token) /\ Len(kept) = Len(refreshTokens)
      /\ \A i \in 1..Len(refreshTokens) :
            /\ kept[i].live <=> refreshTokens[i].live /\ i \notin handlers[h].seen
            /\ kept[i].password = refreshTokens[i].password
  BY RevokedKeeps DEF SessionInv
<1>4. opened \in Token /\ opened.live /\ opened.password = handlers[h].password
  BY <1>2 DEF Token, Handler
<1>5. refreshTokens' = Append(kept, opened)
  BY DEF CommitLogin
<1> HIDE DEF kept, opened
<1>6. PICK n \in Nat : n = Len(refreshTokens)
  BY DEF SessionInv, SessionTypes
<1>7. /\ refreshTokens' \in Seq(Token)
      /\ Len(refreshTokens') = n + 1
      /\ \A i \in 1..n : refreshTokens'[i] = kept[i]
      /\ refreshTokens'[n + 1] = opened
  BY <1>3, <1>4, <1>5, <1>6, AppendProperties
<1>8. Live' = (Live \ handlers[h].seen) \cup {n + 1}
  BY <1>3, <1>4, <1>6, <1>7 DEF Live
<1>9. /\ account' = [account EXCEPT !.version = @ + 1]
      /\ access' = access \cup {[version |-> account'.version, refresh |-> n + 1]}
  BY <1>6 DEF CommitLogin
<1>10. /\ account \in [active: BOOLEAN, password: Passwords, version: Nat]
       /\ account.version \in Nat
       /\ \A a \in access : a.version \in Nat /\ a.version <= account.version
  BY DEF SessionInv, SessionTypes, VersionsGrow
<1>11. /\ account' \in [active: BOOLEAN, password: Passwords, version: Nat]
       /\ account'.version = account.version + 1
       /\ account'.active = account.active /\ account'.password = account.password
  BY <1>9, <1>10
<1>12. /\ \A a \in access : a.version # account'.version
       /\ \A a \in access' : a.version <= account'.version
  <2>1. \A a \in access : a.version # account'.version /\ a.version <= account'.version
    BY <1>10, <1>11
  <2>2. \A a \in access' : a \in access \/ a.version = account'.version
    BY <1>9
  <2> QED
    BY <1>10, <1>11, <2>1, <2>2
<1>13. SessionTypes'
  <2>1. access' \subseteq [version: Nat, refresh: Nat]
    BY <1>9, <1>10, <1>11 DEF SessionInv, SessionTypes
  <2>2. overlapped' \in BOOLEAN
    BY <1>2 DEF Handler
  <2> QED
    BY <1>1, <1>7, <1>11, <2>1, <2>2 DEF SessionTypes
<1>14. OneSession'
  <2> SUFFICES ASSUME ~overlapped'
               PROVE  /\ \A i, j \in Live' : i = j
                      /\ \A i \in Live' : /\ account'.active
                                          /\ refreshTokens'[i].password = account'.password
                      /\ \A a \in access' : a.version = account'.version => a.refresh \in Live'
    BY DEF OneSession
  <2>1. /\ handlers[h].seen = Live
        /\ account.active /\ handlers[h].password = account.password
    BY <1>2 DEF SessionInv, UncrossedKnows
  <2>2. Live' = {n + 1}
    BY <1>8, <2>1
  <2>3. \A a \in access' : a.version = account'.version => a.refresh = n + 1
    BY <1>9, <1>12
  <2> QED
    BY <1>4, <1>7, <1>11, <2>1, <2>2, <2>3
<1> QED
  BY <1>1, <1>12, <1>13, <1>14 DEF SessionInv, VersionsGrow

LEMMA MintKeepsSessions ==
    ASSUME SessionInv, NEW h \in Handlers, MintAccessToken(h)
    PROVE  SessionInv'
<1>1. /\ handlers' = [handlers EXCEPT ![h] = AtRest]
      /\ handlers[h].op = "refresh" /\ handlers[h] \in Handler
      /\ handlers \in [Handlers -> Handler]
      /\ UNCHANGED <<account, refreshTokens>>
  BY DEF MintAccessToken, SessionInv, SessionTypes
<1>2. /\ handlers' \in [Handlers -> Handler]
      /\ \A g \in Handlers : handlers'[g] = AtRest \/ handlers'[g] = handlers[g]
  BY <1>1, RestIsHandler
<1>3. UncrossedKnows'
  <2>1. \A g \in Handlers : handlers'[g] \in {AtRest, handlers[g]}
    BY <1>2
  <2> QED
    BY <1>1, <1>2, <2>1, RestKnowsNothing
<1>4. Live' = Live
  BY <1>1 DEF Live
<1>5. CASE UNCHANGED <<access, overlapped>>
  BY <1>1, <1>2, <1>3, <1>4, <1>5 DEF SessionInv, SessionTypes, VersionsGrow, OneSession
<1>6. CASE /\ access' = access \cup {[version |-> account.version, refresh |-> handlers[h].token]}
           /\ overlapped' = (overlapped \/ handlers[h].crossed)
  <2> DEFINE new == [version |-> account.version, refresh |-> handlers[h].token]
  <2>1. /\ new \in [version: Nat, refresh: Nat]
        /\ new.version = account.version /\ new.refresh = handlers[h].token
        /\ account.version \in Nat
    BY <1>1 DEF SessionInv, SessionTypes, Handler
  <2>2. access' = access \cup {new}
    BY <1>6
  <2> HIDE DEF new
  <2>3. ~overlapped' => ~overlapped /\ new.refresh \in Live
    BY <1>1, <1>6, <2>1 DEF SessionInv, UncrossedKnows
  <2>4. overlapped' \in BOOLEAN
    BY <1>1, <1>6 DEF SessionInv, SessionTypes, Handler
  <2>5. SessionTypes'
    BY <1>1, <1>2, <2>1, <2>2, <2>4 DEF SessionInv, SessionTypes
  <2>6. VersionsGrow'
    BY <1>1, <2>1, <2>2 DEF SessionInv, VersionsGrow
  <2>7. OneSession'
    BY <1>1, <1>4, <2>1, <2>2, <2>3 DEF SessionInv, OneSession
  <2> QED
    BY <1>3, <2>5, <2>6, <2>7 DEF SessionInv
<1> QED
  BY <1>5, <1>6 DEF MintAccessToken

LEMMA LogoutKeepsSessions ==
    ASSUME SessionInv, Logout
    PROVE  SessionInv'
<1>1. PICK i \in Live : refreshTokens' = Revoked({i})
  BY DEF Logout
<1>2. /\ refreshTokens' \in Seq(Token)
      /\ Live' = Live \ {i}
      /\ \A j \in Live' : refreshTokens'[j].password = refreshTokens[j].password
  BY <1>1, LiveAfterRevoking DEF SessionInv
<1>3. handlers' \in [Handlers -> Handler] /\ UncrossedKnows'
  <2>1. handlers' = [g \in Handlers |->
               IF g \in {} THEN AtRest
               ELSE [handlers[g] EXCEPT !.crossed = handlers[g] # AtRest]]
    BY DEF Logout
  <2> QED
    <3>1. {} \in SUBSET Handlers
      OBVIOUS
    <3> HIDE DEF SessionInv
    <3> QED
      BY <2>1, <3>1, CommitCrosses
<1>4. /\ account' = [account EXCEPT !.version = @ + 1]
      /\ UNCHANGED <<access, overlapped>>
  BY DEF Logout
<1>5. /\ account \in [active: BOOLEAN, password: Passwords, version: Nat]
      /\ account.version \in Nat
      /\ \A a \in access : a.version \in Nat /\ a.version <= account.version
  BY DEF SessionInv, SessionTypes, VersionsGrow
<1>6. /\ account' \in [active: BOOLEAN, password: Passwords, version: Nat]
      /\ account'.version = account.version + 1
      /\ account'.active = account.active /\ account'.password = account.password
  BY <1>4, <1>5
<1>7. \A a \in access : a.version # account'.version /\ a.version <= account'.version
  BY <1>5, <1>6
<1>8. SessionTypes'
  BY <1>2, <1>3, <1>4, <1>6 DEF SessionInv, SessionTypes
<1>9. OneSession'
  BY <1>2, <1>4, <1>6, <1>7 DEF SessionInv, OneSession
<1> QED
  BY <1>3, <1>4, <1>7, <1>8, <1>9 DEF SessionInv, VersionsGrow

LEMMA UpdateKeepsSessions ==
    ASSUME SessionInv, NEW h \in Handlers, CommitUpdateUser(h)
    PROVE  SessionInv'
<1>1. handlers' \in [Handlers -> Handler] /\ UncrossedKnows'
  BY CommittedCrosses DEF CommitUpdateUser
<1>2. /\ handlers[h] \in Handler /\ handlers[h].step = "update"
      /\ account' = [account EXCEPT !.active = (handlers[h].op = "activate")]
      /\ overlapped' = (overlapped \/ (handlers[h].crossed /\ handlers[h].op = "stay inactive"))
      /\ UNCHANGED <<refreshTokens, access>>
  BY DEF CommitUpdateUser, SessionInv, SessionTypes
<1>3. /\ account' \in [active: BOOLEAN, password: Passwords, version: Nat]
      /\ account'.version = account.version /\ account'.password = account.password
      /\ account'.active <=> handlers[h].op = "activate"
  BY <1>2 DEF SessionInv, SessionTypes
<1>4. Live' = Live
  BY <1>2 DEF Live
<1>5. SessionTypes' /\ VersionsGrow'
  <2>1. overlapped' \in BOOLEAN
    BY <1>2 DEF SessionInv, SessionTypes
  <2> QED
    BY <1>1, <1>2, <1>3, <2>1 DEF SessionInv, SessionTypes, VersionsGrow
<1>6. ~overlapped' => account'.active \/ ~account.active
  <2>1. handlers[h].op \in {"activate", "stay inactive"}
    BY <1>2 DEF Handler
  <2> QED
    BY <1>2, <1>3, <2>1 DEF SessionInv, UncrossedKnows
<1>7. OneSession'
  BY <1>2, <1>3, <1>4, <1>6 DEF SessionInv, OneSession
<1> QED
  BY <1>1, <1>5, <1>7 DEF SessionInv

\* Websocket tickets take a handler, and no more than that.
LEMMA ConnectKeepsSessions ==
    ASSUME SessionInv, tickets \in Seq(Nat), NEW h \in Handlers, BeginConnect(h) \/ Connect(h)
    PROVE  SessionInv'
<1>1. handlers \in [Handlers -> Handler]
  BY DEF SessionInv, SessionTypes
<1>2. CASE BeginConnect(h)
  <2>1. PICK t \in (1..Len(tickets)) \ used :
            handlers' = [handlers EXCEPT ![h] =
                [AtRest EXCEPT !.step = "read user", !.op = "connect", !.token = t]]
    BY <1>2 DEF BeginConnect
  <2> DEFINE new == [AtRest EXCEPT !.step = "read user", !.op = "connect", !.token = t]
  <2>2. new \in Handler /\ new.op = "connect" /\ new.step # "commit"
    <3>1. t \in Nat
      OBVIOUS
    <3> QED
      BY <3>1 DEF AtRest, Handler
  <2>3. handlers' = [handlers EXCEPT ![h] = new]
    BY <2>1
  <2> HIDE DEF new
  <2>4. /\ handlers' \in [Handlers -> Handler]
        /\ \A g \in Handlers : \/ handlers'[g] \in {AtRest, handlers[g]}
                               \/ /\ handlers'[g].op = "connect"
                                  /\ handlers'[g].step # "commit"
    BY <1>1, <2>2, <2>3
  <2>5. UNCHANGED <<account, refreshTokens, access, overlapped>> /\ Live' = Live
    BY <1>2 DEF BeginConnect, Live
  <2>6. UncrossedKnows'
    BY <2>4, <2>5, RestKnowsNothing
  <2> QED
    BY <2>4, <2>5, <2>6 DEF SessionInv, SessionTypes, VersionsGrow, OneSession
<1>3. CASE Connect(h)
  <2>1. /\ handlers' \in [Handlers -> Handler]
        /\ \A g \in Handlers : handlers'[g] \in {AtRest, handlers[g]}
    BY <1>1, <1>3, RestIsHandler DEF Connect
  <2>2. UNCHANGED <<account, refreshTokens, access, overlapped>> /\ Live' = Live
    BY <1>3 DEF Connect, Live
  <2>3. UncrossedKnows'
    BY <2>1, <2>2, RestKnowsNothing
  <2> QED
    BY <2>1, <2>2, <2>3 DEF SessionInv, SessionTypes, VersionsGrow, OneSession
<1> QED
  BY <1>2, <1>3

LEMMA RestartKeepsSessions ==
    ASSUME SessionInv, RestartSessions
    PROVE  SessionInv'
<1>1. /\ handlers' \in [Handlers -> Handler]
      /\ \A g \in Handlers : handlers'[g] \in {AtRest, handlers[g]}
  BY RestIsHandler DEF RestartSessions
<1>2. UNCHANGED <<account, refreshTokens, access, overlapped>> /\ Live' = Live
  BY DEF RestartSessions, Live
<1>3. UncrossedKnows'
  BY <1>1, <1>2, RestKnowsNothing
<1> QED
  BY <1>1, <1>2, <1>3 DEF SessionInv, SessionTypes, VersionsGrow, OneSession

LEMMA BeginKeepsSessions ==
    ASSUME SessionInv, NEW h \in Handlers,
           \/ BeginLogin(h) \/ BeginRefresh(h) \/ BeginDeactivate(h) \/ BeginUpdateUser(h)
           \/ BeginChangePassword(h) \/ BeginResetPassword(h) \/ BeginResetByMail(h)
    PROVE  SessionInv'
<1>1. account.password \in Passwords /\ Live \subseteq Nat
  BY LiveIsNumbers DEF SessionInv, SessionTypes
<1>2. CASE BeginLogin(h)
  BY <1>1, <1>2, StartKeepsSessions DEF BeginLogin
<1>3. CASE BeginRefresh(h)
  <2>1. PICK i \in Live : Starts(h, "read user", "refresh", "", i)
    BY <1>3 DEF BeginRefresh
  <2>2. i \in Nat
    BY <1>1
  <2> QED
    BY <2>1, <2>2, StartKeepsSessions
<1>4. CASE BeginDeactivate(h)
  BY <1>4, StartKeepsSessions DEF BeginDeactivate
<1>5. CASE BeginUpdateUser(h)
  BY <1>5, StartKeepsSessions DEF BeginUpdateUser
<1>6. ASSUME NEW p \in Passwords, Starts(h, "revoke", "change", p, 0) PROVE SessionInv'
  BY <1>6, StartKeepsSessions
<1>7. CASE BeginChangePassword(h) \/ BeginResetPassword(h) \/ BeginResetByMail(h)
  BY <1>6, <1>7 DEF BeginChangePassword, BeginResetPassword, BeginResetByMail
<1> QED
  BY <1>2, <1>3, <1>4, <1>5, <1>7

LEMMA CommitKeepsSessions ==
    ASSUME SessionInv, NEW h \in Handlers, CommitDeactivate(h) \/ CommitPassword(h)
    PROVE  SessionInv'
<1>1. account \in [active: BOOLEAN, password: Passwords, version: Nat]
  BY DEF SessionInv, SessionTypes
<1>2. CASE CommitDeactivate(h)
  <2>1. /\ account' \in [active: BOOLEAN, password: Passwords, version: Nat]
        /\ account'.version = account.version + 1
    <3>1. account' = [account EXCEPT !.active = FALSE, !.version = @ + 1]
      BY <1>2 DEF CommitDeactivate
    <3>2. account.version + 1 \in Nat
      BY <1>1
    <3> QED
      BY <1>1, <3>1, <3>2
  <2> QED
    BY <1>2, <2>1, EndingKeepsSessions DEF CommitDeactivate
<1>3. CASE CommitPassword(h)
  <2>1. handlers[h].op = "change" /\ handlers[h].password \in Passwords
    BY <1>3 DEF CommitPassword, SessionInv, SessionTypes, Handler
  <2>2. /\ account' \in [active: BOOLEAN, password: Passwords, version: Nat]
        /\ account'.version = account.version + 1
    <3>1. account' = [account EXCEPT !.password = handlers[h].password, !.version = @ + 1]
      BY <1>3 DEF CommitPassword
    <3>2. account.version + 1 \in Nat
      BY <1>1
    <3> QED
      BY <1>1, <2>1, <3>1, <3>2
  <2> QED
    BY <1>3, <2>2, EndingKeepsSessions DEF CommitPassword
<1> QED
  BY <1>2, <1>3

LEMMA SessionScene == ASSUME [Next]_vars PROVE [SessionNext]_sessionVars
BY DEF Next, Signup, Reset, Session, Administration, Limits, Client, PageOfSignup, PageOfReset,
       Modal, vars

\* Tickets carry the session version of an access token.
SessionsInv == SessionInv /\ tickets \in Seq(Nat)

LEMMA StepTicketsTyped ==
    ASSUME SessionsInv, [SessionNext]_sessionVars
    PROVE  tickets' \in Seq(Nat)
<1>1. CASE IssueTicket
  <2>1. PICK a \in access : tickets' = Append(tickets, a.version)
    BY <1>1 DEF IssueTicket
  <2>2. a.version \in Nat
    BY DEF SessionsInv, SessionInv, SessionTypes
  <2> QED
    BY <2>1, <2>2, AppendProperties DEF SessionsInv
<1>2. CASE UNCHANGED tickets
  BY <1>2 DEF SessionsInv
<1>3. IssueTicket \/ UNCHANGED tickets
  BY DEF SessionNext, BeginLogin, RevokeLive, CommitLogin, BeginRefresh, MintAccessToken,
         BeginDeactivate, CommitDeactivate, BeginUpdateUser, CommitUpdateUser,
         BeginChangePassword, BeginResetPassword, BeginResetByMail, CommitPassword,
         BeginConnect, Connect, Logout, RestartSessions, Starts, EndsSessions, sessionVars
<1> QED
  BY <1>1, <1>2, <1>3

LEMMA StepSessions == SessionsInv /\ [Next]_vars => SessionsInv'
<1> SUFFICES ASSUME SessionsInv, [SessionNext]_sessionVars PROVE SessionsInv'
  BY SessionScene
<1>1. SessionInv /\ tickets \in Seq(Nat)
  BY DEF SessionsInv
<1>2. tickets' \in Seq(Nat)
  BY StepTicketsTyped
<1>3. CASE SessionNext
  <2>1. CASE IssueTicket
    <3>1. UNCHANGED <<account, refreshTokens, access, handlers, overlapped>>
      BY <2>1 DEF IssueTicket
    <3>2. Live' = Live
      BY <3>1 DEF Live
    <3> QED
      BY <1>1, <1>2, <3>1, <3>2
         DEF SessionsInv, SessionInv, SessionTypes, VersionsGrow, UncrossedKnows, OneSession
  <2>2. CASE Logout \/ RestartSessions
    BY <1>1, <1>2, <2>2, LogoutKeepsSessions, RestartKeepsSessions DEF SessionsInv
  <2>3. ASSUME NEW h \in Handlers,
               \/ BeginLogin(h) \/ RevokeLive(h) \/ CommitLogin(h)
               \/ BeginRefresh(h) \/ MintAccessToken(h)
               \/ BeginDeactivate(h) \/ CommitDeactivate(h)
               \/ BeginUpdateUser(h) \/ CommitUpdateUser(h)
               \/ BeginChangePassword(h) \/ BeginResetPassword(h) \/ BeginResetByMail(h)
               \/ CommitPassword(h)
               \/ BeginConnect(h) \/ Connect(h)
        PROVE  SessionInv'
    BY <1>1, <2>3, BeginKeepsSessions, SnapshotKeepsSessions, LoginKeepsSessions,
       MintKeepsSessions, CommitKeepsSessions, UpdateKeepsSessions, ConnectKeepsSessions
  <2> QED
    BY <1>2, <1>3, <2>1, <2>2, <2>3 DEF SessionNext, SessionsInv
<1>4. CASE UNCHANGED sessionVars
  <2>1. UNCHANGED <<account, refreshTokens, access, handlers, overlapped>>
    BY <1>4 DEF sessionVars
  <2>2. Live' = Live
    BY <2>1 DEF Live
  <2> QED
    BY <1>1, <1>2, <2>1, <2>2
       DEF SessionsInv, SessionInv, SessionTypes, VersionsGrow, UncrossedKnows, OneSession
<1> QED
  BY <1>3, <1>4

LEMMA InitSessions == Init => SessionsInv /\ TicketsInv
<1> SUFFICES ASSUME Init PROVE SessionsInv /\ TicketsInv
  OBVIOUS
<1>1. /\ refreshTokens = << >> /\ access = {} /\ tickets = << >> /\ connections = << >>
      /\ handlers = [h \in Handlers |-> AtRest] /\ overlapped = FALSE
      /\ \E p \in Passwords : account = [active |-> TRUE, password |-> p, version |-> 0]
  BY DEF Init, SessionInit
<1>2. /\ refreshTokens \in Seq(Token) /\ tickets \in Seq(Nat)
      /\ Live = {} /\ Len(connections) = 0 /\ connections \in Seq(Nat)
  BY <1>1 DEF Live
<1>3. account \in [active: BOOLEAN, password: Passwords, version: Nat]
  BY <1>1
<1>4. handlers \in [Handlers -> Handler]
  BY <1>1, RestIsHandler
<1>5. SessionTypes
  BY <1>1, <1>2, <1>3, <1>4 DEF SessionTypes
<1>6. UncrossedKnows
  BY <1>1, RestIsHandler DEF UncrossedKnows
<1>7. TicketsInv
  <2>1. \A h \in Handlers : ~Connecting(h)
    BY <1>1, RestIsHandler DEF Connecting
  <2> QED
    BY <1>2, <2>1 DEF TicketsInv, TicketsOpenOneConnection
<1> QED
  BY <1>1, <1>2, <1>5, <1>6, <1>7 DEF SessionsInv, SessionInv, VersionsGrow, OneSession

LEMMA SessionsInvariant == Spec => []SessionsInv
BY InitSessions, StepSessions, PTL DEF Spec

\* Unless a request decided on something that another one has changed
\* meanwhile, one session at most is live: of an account in use, opened with
\* the password that is valid now; and no access token is accepted whose
\* refresh token was revoked (auth.service.js and users.service.js, which
\* revoke the refresh tokens and raise session_version in one transaction).
THEOREM OneSessionIsLeft == Spec => []OneSessionUnlessOverlapped
<1>1. SessionsInv => OneSessionUnlessOverlapped
  <2> SUFFICES ASSUME SessionsInv, ~overlapped
               PROVE  /\ Cardinality(Live) <= 1
                      /\ \A i \in Live : /\ account.active
                                         /\ refreshTokens[i].password = account.password
                      /\ \A a \in access : Accepted(a.version) => a.refresh \in Live
    BY DEF OneSessionUnlessOverlapped
  <2>1. Cardinality(Live) <= 1
    <3>1. CASE Live = {}
      BY <3>1, FS_EmptySet
    <3>2. ASSUME NEW i \in Live PROVE Cardinality(Live) = 1
      <4>1. Live = {i}
        BY <3>2 DEF SessionsInv, SessionInv, OneSession
      <4> QED
        BY <4>1, FS_Singleton
    <3> QED
      BY <3>1, <3>2
  <2> QED
    BY <2>1 DEF SessionsInv, SessionInv, OneSession, Accepted
<1> QED
  BY <1>1, SessionsInvariant, PTL

-----------------------------------------------------------------------------
(* Tickets.                                                                *)

\* A step that leaves the tickets alone, or forgets all of them.
LEMMA OthersKeepTickets ==
    ASSUME TicketsInv, UNCHANGED <<used, connections>>,
           \A h \in Handlers :
               Connecting(h)' => Connecting(h) /\ handlers'[h].token = handlers[h].token
    PROVE  TicketsInv'
BY DEF TicketsInv, TicketsOpenOneConnection

\* Nobody but BeginConnect begins to connect.
LEMMA NobodyElseConnects ==
    ASSUME SessionsInv, NEW h \in Handlers,
           \/ \E stage, password, carried, op :
                 op # "connect" /\ Starts(h, stage, op, password, carried)
           \/ RevokeLive(h)
           \/ handlers' = [handlers EXCEPT ![h] = AtRest]
    PROVE  \A g \in Handlers :
               Connecting(g)' => Connecting(g) /\ handlers'[g].token = handlers[g].token
<1> SUFFICES ASSUME NEW g \in Handlers, Connecting(g)'
             PROVE  Connecting(g) /\ handlers'[g].token = handlers[g].token
  OBVIOUS
<1>1. handlers \in [Handlers -> Handler] /\ handlers[h] \in Handler
  BY DEF SessionsInv, SessionInv, SessionTypes
<1>2. PICK new : handlers' = [handlers EXCEPT ![h] = new]
                 /\ ~(new.step = "read user" /\ new.op = "connect")
  <2>1. ASSUME NEW stage, NEW op, NEW password, NEW carried, op # "connect",
               Starts(h, stage, op, password, carried)
        PROVE  \E new : handlers' = [handlers EXCEPT ![h] = new]
                        /\ ~(new.step = "read user" /\ new.op = "connect")
    <3> DEFINE new == [AtRest EXCEPT !.step = stage, !.op = op, !.password = password,
                                     !.token = carried]
    <3>1. new.op = op
      BY DEF AtRest
    <3>2. handlers' = [handlers EXCEPT ![h] = new]
      BY <2>1 DEF Starts
    <3> QED
      BY <2>1, <3>1, <3>2
  <2>2. ASSUME RevokeLive(h)
        PROVE  \E new : handlers' = [handlers EXCEPT ![h] = new]
                        /\ ~(new.step = "read user" /\ new.op = "connect")
    <3> DEFINE new == [handlers[h] EXCEPT !.step = "commit", !.seen = Live]
    <3>1. new.step = "commit"
      BY <1>1 DEF Handler
    <3>2. handlers' = [handlers EXCEPT ![h] = new]
      BY <1>1, <2>2 DEF RevokeLive
    <3> QED
      BY <3>1, <3>2
  <2>3. ASSUME handlers' = [handlers EXCEPT ![h] = AtRest]
        PROVE  \E new : handlers' = [handlers EXCEPT ![h] = new]
                        /\ ~(new.step = "read user" /\ new.op = "connect")
    BY <2>3, RestIsHandler
  <2> QED
    BY <2>1, <2>2, <2>3
<1>3. g # h
  BY <1>1, <1>2 DEF Connecting
<1>4. handlers'[g] = handlers[g]
  BY <1>1, <1>2, <1>3
<1> QED
  BY <1>4 DEF Connecting

\* A commit of another handler leaves one that connects alone.
LEMMA CommitsKeepTickets ==
    ASSUME SessionsInv, NEW hs \in SUBSET Handlers,
           handlers' = [g \in Handlers |->
               IF g \in hs THEN AtRest
               ELSE [handlers[g] EXCEPT !.crossed = handlers[g] # AtRest]]
    PROVE  \A g \in Handlers :
               Connecting(g)' => Connecting(g) /\ handlers'[g].token = handlers[g].token
<1> SUFFICES ASSUME NEW g \in Handlers, Connecting(g)'
             PROVE  Connecting(g) /\ handlers'[g].token = handlers[g].token
  OBVIOUS
<1>1. g \notin hs
  BY RestIsHandler DEF Connecting
<1>2. handlers'[g] = [handlers[g] EXCEPT !.crossed = handlers[g] # AtRest]
  BY <1>1
<1>3. handlers[g] \in Handler
  BY DEF SessionsInv, SessionInv, SessionTypes
<1>4. /\ handlers'[g].step = handlers[g].step
      /\ handlers'[g].op = handlers[g].op
      /\ handlers'[g].token = handlers[g].token
  BY <1>2, <1>3 DEF Handler
<1> QED
  BY <1>4 DEF Connecting

LEMMA BeginConnectKeepsTickets ==
    ASSUME SessionsInv, TicketsInv, NEW h \in Handlers, BeginConnect(h)
    PROVE  TicketsInv'
<1>1. PICK t \in (1..Len(tickets)) \ used :
          /\ handlers' = [handlers EXCEPT ![h] =
                [AtRest EXCEPT !.step = "read user", !.op = "connect", !.token = t]]
          /\ used' = used \cup {t}
  BY DEF BeginConnect
<1>2. [AtRest EXCEPT !.step = "read user", !.op = "connect", !.token = t].token = t
  BY DEF AtRest
<1>3. /\ handlers'[h].token = t
      /\ \A g \in Handlers \ {h} : handlers'[g] = handlers[g]
  BY <1>1, <1>2 DEF SessionsInv, SessionInv, SessionTypes
<1>4. t \notin used /\ used' = used \cup {t} /\ UNCHANGED connections
  BY <1>1 DEF BeginConnect
<1>5. \A g \in Handlers \ {h} : Connecting(g)' => Connecting(g)
  BY <1>3 DEF Connecting
<1> QED
  BY <1>3, <1>4, <1>5 DEF TicketsInv, TicketsOpenOneConnection

LEMMA ConnectKeepsTickets ==
    ASSUME SessionsInv, TicketsInv, NEW h \in Handlers, Connect(h)
    PROVE  TicketsInv'
<1> DEFINE ticket == handlers[h].token
<1>1. /\ Connecting(h) /\ handlers' = [handlers EXCEPT ![h] = AtRest]
      /\ handlers \in [Handlers -> Handler] /\ ticket \in used
  BY DEF Connect, Connecting, SessionsInv, SessionInv, SessionTypes, TicketsInv
<1>2. /\ ~Connecting(h)'
      /\ \A g \in Handlers : Connecting(g)' =>
            g # h /\ Connecting(g) /\ handlers'[g].token = handlers[g].token
  BY <1>1, RestIsHandler DEF Connecting
<1>3. CASE used' = used \ {ticket} /\ UNCHANGED connections
  BY <1>1, <1>2, <1>3 DEF TicketsInv, TicketsOpenOneConnection
<1>4. CASE connections' = Append(connections, ticket) /\ UNCHANGED used
  <2>1. PICK n \in Nat : n = Len(connections)
    BY DEF TicketsInv
  <2>2. ticket \in Nat
    BY DEF SessionsInv, SessionInv, SessionTypes, Handler
  <2> HIDE DEF ticket
  <2>3. /\ connections' \in Seq(Nat) /\ Len(connections') = n + 1
        /\ \A i \in 1..n : connections'[i] = connections[i]
        /\ connections'[n + 1] = ticket
    BY <1>4, <2>1, <2>2, AppendProperties DEF TicketsInv
  <2>4. \A i \in 1..n : connections[i] # ticket /\ connections[i] \in used
    BY <1>1, <2>1 DEF TicketsInv, ticket
  <2>5. \A i \in 1..(n + 1) : i \in 1..n \/ i = n + 1
    BY <2>1
  <2>6. \A i \in 1..(n + 1) : connections'[i] \in used'
    BY <1>1, <1>4, <2>3, <2>4, <2>5
  <2>7. \A i, j \in 1..(n + 1) : connections'[i] = connections'[j] => i = j
    <3>1. \A i, j \in 1..n : connections'[i] = connections'[j] => i = j
      BY <2>1, <2>3 DEF TicketsInv, TicketsOpenOneConnection
    <3>2. \A i \in 1..n : connections'[i] # connections'[n + 1]
      BY <2>3, <2>4
    <3> QED
      BY <2>5, <3>1, <3>2
  <2>8. ASSUME NEW g \in Handlers, Connecting(g)'
        PROVE  /\ handlers'[g].token \in used'
               /\ \A i \in 1..(n + 1) : connections'[i] # handlers'[g].token
    <3>1. /\ g # h /\ Connecting(g) /\ handlers'[g].token = handlers[g].token
      BY <1>2, <2>8
    <3>2. handlers[g].token # ticket
      BY <1>1, <3>1 DEF TicketsInv, ticket
    <3>3. handlers[g].token \in used /\ \A i \in 1..n : connections[i] # handlers[g].token
      BY <2>1, <3>1 DEF TicketsInv
    <3> QED
      BY <1>4, <2>3, <2>5, <3>1, <3>2, <3>3
  <2>9. \A f, g \in Handlers :
           Connecting(f)' /\ Connecting(g)' /\ handlers'[f].token = handlers'[g].token => f = g
    BY <1>2 DEF TicketsInv
  <2> QED
    BY <2>3, <2>6, <2>7, <2>8, <2>9 DEF TicketsInv, TicketsOpenOneConnection
<1> QED
  BY <1>3, <1>4 DEF Connect

LEMMA StepTickets == SessionsInv /\ TicketsInv /\ [Next]_vars => TicketsInv'
<1> SUFFICES ASSUME SessionsInv, TicketsInv, [SessionNext]_sessionVars PROVE TicketsInv'
  BY SessionScene
<1>1. CASE SessionNext
  <2>1. ASSUME NEW h \in Handlers,
               \/ BeginLogin(h) \/ BeginRefresh(h) \/ BeginDeactivate(h) \/ BeginUpdateUser(h)
               \/ BeginChangePassword(h) \/ BeginResetPassword(h) \/ BeginResetByMail(h)
        PROVE  TicketsInv'
    <3>1. PICK stage, op, password, carried :
            op # "connect" /\ Starts(h, stage, op, password, carried)
      BY <2>1 DEF BeginLogin, BeginRefresh, BeginDeactivate, BeginUpdateUser,
         BeginChangePassword, BeginResetPassword, BeginResetByMail
    <3>2. UNCHANGED <<used, connections>>
      BY <3>1 DEF Starts
    <3> QED
      BY <3>1, <3>2, NobodyElseConnects, OthersKeepTickets
  <2>2. ASSUME NEW h \in Handlers, RevokeLive(h) PROVE TicketsInv'
    <3>1. UNCHANGED <<used, connections>>
      BY <2>2 DEF RevokeLive
    <3> QED
      BY <2>2, <3>1, NobodyElseConnects, OthersKeepTickets
  <2>3. ASSUME NEW h \in Handlers, MintAccessToken(h) PROVE TicketsInv'
    <3>1. UNCHANGED <<used, connections>> /\ handlers' = [handlers EXCEPT ![h] = AtRest]
      BY <2>3 DEF MintAccessToken
    <3> QED
      BY <3>1, NobodyElseConnects, OthersKeepTickets
  <2>4. ASSUME NEW h \in Handlers,
               \/ CommitLogin(h) \/ CommitDeactivate(h) \/ CommitPassword(h)
               \/ CommitUpdateUser(h)
        PROVE  TicketsInv'
    <3>1. UNCHANGED <<used, connections>> /\ Committed(h)
      BY <2>4 DEF CommitLogin, CommitDeactivate, CommitPassword, CommitUpdateUser, EndsSessions
    <3>2. handlers' = [g \in Handlers |->
                 IF g \in {h} THEN AtRest
                 ELSE [handlers[g] EXCEPT !.crossed = handlers[g] # AtRest]]
      BY <3>1 DEF Committed
    <3>3. {h} \in SUBSET Handlers
      OBVIOUS
    <3> QED
      BY <3>1, <3>2, <3>3, CommitsKeepTickets, OthersKeepTickets
  <2>5. CASE Logout
    <3>1. UNCHANGED <<used, connections>>
      BY <2>5 DEF Logout
    <3>2. handlers' = [g \in Handlers |->
                 IF g \in {} THEN AtRest
                 ELSE [handlers[g] EXCEPT !.crossed = handlers[g] # AtRest]]
      BY <2>5 DEF Logout
    <3>3. {} \in SUBSET Handlers
      OBVIOUS
    <3> QED
      BY <3>1, <3>2, <3>3, CommitsKeepTickets, OthersKeepTickets
  <2>6. CASE IssueTicket
    <3>1. UNCHANGED <<used, connections, handlers>>
      BY <2>6 DEF IssueTicket
    <3> QED
      BY <3>1, OthersKeepTickets DEF Connecting
  <2>7. CASE RestartSessions
    <3>1. connections' = << >> /\ \A h \in Handlers : handlers'[h] = AtRest
      BY <2>7 DEF RestartSessions
    <3>2. Len(connections') = 0 /\ connections' \in Seq(Nat)
      BY <3>1
    <3>3. \A h \in Handlers : ~Connecting(h)'
      BY <3>1, RestIsHandler DEF Connecting
    <3> QED
      BY <3>2, <3>3 DEF TicketsInv, TicketsOpenOneConnection
  <2> QED
    BY <1>1, <2>1, <2>2, <2>3, <2>4, <2>5, <2>6, <2>7, BeginConnectKeepsTickets,
       ConnectKeepsTickets DEF SessionNext
<1>2. CASE UNCHANGED sessionVars
  <2>1. UNCHANGED <<used, connections, handlers>>
    BY <1>2 DEF sessionVars
  <2> QED
    BY <2>1, OthersKeepTickets DEF Connecting
<1> QED
  BY <1>1, <1>2

\* A websocket ticket opens one connection, whatever comes between marking it
\* as used and reading the account, two upgrades with the same ticket at the
\* same time among it (verifyAndConsumeWebSocketTicket in auth.service.js).
THEOREM TicketsOpenOne == Spec => []TicketsOpenOneConnection
<1>1. TicketsInv => TicketsOpenOneConnection
  BY DEF TicketsInv
<1> QED
  BY <1>1, InitSessions, StepSessions, StepTickets, PTL DEF Spec
-----------------------------------------------------------------------------
(* The administration of accounts.                                         *)

AccountRows == [role : Roles \cup {"none"}, active : BOOLEAN, created : Nat]
Data == [role : SUBSET Roles, active : SUBSET BOOLEAN]
AuditEntries == [actor : Staff, target : Staff,
                 action : {"USER_CREATED", "USER_UPDATED", "USER_DEACTIVATED"},
                 before : [role : Roles \cup {"none"}, active : BOOLEAN],
                 after : [role : Roles \cup {"none"}, active : BOOLEAN]]
Jobs == [op : {"create", "update", "deactivate"}, by : Staff, role : Roles \cup {"none"},
         id : Staff,
         step : {"read", "write"}, existing : AccountRows, data : {NoRow} \cup Data]

AdminTypes ==
    /\ staff \in [Staff -> AccountRows]
    /\ jobs \in [Agents -> {IdleJob} \cup Jobs]
    /\ audit \in Seq(AuditEntries)
    /\ overtaken \in BOOLEAN

\* What was asked for has been admitted by what was read, and who creates or deactivates
\* is an administrator.
JobsAreAdmitted ==
    \A a \in Agents : LET job == jobs[a] IN
        job # IdleJob =>
            /\ job.op # "update" => job.role = "SUPER_ADMIN"
            /\ job.op # "create" => Exists(job.id)
            /\ job.step = "write" =>
                  /\ job.data \in Data
                  /\ job.op = "update" => AdmitsUpdate(job, job.existing, job.data)
                  /\ job.op = "deactivate" => AdmitsDeactivation(job)

\* Only accounts that were created are logged, and no account is removed.
LoggedExist == \A i \in DOMAIN audit : Exists(audit[i].target)
AccountsAreNumbered == \A u \in Staff : Exists(u) => staff[u].created # 0

AdminInv ==
    /\ AdminTypes /\ JobsAreAdmitted /\ LoggedExist /\ AccountsAreNumbered
    /\ AnAdministratorRemains /\ AuditExplainsAccounts

\* Only the end of the table of accounts and of the log is touched by a commit.
LEMMA WrittenIs ==
    ASSUME AdminTypes, NEW a \in Agents, jobs[a] \in Jobs, NEW row \in AccountRows,
           NEW action \in {"USER_CREATED", "USER_UPDATED", "USER_DEACTIVATED"},
           Writes(a, row, action)
    PROVE  /\ AdminTypes'
           /\ staff' = [staff EXCEPT ![jobs[a].id] = row]
           /\ jobs' = [jobs EXCEPT ![a] = IdleJob]
           /\ overtaken' = (overtaken \/ Overtaken(jobs[a]))
           /\ Len(audit) \in Nat /\ Len(audit') = Len(audit) + 1
           /\ \A i \in 1..Len(audit) : audit'[i] = audit[i]
           /\ audit'[Len(audit) + 1].target = jobs[a].id
           /\ audit'[Len(audit) + 1].before = Snapshot(jobs[a].existing)
           /\ audit'[Len(audit) + 1].after = Snapshot(row)
<1> DEFINE logged == [actor |-> jobs[a].by, target |-> jobs[a].id, action |-> action,
                      before |-> Snapshot(jobs[a].existing), after |-> Snapshot(row)]
<1>1. /\ jobs[a].by \in Staff /\ jobs[a].id \in Staff /\ jobs[a].existing \in AccountRows
  BY DEF Jobs
<1>2. ASSUME NEW x \in AccountRows
      PROVE  Snapshot(x) \in [role : Roles \cup {"none"}, active : BOOLEAN]
  BY DEF Snapshot, AccountRows
<1>3. logged \in AuditEntries
  BY <1>1, <1>2 DEF AuditEntries
<1>4. /\ logged.target = jobs[a].id /\ logged.before = Snapshot(jobs[a].existing)
      /\ logged.after = Snapshot(row)
  OBVIOUS
<1>5. /\ staff' = [staff EXCEPT ![jobs[a].id] = row] /\ audit' = Append(audit, logged)
      /\ jobs' = [jobs EXCEPT ![a] = IdleJob] /\ overtaken' = (overtaken \/ Overtaken(jobs[a]))
  BY DEF Writes, Answers
<1> HIDE DEF logged
<1>6. /\ audit' \in Seq(AuditEntries)
      /\ Len(audit) \in Nat /\ Len(audit') = Len(audit) + 1
      /\ \A i \in 1..Len(audit) : audit'[i] = audit[i]
      /\ audit'[Len(audit) + 1] = logged
  BY <1>3, <1>5, AppendProperties DEF AdminTypes
<1>7. staff' \in [Staff -> AccountRows] /\ jobs' \in [Agents -> {IdleJob} \cup Jobs]
  BY <1>1, <1>5 DEF AdminTypes
<1>8. overtaken' \in BOOLEAN
  BY <1>5
<1> QED
  BY <1>4, <1>5, <1>6, <1>7, <1>8 DEF AdminTypes

\* The log explains the accounts after a commit as well.
LEMMA WriteIsExplained ==
    ASSUME AdminInv, NEW a \in Agents, jobs[a] \in Jobs, NEW row \in AccountRows, row # NoRow,
           NEW action \in {"USER_CREATED", "USER_UPDATED", "USER_DEACTIVATED"},
           Writes(a, row, action),
           jobs[a].op = "create" => ~Exists(jobs[a].id)
    PROVE  AdminTypes' /\ LoggedExist' /\ AuditExplainsAccounts'
<1> DEFINE n == Len(audit)
           id == jobs[a].id
<1>1. /\ AdminTypes /\ AdminTypes'
      /\ staff' = [staff EXCEPT ![id] = row]
      /\ overtaken' = (overtaken \/ Overtaken(jobs[a]))
      /\ n \in Nat /\ Len(audit') = n + 1
      /\ \A i \in 1..n : audit'[i] = audit[i]
      /\ audit'[n + 1].target = id /\ audit'[n + 1].before = Snapshot(jobs[a].existing)
      /\ audit'[n + 1].after = Snapshot(row)
  BY WrittenIs DEF AdminInv
<1>2. DOMAIN audit = 1..n /\ DOMAIN audit' = 1..(n + 1) /\ id \in Staff
  BY <1>1, LenProperties DEF AdminTypes, Jobs
<1>3. staff'[id] = row /\ \A u \in Staff : u # id => staff'[u] = staff[u]
  BY <1>1, <1>2 DEF AdminTypes
<1>4. \A i \in 1..n : audit[i].target \in Staff
  <2>1. \A i \in 1..n : audit[i] \in AuditEntries
    BY <1>1, <1>2, ElementOfSeq DEF AdminTypes
  <2> QED
    BY <2>1 DEF AuditEntries
<1>5. /\ \A i \in 1..n : Exists(audit[i].target)
      /\ \A i \in 1..n : \/ audit[i].after = Snapshot(staff[audit[i].target])
                         \/ \E j \in 1..n : i < j /\ audit[j].target = audit[i].target
      /\ overtaken \/ \A i, j \in 1..n : IsNextEntry(i, j) => audit[j].before = audit[i].after
  BY <1>2 DEF AdminInv, LoggedExist, AuditExplainsAccounts
<1> HIDE DEF n
<1>6. LoggedExist'
  <2>1. \A u \in Staff : Exists(u) => staff'[u] # NoRow
    BY <1>3 DEF Exists
  <2>2. \A i \in 1..(n + 1) : i \in 1..n \/ i = n + 1
    BY <1>1
  <2> QED
    BY <1>1, <1>2, <1>3, <1>4, <1>5, <2>1, <2>2 DEF LoggedExist, Exists
<1>7. ASSUME NEW i \in 1..(n + 1)
      PROVE  \/ audit'[i].after = Snapshot(staff'[audit'[i].target])
             \/ \E j \in 1..(n + 1) : i < j /\ audit'[j].target = audit'[i].target
  <2>1. CASE i = n + 1
    BY <1>1, <1>3, <2>1
  <2>2. CASE i \in 1..n /\ audit[i].target = id
    BY <1>1, <2>2
  <2>3. CASE i \in 1..n /\ audit[i].target # id
    BY <1>1, <1>3, <1>4, <1>5, <2>3
  <2> QED
    BY <1>1, <2>1, <2>2, <2>3
<1>8. ASSUME ~overtaken', NEW i \in 1..(n + 1), NEW j \in 1..(n + 1), IsNextEntry(i, j)'
      PROVE  audit'[j].before = audit'[i].after
  <2>1. ~overtaken /\ ~Overtaken(jobs[a])
    BY <1>1, <1>8
  <2>2. /\ i < j /\ audit'[i].target = audit'[j].target
        /\ \A k \in 1..(n + 1) : i < k /\ k < j => audit'[k].target # audit'[j].target
    BY <1>2, <1>8 DEF IsNextEntry
  <2>3. CASE j \in 1..n
    <3>1. i \in 1..n /\ IsNextEntry(i, j)
      BY <1>1, <1>2, <2>2, <2>3 DEF IsNextEntry
    <3> QED
      BY <1>1, <1>5, <2>1, <2>3, <3>1
  <2>4. CASE j = n + 1
    <3>1. /\ i \in 1..n /\ audit[i].target = id
          /\ ~\E k \in 1..n : i < k /\ audit[k].target = id
      BY <1>1, <2>2, <2>4
    <3>2. audit[i].after = Snapshot(staff[id]) /\ Exists(id)
      BY <1>5, <3>1
    <3>3. staff[id] = jobs[a].existing
      BY <2>1, <3>2 DEF Overtaken
    <3> QED
      BY <1>1, <2>4, <3>1, <3>2, <3>3
  <2> QED
    BY <1>1, <2>3, <2>4
<1> QED
  BY <1>1, <1>2, <1>6, <1>7, <1>8 DEF AuditExplainsAccounts

LEMMA WithIsRow ==
    ASSUME NEW row \in AccountRows, NEW change \in Data
    PROVE  /\ With(row, change) \in AccountRows
           /\ With(row, change).created = row.created
           /\ With(row, change).role \in {row.role} \cup change.role
           /\ With(row, change).active \in {row.active} \cup change.active
<1> DEFINE newRole == IF change.role = {} THEN row.role ELSE CHOOSE r \in change.role : TRUE
           newActive == IF change.active = {} THEN row.active
                      ELSE CHOOSE b \in change.active : TRUE
<1>1. newRole \in {row.role} \cup change.role /\ newActive \in {row.active} \cup change.active
  OBVIOUS
<1>2. newRole \in Roles \cup {"none"} /\ newActive \in BOOLEAN
  BY <1>1 DEF AccountRows, Data
<1>3. With(row, change) = [row EXCEPT !.role = newRole, !.active = newActive]
  BY DEF With
<1> HIDE DEF newRole, newActive
<1> QED
  BY <1>1, <1>2, <1>3 DEF AccountRows

IsAdministrator(u) == staff[u].role = "SUPER_ADMIN" /\ staff[u].active

\* A commit that decided by what still holds leaves an administrator: the one who asked.
LEMMA CommitKeepsAdmin ==
    ASSUME AdminInv, NEW a \in Agents, jobs[a] \in Jobs,
           NEW row \in AccountRows, row.created # 0,
           NEW action \in {"USER_CREATED", "USER_UPDATED", "USER_DEACTIVATED"},
           Writes(a, row, action),
           jobs[a].op = "create" => ~Exists(jobs[a].id),
           ~Overtaken(jobs[a]) =>
              \/ jobs[a].role = "SUPER_ADMIN" /\ jobs[a].by # jobs[a].id
              \/ row.role = staff[jobs[a].id].role /\ row.active = staff[jobs[a].id].active
    PROVE  AdminInv'
<1> DEFINE id == jobs[a].id
<1>1. row # NoRow
  BY DEF NoRow
<1>2. AdminTypes' /\ LoggedExist' /\ AuditExplainsAccounts'
  BY <1>1, WriteIsExplained
<1>3. /\ staff' = [staff EXCEPT ![id] = row] /\ jobs' = [jobs EXCEPT ![a] = IdleJob]
      /\ overtaken' = (overtaken \/ Overtaken(jobs[a])) /\ overtaken \in BOOLEAN
  BY WrittenIs DEF AdminInv, AdminTypes
<1>4. id \in Staff /\ jobs[a].by \in Staff
  BY DEF Jobs
<1>5. staff'[id] = row /\ \A u \in Staff : u # id => staff'[u] = staff[u]
  BY <1>3, <1>4 DEF AdminInv, AdminTypes
<1>6. \A u \in Staff : Exists(u) => Exists(u)'
  BY <1>1, <1>5 DEF Exists
<1>7. AccountsAreNumbered'
  BY <1>5 DEF AdminInv, AccountsAreNumbered, Exists
<1>8. JobsAreAdmitted'
  <2> SUFFICES ASSUME NEW b \in Agents, jobs'[b] # IdleJob
               PROVE  /\ jobs'[b] = jobs[b] /\ jobs[b] \in Jobs
    BY <1>6 DEF AdminInv, AdminTypes, JobsAreAdmitted, AdmitsUpdate, AdmitsDeactivation, Jobs
  <2> QED
    BY <1>3 DEF AdminInv, AdminTypes
<1>9. AnAdministratorRemains'
  <2> SUFFICES ASSUME ~overtaken'
               PROVE  \E u \in Staff : staff'[u].role = "SUPER_ADMIN" /\ staff'[u].active
    BY DEF AnAdministratorRemains
  <2>1. ~overtaken /\ ~Overtaken(jobs[a])
    BY <1>3
  <2>2. PICK u \in Staff : IsAdministrator(u)
    BY <2>1 DEF AdminInv, AnAdministratorRemains, IsAdministrator
  <2>3. staff[jobs[a].by].active /\ staff[jobs[a].by].role = jobs[a].role
    BY <2>1 DEF Overtaken, Authenticated
  <2>4. CASE jobs[a].role = "SUPER_ADMIN" /\ jobs[a].by # jobs[a].id
    BY <1>4, <1>5, <2>3, <2>4
  <2>5. CASE row.role = staff[id].role /\ row.active = staff[id].active
    BY <1>5, <2>2, <2>5 DEF IsAdministrator
  <2> QED
    BY <2>1, <2>4, <2>5
<1> QED
  BY <1>2, <1>7, <1>8, <1>9 DEF AdminInv

LEMMA AdminStarts == AdminInit => AdminInv
<1> SUFFICES ASSUME AdminInit PROVE AdminInv
  OBVIOUS
<1> DEFINE first == [role |-> "SUPER_ADMIN", active |-> TRUE, created |-> 1]
<1>1. first \in AccountRows /\ NoRow \in AccountRows
  BY DEF AccountRows, NoRow, Roles
<1>2. staff = [u \in Staff |-> IF u = Founder THEN first ELSE NoRow] /\ Founder \in Staff
  BY AdminAssumption DEF AdminInit
<1>3. first.role = "SUPER_ADMIN" /\ first.active = TRUE /\ first.created # 0
  OBVIOUS
<1> HIDE DEF first
<1>4. jobs = [a \in Agents |-> IdleJob] /\ audit = << >> /\ overtaken = FALSE
  BY DEF AdminInit
<1>5. AdminTypes
  <2>1. staff \in [Staff -> AccountRows]
    BY <1>1, <1>2
  <2>2. jobs \in [Agents -> {IdleJob} \cup Jobs]
    BY <1>4
  <2>3. audit \in Seq(AuditEntries)
    BY <1>4, EmptySeq
  <2> QED
    BY <1>4, <2>1, <2>2, <2>3 DEF AdminTypes
<1>6. JobsAreAdmitted /\ LoggedExist /\ AuditExplainsAccounts
  BY <1>4 DEF JobsAreAdmitted, LoggedExist, AuditExplainsAccounts
<1>7. AnAdministratorRemains
  BY <1>2, <1>3 DEF AnAdministratorRemains
<1>8. AccountsAreNumbered
  BY <1>2, <1>3 DEF AccountsAreNumbered, Exists
<1> QED
  BY <1>5, <1>6, <1>7, <1>8 DEF AdminInv

\* The accounts and the log are left alone, and one request begins, ends or goes on.
LEMMA JobKeepsAdmin ==
    ASSUME AdminInv, NEW a \in Agents, NEW job,
           UNCHANGED <<staff, audit, overtaken>>, jobs' = [jobs EXCEPT ![a] = job],
           job # IdleJob =>
              /\ job \in Jobs
              /\ job.op # "update" => job.role = "SUPER_ADMIN"
              /\ job.op # "create" => Exists(job.id)
              /\ job.step = "write" =>
                    /\ job.data \in Data
                    /\ job.op = "update" => AdmitsUpdate(job, job.existing, job.data)
                    /\ job.op = "deactivate" => AdmitsDeactivation(job)
    PROVE  AdminInv'
<1>1. AdminTypes'
  BY DEF AdminInv, AdminTypes
<1>2. JobsAreAdmitted'
  <2> SUFFICES ASSUME NEW b \in Agents, jobs'[b] # IdleJob
               PROVE  /\ jobs'[b] \in {jobs[b], job} /\ jobs'[b] = job => job # IdleJob
                      /\ b # a => jobs'[b] = jobs[b]
                      /\ b = a => jobs'[b] = job
    BY DEF AdminInv, JobsAreAdmitted, Exists, AdmitsUpdate, AdmitsDeactivation
  <2> QED
    BY DEF AdminInv, AdminTypes
<1>3. LoggedExist' /\ AccountsAreNumbered'
  BY DEF AdminInv, LoggedExist, AccountsAreNumbered, Exists
<1>4. AnAdministratorRemains'
  BY DEF AdminInv, AnAdministratorRemains
<1>5. AuditExplainsAccounts'
  BY DEF AdminInv, AuditExplainsAccounts, IsNextEntry, Snapshot
<1> QED
  BY <1>1, <1>2, <1>3, <1>4, <1>5 DEF AdminInv

\* What a request has read is what it writes by.
LEMMA ReadsKeepsAdmin ==
    ASSUME AdminInv, NEW a \in Agents, jobs[a] \in Jobs, NEW change \in Data, Reads(a, change),
           jobs[a].op = "update" => AdmitsUpdate(jobs[a], staff[jobs[a].id], change),
           jobs[a].op = "deactivate" => AdmitsDeactivation(jobs[a])
    PROVE  AdminInv'
<1> DEFINE job == [jobs[a] EXCEPT !.step = "write", !.existing = staff[jobs[a].id],
                                  !.data = change]
<1>1. jobs' = [jobs EXCEPT ![a] = job] /\ UNCHANGED <<staff, audit, overtaken>>
  BY DEF Reads, AdminInv, AdminTypes
<1>2. staff[jobs[a].id] \in AccountRows
  BY DEF AdminInv, AdminTypes, Jobs
<1>3. /\ job \in Jobs /\ job.existing = staff[jobs[a].id] /\ job.data = change
      /\ job.op = jobs[a].op /\ job.by = jobs[a].by /\ job.id = jobs[a].id
      /\ job.role = jobs[a].role
  BY <1>2 DEF Jobs
<1> HIDE DEF job
<1>4. jobs[a] # IdleJob
  BY DEF Jobs, IdleJob
<1>5. /\ job.op # "update" => job.role = "SUPER_ADMIN"
      /\ job.op # "create" => Exists(job.id)
  BY <1>3, <1>4 DEF AdminInv, JobsAreAdmitted
<1>6. /\ job.op = "update" => AdmitsUpdate(job, job.existing, job.data)
      /\ job.op = "deactivate" => AdmitsDeactivation(job)
  BY <1>3 DEF AdmitsUpdate, AdmitsDeactivation
<1> QED
  BY <1>1, <1>3, <1>5, <1>6, JobKeepsAdmin

LEMMA AdminStep == ASSUME AdminInv, AdminNext PROVE AdminInv'
<1>1. ASSUME NEW u \in Staff, EntersStaff(u) PROVE AdminInv'
  <2>1. UNCHANGED <<staff, jobs, audit, overtaken>>
    BY <1>1 DEF EntersStaff
  <2> QED
    BY <2>1 DEF AdminInv, AdminTypes, JobsAreAdmitted, LoggedExist, AccountsAreNumbered,
       AnAdministratorRemains, AuditExplainsAccounts, IsNextEntry, Snapshot, Exists, AdmitsUpdate,
       AdmitsDeactivation
<1>2. ASSUME NEW a \in Agents, BeginJob(a) PROVE AdminInv'
  <2>1. PICK u \in Staff, id \in Staff, op \in {"create", "update", "deactivate"} :
           /\ Authenticated(u) /\ RequireRole(op, u)
           /\ op = "create" <=> ~Exists(id)
           /\ jobs' = [jobs EXCEPT ![a] = [op |-> op, by |-> u, role |-> staff[u].role, id |-> id,
                                           step |-> "read", existing |-> NoRow, data |-> NoRow]]
    BY <1>2 DEF BeginJob
  <2> DEFINE job == [op |-> op, by |-> u, role |-> staff[u].role, id |-> id,
                     step |-> "read", existing |-> NoRow, data |-> NoRow]
  <2>2. NoRow \in AccountRows /\ staff[u].role \in Roles \cup {"none"}
    BY DEF AdminInv, AdminTypes, AccountRows, NoRow
  <2>3. /\ job \in Jobs /\ job.op = op /\ job.id = id /\ job.role = staff[u].role
        /\ job.step = "read"
    BY <2>2 DEF Jobs
  <2>4. jobs' = [jobs EXCEPT ![a] = job] /\ UNCHANGED <<staff, audit, overtaken>>
    BY <1>2, <2>1 DEF BeginJob
  <2> HIDE DEF job
  <2>5. job.op # "update" => job.role = "SUPER_ADMIN"
    BY <2>1, <2>3 DEF RequireRole
  <2> QED
    BY <2>1, <2>3, <2>4, <2>5, JobKeepsAdmin
<1>3. ASSUME NEW a \in Agents, ReadForUpdate(a) \/ ReadForDeactivation(a) \/ PrepareCreation(a)
      PROVE  AdminInv'
  <2>1. jobs[a] \in Jobs
    BY <1>3 DEF ReadForUpdate, ReadForDeactivation, PrepareCreation, AdminInv, AdminTypes, IdleJob
  <2>2. CASE ReadForUpdate(a)
    <3>1. PICK change \in Asked : AdmitsUpdate(jobs[a], staff[jobs[a].id], change)
                                  /\ Reads(a, change)
      BY <2>2 DEF ReadForUpdate
    <3>2. change \in Data /\ jobs[a].op = "update"
      BY <2>2 DEF ReadForUpdate, Asked, Data, Roles
    <3> QED
      BY <2>1, <3>1, <3>2, ReadsKeepsAdmin
  <2>3. CASE ReadForDeactivation(a)
    <3>1. [role |-> {}, active |-> {FALSE}] \in Data
      BY DEF Data
    <3> QED
      BY <2>1, <2>3, <3>1, ReadsKeepsAdmin DEF ReadForDeactivation
  <2>4. CASE PrepareCreation(a)
    <3>1. PICK role \in Roles, active \in BOOLEAN :
             Reads(a, [role |-> {role}, active |-> {active}])
      BY <2>4 DEF PrepareCreation
    <3>2. [role |-> {role}, active |-> {active}] \in Data
      BY DEF Data
    <3> QED
      BY <2>1, <2>4, <3>1, <3>2, ReadsKeepsAdmin DEF PrepareCreation
  <2> QED
    BY <1>3, <2>2, <2>3, <2>4
<1>4. ASSUME NEW a \in Agents, CommitCreation(a) PROVE AdminInv'
  <2>1. jobs[a] \in Jobs /\ jobs[a] # IdleJob
    BY <1>4 DEF CommitCreation, AdminInv, AdminTypes, IdleJob
  <2>2. jobs[a].data \in Data /\ jobs[a].role = "SUPER_ADMIN"
    BY <1>4, <2>1 DEF CommitCreation, AdminInv, JobsAreAdmitted
  <2> DEFINE c == Cardinality({u \in Staff : Exists(u)})
             row == [With(NoRow, jobs[a].data) EXCEPT !.created = c + 1]
  <2>3. c \in Nat
    <3>1. {u \in Staff : Exists(u)} \in SUBSET Staff
      OBVIOUS
    <3> QED
      BY <3>1, AdminAssumption, FS_Subset, FS_CardinalityType
  <2> HIDE DEF c
  <2>4. With(NoRow, jobs[a].data) \in AccountRows
    <3>1. NoRow \in AccountRows
      BY DEF NoRow, AccountRows
    <3> QED
      BY <2>2, <3>1, WithIsRow
  <2>5. row \in AccountRows /\ row.created # 0
    BY <2>3, <2>4 DEF AccountRows
  <2>6. Writes(a, row, "USER_CREATED") /\ ~Exists(jobs[a].id)
    BY <1>4 DEF CommitCreation, c
  <2> HIDE DEF row
  <2>7. ~Overtaken(jobs[a]) => jobs[a].by # jobs[a].id
    BY <2>6 DEF Overtaken, Authenticated, Exists, NoRow
  <2> QED
    BY <2>1, <2>2, <2>5, <2>6, <2>7, CommitKeepsAdmin
<1>5. ASSUME NEW a \in Agents, CommitUpdate(a) PROVE AdminInv'
  <2>1. /\ jobs[a] \in Jobs /\ jobs[a] # IdleJob
        /\ jobs[a].op \in {"update", "deactivate"} /\ jobs[a].step = "write"
    BY <1>5 DEF CommitUpdate, AdminInv, AdminTypes, IdleJob
  <2>2. /\ jobs[a].data \in Data /\ Exists(jobs[a].id)
        /\ jobs[a].op = "update" => AdmitsUpdate(jobs[a], jobs[a].existing, jobs[a].data)
        /\ jobs[a].op = "deactivate" => jobs[a].role = "SUPER_ADMIN" /\ jobs[a].by # jobs[a].id
    BY <2>1 DEF AdminInv, JobsAreAdmitted, AdmitsDeactivation
  <2> DEFINE row == With(staff[jobs[a].id], jobs[a].data)
  <2>3. staff[jobs[a].id] \in AccountRows /\ staff[jobs[a].id].created # 0
    BY <2>1, <2>2 DEF AdminInv, AdminTypes, AccountsAreNumbered, Jobs
  <2>4. /\ row \in AccountRows /\ row.created # 0
        /\ row.role \in {staff[jobs[a].id].role} \cup jobs[a].data.role
        /\ row.active \in {staff[jobs[a].id].active} \cup jobs[a].data.active
    BY <2>2, <2>3, WithIsRow
  <2>5. \E action \in {"USER_UPDATED", "USER_DEACTIVATED"} : Writes(a, row, action)
    BY <1>5 DEF CommitUpdate
  <2> HIDE DEF row
  <2>6. ~Overtaken(jobs[a]) =>
          \/ jobs[a].role = "SUPER_ADMIN" /\ jobs[a].by # jobs[a].id
          \/ row.role = staff[jobs[a].id].role /\ row.active = staff[jobs[a].id].active
    <3> SUFFICES ASSUME ~Overtaken(jobs[a]), jobs[a].op = "update",
                        ~(jobs[a].role = "SUPER_ADMIN" /\ jobs[a].by # jobs[a].id)
                 PROVE  row.role = staff[jobs[a].id].role /\ row.active = staff[jobs[a].id].active
      BY <2>1, <2>2
    <3>1. staff[jobs[a].id] = jobs[a].existing
      BY DEF Overtaken
    <3>2. /\ jobs[a].data.role \subseteq {staff[jobs[a].id].role}
          /\ jobs[a].data.active \subseteq {staff[jobs[a].id].active}
      BY <2>2, <3>1 DEF AdmitsUpdate
    <3> QED
      BY <2>4, <3>2
  <2> QED
    BY <2>1, <2>4, <2>5, <2>6, CommitKeepsAdmin
<1>6. ASSUME NEW a \in Agents, JobFails(a) PROVE AdminInv'
  BY <1>6, JobKeepsAdmin DEF JobFails, Answers
<1> QED
  BY <1>1, <1>2, <1>3, <1>4, <1>5, <1>6 DEF AdminNext

-----------------------------------------------------------------------------
(* The signing out of a tab.                                               *)

Accesses == [session : Nat, lapses : Nat]
Refreshes == [step : {"off", "sent", "ok", "lost", "refused", "profile"}, cookie : Nat,
              token : Accesses]
Calls == [step : {"off", "sent", "waiting", "ok", "lost", "refused"}, token : Accesses,
          retried : BOOLEAN]

\* A refresh with the cookie of a session is refused only when that session is over,
\* and no session comes back.
RefusedIsOver(f) == f.step = "refused" /\ f.cookie # 0 => f.cookie # session

ClientTypes ==
    /\ signIns \in Nat \ {0} /\ session \in 0..signIns /\ lapses \in Nat
    /\ cookie \in 0..signIns /\ token \in Accesses /\ user \in Nat
    /\ opening \in Refreshes /\ refresh \in Refreshes /\ entry \in Refreshes
    /\ requests \in [Requests -> Calls]

\* The page is opened with a cookie of before; whoever signs in meanwhile has a new
\* session, and only the opening asks for the profile.
ClientInv ==
    /\ ClientTypes
    /\ opening.cookie <= 1 /\ refresh.cookie <= signIns
    /\ RefusedIsOver(opening) /\ RefusedIsOver(refresh)
    /\ entry.step = "ok" => entry.token.session \in 2..signIns
    /\ user # 0 /\ opening # Off => user > 1
    /\ requests["me"] # Unsent => opening.step = "profile"

\* There is a reason to send the user back to the login page.
HasCause ==
    \/ leaving # Off
    \/ session # user
    \/ \E f \in {refresh, opening} : f # Off /\ (f.step = "lost" \/ f.cookie # user)

StaysOrHasCause == user # 0 /\ user' = 0 => HasCause

LEMMA OffIsNone ==
    /\ Off \in Refreshes /\ Off.cookie = 0 /\ Off.step = "off" /\ NoToken \in Accesses
    /\ Unsent \in Calls
BY DEF Off, NoToken, Refreshes, Accesses, Unsent, Calls

LEMMA ClientStarts == ClientInit => ClientInv
<1> SUFFICES ASSUME ClientInit PROVE ClientInv
  OBVIOUS
<1>1. Off \in Refreshes /\ Off.cookie = 0 /\ Off.step = "off" /\ NoToken \in Accesses
  BY DEF Off, NoToken, Refreshes, Accesses
<1>2. Unsent \in Calls
  BY <1>1 DEF Unsent, Calls
<1>3. /\ opening \in Refreshes /\ opening.step = "sent" /\ opening.cookie = cookie
  <2>1. cookie \in Nat /\ opening = [Off EXCEPT !.step = "sent", !.cookie = cookie]
    BY DEF ClientInit
  <2> QED
    BY <1>1, <2>1 DEF Refreshes
<1>4. /\ session \in {0, 1} /\ signIns = 1 /\ lapses = 0 /\ cookie \in {0, 1}
      /\ token = NoToken /\ user = 0 /\ refresh = Off /\ entry = Off
      /\ requests = [r \in Requests |-> Unsent]
  BY DEF ClientInit
<1>5. requests \in [Requests -> Calls] /\ requests["me"] = Unsent
  BY <1>2, <1>4 DEF Requests
<1> QED
  BY <1>1, <1>3, <1>4, <1>5 DEF ClientInv, ClientTypes, RefusedIsOver

LEMMA RefreshHandled ==
    ASSUME ClientTypes, NEW f \in Refreshes, NEW g \in Outcomes(f)
    PROVE  /\ g \in Refreshes /\ g.cookie = f.cookie /\ g.step \in {"lost", "ok", "refused"}
           /\ RefusedIsOver(g)
<1>1. CASE g = [f EXCEPT !.step = "lost"]
  BY <1>1 DEF RefusedIsOver, Refreshes
<1>2. CASE /\ f.cookie # 0 /\ f.cookie = session
           /\ g = [f EXCEPT !.step = "ok", !.token = [session |-> session, lapses |-> lapses]]
  <2>1. [session |-> session, lapses |-> lapses] \in Accesses
    BY DEF Accesses, ClientTypes
  <2> QED
    BY <1>2, <2>1 DEF RefusedIsOver, Refreshes
<1>3. CASE ~(f.cookie # 0 /\ f.cookie = session) /\ g = [f EXCEPT !.step = "refused"]
  BY <1>3 DEF RefusedIsOver, Refreshes
<1> QED
  BY <1>1, <1>2, <1>3 DEF Outcomes

\* A request that is answered, waits, or is sent again.
LEMMA CallMovesOn ==
    ASSUME NEW c \in Calls, NEW s \in {"waiting", "ok", "lost", "refused"}
    PROVE  /\ [c EXCEPT !.step = s] \in Calls /\ [c EXCEPT !.step = s, !.retried = TRUE] \in Calls
BY DEF Calls

LEMMA SentIsCall ==
    ASSUME NEW t \in Accesses, NEW retried \in BOOLEAN
    PROVE  Sent(t, retried) \in Calls
BY DEF Sent, Calls

LEMMA MeIsNoPage == "me" \in Requests /\ \A r \in Pages : r # "me" /\ r \in Requests
BY ClientAssumption DEF Requests

LEMMA ServerKeepsClient ==
    ASSUME ClientInv,
           \/ HandleRefresh \/ HandleLogin \/ HandleLogout \/ LapseTokens \/ EndSession
           \/ \E r \in Requests : HandleRequest(r)
    PROVE  ClientInv' /\ user' = user
<1> USE OffIsNone
<1>1. CASE HandleRefresh
  <2>1. /\ opening' \in Refreshes /\ refresh' \in Refreshes
        /\ opening'.cookie = opening.cookie /\ refresh'.cookie = refresh.cookie
        /\ RefusedIsOver(opening)' /\ RefusedIsOver(refresh)'
    BY <1>1, RefreshHandled DEF HandleRefresh, ClientInv, ClientTypes, serverSide, RefusedIsOver
  <2>2. /\ UNCHANGED <<session, signIns, lapses, cookie, token, user, entry, requests>>
        /\ opening.step = "profile" => opening' = opening
        /\ opening' # Off => opening # Off
    BY <1>1 DEF HandleRefresh, serverSide
  <2> QED
    BY <2>1, <2>2 DEF ClientInv, ClientTypes
<1>2. CASE HandleLogin
  <2>1. /\ UNCHANGED <<lapses, cookie, token, user, opening, refresh, requests>>
        /\ entry' \in Refreshes
        /\ \/ /\ signIns' = signIns + 1 /\ session' = signIns + 1
              /\ entry'.step = "ok" => entry'.token.session = signIns + 1
           \/ UNCHANGED <<signIns, session>> /\ entry'.step = "lost"
    <3> DEFINE made == [session |-> signIns + 1, lapses |-> lapses]
    <3>1. made \in Accesses /\ made.session = signIns + 1
      BY DEF Accesses, ClientInv, ClientTypes
    <3>2. /\ UNCHANGED <<lapses, cookie, token, user, opening, refresh, requests>>
          /\ \/ /\ signIns' = signIns + 1 /\ session' = signIns + 1
                /\ entry' \in {[Off EXCEPT !.step = "ok", !.token = made],
                              [Off EXCEPT !.step = "lost"]}
             \/ UNCHANGED <<signIns, session>> /\ entry' = [Off EXCEPT !.step = "lost"]
      BY <1>2 DEF HandleLogin
    <3> HIDE DEF made
    <3> QED
      BY <3>1, <3>2, OffIsNone DEF Refreshes
  <2> QED
    BY <2>1 DEF ClientInv, ClientTypes, RefusedIsOver, Refreshes
<1>3. CASE HandleLogout \/ LapseTokens \/ EndSession
  <2>1. /\ session' \in {0, session} /\ lapses' \in Nat
        /\ UNCHANGED <<signIns, cookie, token, user, opening, refresh, entry, requests>>
    BY <1>3 DEF HandleLogout, LapseTokens, EndSession, tabVars, ClientInv, ClientTypes
  <2> QED
    BY <2>1 DEF ClientInv, ClientTypes, RefusedIsOver, Refreshes
<1>4. ASSUME NEW r \in Requests, HandleRequest(r) PROVE ClientInv' /\ user' = user
  <2>1. PICK s \in {"waiting", "ok", "lost", "refused"} :
           requests' = [requests EXCEPT ![r].step = s]
    BY <1>4 DEF HandleRequest
  <2>2. UNCHANGED <<session, signIns, lapses, cookie, token, user, opening, refresh, entry>>
    BY <1>4 DEF HandleRequest, serverSide
  <2>3. requests' \in [Requests -> Calls]
    BY <2>1, CallMovesOn DEF ClientInv, ClientTypes
  <2>4. requests'["me"] # Unsent => requests["me"] # Unsent
    <3>1. CASE r = "me"
      BY <1>4, <3>1 DEF HandleRequest, Unsent
    <3>2. CASE r # "me"
      BY <2>1, <3>2, MeIsNoPage DEF ClientInv, ClientTypes
    <3> QED
      BY <3>1, <3>2
  <2> QED
    BY <2>2, <2>3, <2>4 DEF ClientInv, ClientTypes, RefusedIsOver
<1> QED
  BY <1>1, <1>2, <1>3, <1>4

LEMMA TabKeepsClient ==
    ASSUME ClientInv,
           \/ \E r \in Requests : Settle(r) \/ AskRefresh(r)
           \/ \E r \in Pages : CallApi(r)
           \/ RefreshSucceeds \/ RefreshFails \/ OpeningRefreshed \/ OpeningFails
    PROVE  ClientInv' /\ StaysOrHasCause
<1> USE OffIsNone, MeIsNoPage
<1>1. ASSUME NEW r \in Requests, Settle(r) PROVE ClientInv' /\ StaysOrHasCause
  <2>1. /\ UNCHANGED <<session, signIns, lapses, cookie, refresh, entry>>
        /\ requests' = [requests EXCEPT ![r] = Unsent]
        /\ requests[r].step # "off"
    BY <1>1 DEF Settle, serverSide
  <2>2. requests' \in [Requests -> Calls] /\ requests'[r] = Unsent
    BY <2>1 DEF ClientInv, ClientTypes
  <2>3. CASE r = "me"
    <3>1. opening.step = "profile" /\ opening # Off
      BY <2>1, <2>3 DEF ClientInv, Unsent, Off
    <3>2. opening' = Off /\ user' \in Nat /\ token' \in Accesses
      BY <1>1, <2>3 DEF Settle, ProfileSettled, ClientInv, ClientTypes, Calls, Accesses
    <3>3. user # 0 => opening.cookie # user
      BY <3>1 DEF ClientInv, ClientTypes, Refreshes
    <3>4. StaysOrHasCause
      BY <3>1, <3>3 DEF StaysOrHasCause, HasCause
    <3>5. ClientInv'
      BY <2>1, <2>2, <2>3, <3>2 DEF ClientInv, ClientTypes, RefusedIsOver
    <3> QED
      BY <3>4, <3>5
  <2>4. CASE r # "me"
    <3>1. UNCHANGED <<token, user, opening>>
      BY <1>1, <2>4 DEF Settle
    <3>2. requests'["me"] = requests["me"]
      BY <2>1, <2>4 DEF ClientInv, ClientTypes
    <3> QED
      BY <2>1, <2>2, <3>1, <3>2 DEF ClientInv, ClientTypes, RefusedIsOver, StaysOrHasCause
  <2> QED
    BY <2>3, <2>4
<1>2. ASSUME NEW r \in Requests, AskRefresh(r) PROVE ClientInv' /\ StaysOrHasCause
  <2>1. /\ UNCHANGED <<session, signIns, lapses, cookie, token, user, opening, entry>>
        /\ requests[r].step = "refused"
        /\ requests' = [requests EXCEPT ![r] = [requests[r] EXCEPT !.step = "waiting",
                                                                  !.retried = TRUE]]
    BY <1>2 DEF AskRefresh, serverSide, ClientInv, ClientTypes
  <2>2. requests' \in [Requests -> Calls]
    BY <2>1, CallMovesOn DEF ClientInv, ClientTypes
  <2>3. requests'["me"] # Unsent => requests["me"] # Unsent
    <3>1. CASE r = "me"
      BY <2>1, <3>1 DEF Unsent
    <3>2. CASE r # "me"
      BY <2>1, <3>2 DEF ClientInv, ClientTypes
    <3> QED
      BY <3>1, <3>2
  <2>4. \/ refresh' = refresh
        \/ refresh' \in Refreshes /\ refresh'.cookie = cookie /\ refresh'.step = "sent"
    <3>1. cookie \in Nat /\ NoToken \in Accesses
      BY DEF ClientInv, ClientTypes
    <3>2. refresh' \in {refresh, [Off EXCEPT !.step = "sent", !.cookie = cookie]}
      BY <1>2 DEF AskRefresh
    <3> QED
      BY <3>1, <3>2, OffIsNone DEF Refreshes
  <2> QED
    BY <2>1, <2>2, <2>3, <2>4 DEF ClientInv, ClientTypes, RefusedIsOver, StaysOrHasCause, Refreshes
<1>3. ASSUME NEW r \in Pages, CallApi(r) PROVE ClientInv' /\ StaysOrHasCause
  <2>1. /\ UNCHANGED <<session, signIns, lapses, cookie, token, user, opening, refresh, entry>>
        /\ requests' = [requests EXCEPT ![r] = Sent(token, FALSE)]
    BY <1>3 DEF CallApi, serverSide
  <2>2. requests' \in [Requests -> Calls] /\ requests'["me"] = requests["me"]
    BY <2>1, SentIsCall DEF ClientInv, ClientTypes
  <2> QED
    BY <2>1, <2>2 DEF ClientInv, ClientTypes, RefusedIsOver, StaysOrHasCause
<1>4. CASE RefreshSucceeds
  <2>1. /\ UNCHANGED <<session, signIns, lapses, cookie, user, opening, entry>>
        /\ refresh' = Off /\ token' = refresh.token
        /\ requests' = [r \in Requests |->
              IF r \in Waiting THEN Sent(refresh.token, TRUE) ELSE requests[r]]
    BY <1>4 DEF RefreshSucceeds, serverSide
  <2>2. token' \in Accesses
    BY <2>1 DEF ClientInv, ClientTypes, Refreshes
  <2>3. requests' \in [Requests -> Calls]
    BY <2>1, <2>2, SentIsCall DEF ClientInv, ClientTypes
  <2>4. requests'["me"] # Unsent => requests["me"] # Unsent
    <3>1. "me" \in Waiting => requests["me"].step = "waiting"
      BY DEF Waiting
    <3>2. requests["me"] = Unsent => "me" \notin Waiting
      BY <3>1 DEF Unsent
    <3> QED
      BY <2>1, <3>2
  <2>5. UNCHANGED <<session, signIns, lapses, cookie, user, opening, entry>> /\ refresh' = Off
    BY <2>1
  <2> QED
    BY <2>2, <2>3, <2>4, <2>5 DEF ClientInv, ClientTypes, RefusedIsOver, StaysOrHasCause
<1>5. CASE RefreshFails
  <2>1. /\ UNCHANGED <<session, signIns, lapses, entry>>
        /\ refresh.step \in {"refused", "lost"} /\ refresh' = Off
        /\ cookie' \in {0, cookie} /\ token' = NoToken /\ user' = 0
        /\ opening' \in {Off, opening}
        /\ "me" \notin Waiting => opening' = opening
        /\ requests' = [r \in Requests |-> IF r \in Waiting THEN Unsent ELSE requests[r]]
    BY <1>5 DEF RefreshFails, serverSide
  <2>2. requests' \in [Requests -> Calls]
    BY <2>1 DEF ClientInv, ClientTypes
  <2>3. requests'["me"] # Unsent => requests["me"] # Unsent /\ opening' = opening
    BY <2>1
  <2>4. ClientInv'
    BY <2>1, <2>2, <2>3 DEF ClientInv, ClientTypes, RefusedIsOver
  <2>5. StaysOrHasCause
    <3>1. refresh # Off
      BY <2>1
    <3>2. refresh.step = "refused" /\ refresh.cookie = user /\ user # 0 => session # user
      BY DEF ClientInv, RefusedIsOver
    <3> QED
      BY <2>1, <3>1, <3>2 DEF StaysOrHasCause, HasCause
  <2> QED
    BY <2>4, <2>5
<1>6. CASE OpeningRefreshed
  <2>1. /\ UNCHANGED <<session, signIns, lapses, cookie, user, refresh, entry>>
        /\ opening.step = "ok" /\ token' = opening.token
        /\ opening' = [opening EXCEPT !.step = "profile"]
        /\ requests' = [requests EXCEPT !["me"] = Sent(opening.token, FALSE)]
    BY <1>6 DEF OpeningRefreshed, serverSide
  <2>2. token' \in Accesses
    BY <2>1 DEF ClientInv, ClientTypes, Refreshes
  <2>3. requests' \in [Requests -> Calls]
    BY <2>1, <2>2, SentIsCall DEF ClientInv, ClientTypes
  <2>4. /\ opening' \in Refreshes /\ opening'.step = "profile"
        /\ opening'.cookie = opening.cookie /\ opening # Off
    BY <2>1 DEF ClientInv, ClientTypes, Refreshes
  <2> QED
    BY <2>1, <2>2, <2>3, <2>4 DEF ClientInv, ClientTypes, RefusedIsOver, StaysOrHasCause
<1>7. CASE OpeningFails
  <2>1. /\ UNCHANGED <<session, signIns, lapses, refresh, entry, requests>>
        /\ opening.step \in {"refused", "lost"} /\ opening' = Off
        /\ cookie' \in {0, cookie} /\ token' = NoToken /\ user' = 0
    BY <1>7 DEF OpeningFails, ProfileSettled, serverSide
  <2>2. requests["me"] = Unsent
    BY <2>1 DEF ClientInv
  <2>3. ClientInv'
    BY <2>1, <2>2 DEF ClientInv, ClientTypes, RefusedIsOver
  <2>4. StaysOrHasCause
    <3>1. opening # Off
      BY <2>1
    <3>2. user # 0 => opening.cookie # user
      BY <3>1 DEF ClientInv, ClientTypes, Refreshes
    <3> QED
      BY <3>1, <3>2 DEF StaysOrHasCause, HasCause
  <2> QED
    BY <2>3, <2>4
<1> QED
  BY <1>1, <1>2, <1>3, <1>4, <1>5, <1>6, <1>7

LEMMA PersonKeepsClient ==
    ASSUME ClientInv, SubmitLogin \/ LoginSettles \/ ClickLogout \/ LogoutSettles
    PROVE  ClientInv' /\ StaysOrHasCause
<1> USE OffIsNone
<1>1. CASE SubmitLogin
  <2>1. entry' \in Refreshes /\ entry'.step = "sent"
    BY <1>1 DEF SubmitLogin, Off, Refreshes, Accesses, NoToken
  <2>2. UNCHANGED <<session, signIns, lapses, cookie, token, user, opening, refresh, requests>>
    BY <1>1 DEF SubmitLogin, serverSide
  <2> QED
    BY <2>1, <2>2 DEF ClientInv, ClientTypes, RefusedIsOver, StaysOrHasCause
<1>2. CASE LoginSettles
  <2>1. /\ UNCHANGED <<session, signIns, lapses, opening, refresh, requests>> /\ entry' = Off
        /\ \/ UNCHANGED <<cookie, token, user>>
           \/ /\ entry.step = "ok" /\ cookie' = entry.token.session
              /\ token' = entry.token /\ user' = entry.token.session
    BY <1>2 DEF LoginSettles, serverSide
  <2>2. entry.token \in Accesses
    BY DEF ClientInv, ClientTypes, Refreshes
  <2> QED
    BY <2>1, <2>2 DEF ClientInv, ClientTypes, RefusedIsOver, StaysOrHasCause
<1>3. CASE ClickLogout
  <2>1. UNCHANGED <<session, signIns, lapses, cookie, token, user, opening, refresh, entry,
                    requests>>
    BY <1>3 DEF ClickLogout, serverSide
  <2> QED
    BY <2>1 DEF ClientInv, ClientTypes, RefusedIsOver, StaysOrHasCause
<1>4. CASE LogoutSettles
  <2>1. /\ UNCHANGED <<session, signIns, lapses, opening, refresh, entry, requests>>
        /\ leaving # Off /\ cookie' \in {0, cookie} /\ token' = NoToken /\ user' = 0
    BY <1>4 DEF LogoutSettles, serverSide
  <2> QED
    BY <2>1 DEF ClientInv, ClientTypes, RefusedIsOver, StaysOrHasCause, HasCause
<1> QED
  BY <1>1, <1>2, <1>3, <1>4

-----------------------------------------------------------------------------
(* The forms.                                                              *)

\* The refs are those of the form unless it was emptied, and a flag that is set
\* was set for what the form holds.
SignupFormInv ==
    /\ form \in [userId : Ids \cup {""}, email : Mails \cup {""}]
    /\ isUserIdAvailable \in BOOLEAN /\ isEmailVerified \in BOOLEAN
    /\ form.userId \in {"", currentUserId} /\ form.email \in {"", currentEmail}
    /\ isUserIdAvailable /\ form.userId # "" => form.userId \in foundAvailable
    /\ isEmailVerified /\ form.email # "" => form.email \in proved

LEMMA SignupFormStarts == SignupPageInit => SignupFormInv
<1> SUFFICES ASSUME SignupPageInit PROVE SignupFormInv
  OBVIOUS
<1>1. form \in [userId : Ids \cup {""}, email : Mails \cup {""}]
  BY DEF SignupPageInit, EmptyForm
<1>2. isUserIdAvailable = FALSE /\ isEmailVerified = FALSE
  BY DEF SignupPageInit
<1>3. form.userId = "" /\ form.email = ""
  BY DEF SignupPageInit, EmptyForm
<1> QED
  BY <1>1, <1>2, <1>3 DEF SignupFormInv

LEMMA SignupFormStep ==
    ASSUME SignupFormInv, SignupPageNext
    PROVE  SignupFormInv' /\ SubmitsWhatWasChecked
<1> USE DEF SignupFormInv, SubmitsWhatWasChecked, EmptyForm
<1>1. CASE TypeUserId
  BY <1>1 DEF TypeUserId, ResetsVerification
<1>2. CASE TypeEmail
  BY <1>2 DEF TypeEmail, ResetsVerification, answers
<1>3. CASE CheckUserId \/ SendCode \/ CooldownEnds \/ VerifyCode
  <2>1. UNCHANGED <<form, refs, isUserIdAvailable, isEmailVerified, answers, submission>>
    BY <1>3 DEF CheckUserId, SendCode, CooldownEnds, VerifyCode, answers, refs, asked
  <2> QED
    BY <2>1 DEF refs, answers
<1>4. ASSUME NEW id \in checking, UserIdChecked(id) PROVE SignupFormInv' /\ SubmitsWhatWasChecked
  BY <1>4 DEF UserIdChecked, refs
<1>5. ASSUME NEW email \in sending, CodeSent(email) PROVE SignupFormInv' /\ SubmitsWhatWasChecked
  BY <1>5 DEF CodeSent, answers, refs
<1>6. ASSUME NEW email \in verifying, CodeVerified(email)
      PROVE  SignupFormInv' /\ SubmitsWhatWasChecked
  BY <1>6 DEF CodeVerified, refs
<1>7. ASSUME NEW email \in verifying, CodeRefused(email)
      PROVE  SignupFormInv' /\ SubmitsWhatWasChecked
  BY <1>7 DEF CodeRefused, answers, refs
<1>8. CASE Submit
  BY <1>8 DEF Submit, answers, refs
<1>9. CASE Submitted
  BY <1>9 DEF Submitted, refs, ResetsVerification
<1>10. CASE SubmitFails
  BY <1>10 DEF SubmitFails, answers, refs
<1> QED
  BY <1>1, <1>2, <1>3, <1>4, <1>5, <1>6, <1>7, <1>8, <1>9, <1>10 DEF SignupPageNext

\* One code is asked for at a time; a code and a password are verified and changed on the
\* step that asks for them, for the address that was typed before.
ResetFormInv ==
    /\ step \in {"email", "code", "reset", "done"}
    /\ box \in Boxes \cup {NoBox}
    /\ mailed \in [Boxes -> Nat]
    /\ retyped \in BOOLEAN
    /\ \A send, other \in sendsTo : send = other
    /\ \A send \in sendsTo :
          send.from = "email" =>
             /\ step = "email" /\ send.to \in Boxes /\ mailed[send.to] > 0
             /\ retyped \/ send.to = box
    /\ verifies # {} => step = "code" /\ verifies = {box}
    /\ resetting # {} => step = "reset" /\ resetting = {box}
    /\ changed # NoBox => step = "done"
    /\ ResetsTheAddressShown

LEMMA ResetFormStarts == ResetPageInit => ResetFormInv
<1> SUFFICES ASSUME ResetPageInit PROVE ResetFormInv
  OBVIOUS
<1>1. /\ step = "email" /\ box = NoBox /\ changed = NoBox /\ retyped = FALSE
      /\ sendsTo = {} /\ verifies = {} /\ resetting = {}
  BY DEF ResetPageInit
<1>2. mailed \in [Boxes -> Nat]
  BY DEF ResetPageInit
<1> QED
  BY <1>1, <1>2 DEF ResetFormInv, ResetsTheAddressShown

LEMMA ResetFormStep ==
    ASSUME ResetFormInv, ResetPageNext
    PROVE  ResetFormInv' /\ (step' # step => GoesForward)
<1> USE DEF ResetFormInv, ResetsTheAddressShown, GoesForward
<1>1. CASE TypeAddress
  BY <1>1 DEF TypeAddress, underWay
<1>2. CASE TypeCode \/ TypePasswords \/ WaitPasses
  BY <1>2 DEF TypeCode, TypePasswords, WaitPasses, underWay, typing
<1>3. CASE SendCodeTo
  BY <1>3 DEF SendCodeTo, typing
<1>4. CASE CodeIsSent
  BY <1>4 DEF CodeIsSent, typing
<1>5. CASE VerifyCodeTyped
  BY <1>5 DEF VerifyCodeTyped, typing
<1>6. CASE CodeIsVerified
  BY <1>6 DEF CodeIsVerified, typing
<1>7. CASE ResetsPassword
  BY <1>7 DEF ResetsPassword, typing
<1>8. CASE PasswordIsReset
  BY <1>8 DEF PasswordIsReset, typing
<1> QED
  BY <1>1, <1>2, <1>3, <1>4, <1>5, <1>6, <1>7, <1>8 DEF ResetPageNext

\* The request whose answer is shown is the last one, and unless a decision has closed
\* the modal over it, what is saved is the account of the modal that is open.
Sendings ==
    [op : {"update", "verify", "change", "reset"} \cup Deciding, user : Users \cup {NoUser},
     step : {"sent", "list", "detail"}]

ModalInv ==
    /\ modal \in BOOLEAN /\ crossed \in BOOLEAN /\ loading \in BOOLEAN
    /\ latest \in Nat
    /\ confirm \in {"none"} \cup Deciding
    /\ busy \subseteq Sendings /\ target \in Users \cup {NoUser}
    /\ \A load \in details : load.id \in Nat /\ load.id <= latest
    /\ modal /\ ~crossed => \A load \in details : load.id = latest => load.user = target
    /\ ~crossed => \A r \in busy : r.op = "update" => modal /\ r.user = target
    /\ DetailIsOfTheUserOpened

LEMMA ModalStarts == ManageInit => ModalInv
<1> SUFFICES ASSUME ManageInit PROVE ModalInv
  OBVIOUS
<1>1. /\ modal = FALSE /\ crossed = FALSE /\ loading = FALSE
      /\ latest = 0 /\ details = {} /\ busy = {} /\ confirm = "none"
      /\ target = NoUser
  BY DEF ManageInit
<1> QED
  BY <1>1 DEF ModalInv, DetailIsOfTheUserOpened

LEMMA SendingMovesOn ==
    ASSUME NEW r \in Sendings, NEW s \in {"list", "detail"}
    PROVE  /\ [r EXCEPT !.step = s] \in Sendings
           /\ [r EXCEPT !.step = s].op = r.op /\ [r EXCEPT !.step = s].user = r.user
BY DEF Sendings

LEMMA ModalStep ==
    ASSUME ModalInv, ManageNext
    PROVE  ModalInv'
<1> USE DEF ModalInv, DetailIsOfTheUserOpened
<1>0. ASSUME UNCHANGED <<target, detail, loading, details, busy, crossed>>,
             confirm' \in {confirm, "none"},
             \/ UNCHANGED <<modal, latest>>
             \/ modal' = FALSE /\ latest' = latest + 1 /\ \A r \in busy : r.op # "update"
      PROVE  ModalInv'
  <2>1. CASE UNCHANGED <<modal, latest>>
    BY <1>0, <2>1
  <2>2. CASE modal' = FALSE /\ latest' = latest + 1 /\ \A r \in busy : r.op # "update"
    <3>1. \A load \in details' : load.id \in Nat /\ load.id <= latest'
      BY <1>0, <2>2
    <3>2. latest' \in Nat
      BY <2>2
    <3>4. modal' \in BOOLEAN /\ crossed' \in BOOLEAN /\ loading' \in BOOLEAN
      BY <1>0, <2>2, Zenon
    <3>3. confirm' \in {"none"} \cup Deciding
      BY <1>0
    <3> QED
      BY <1>0, <2>2, <3>1, <3>2, <3>3, <3>4 DEF Deciding
  <2> QED
    BY <1>0, <2>1, <2>2
<1>1. CASE OpenModal
  BY <1>1 DEF OpenModal, LoadDetail
<1>2. CASE CloseModal
  <2>1. /\ modal' = FALSE /\ latest' = latest + 1 /\ \A r \in busy : r.op # "update"
        /\ confirm' = "none" /\ UNCHANGED <<target, detail, loading, details, busy, crossed>>
    BY <1>2 DEF CloseModal, HidesModal, Ops
  <2> QED
    BY <1>0, <2>1
<1>3. CASE PressEscape
  <2>1. \/ UNCHANGED <<modal, latest>>
        \/ modal' = FALSE /\ latest' = latest + 1 /\ \A r \in busy : r.op # "update"
    BY <1>3 DEF PressEscape, HidesModal, Ops
  <2>2. /\ confirm' \in {confirm, "none"}
        /\ UNCHANGED <<target, detail, loading, details, busy, crossed>>
    BY <1>3 DEF PressEscape
  <2> QED
    BY <1>0, <2>1, <2>2
<1>4. CASE AskToConfirm \/ CloseDialog
  BY <1>4 DEF AskToConfirm, CloseDialog, Deciding
<1>5. ASSUME NEW op \in {"update", "verify", "change", "reset"} \cup Deciding, Send(op),
             op = "update" => modal
      PROVE  ModalInv'
  <2> DEFINE new == [op |-> op, user |-> target, step |-> "sent"]
  <2>1. new \in Sendings /\ new.op = op /\ new.user = target
    BY DEF Sendings
  <2>2. /\ busy' = busy \cup {new}
        /\ UNCHANGED <<modal, target, detail, loading, latest, details, confirm, crossed>>
    BY <1>5 DEF Send
  <2> HIDE DEF new
  <2> QED
    BY <1>5, <2>1, <2>2
<1>6. CASE Decide
  <2>1. confirm \in Deciding /\ confirm # "update" /\ Send(confirm)
    BY <1>6 DEF Decide, DialogCovers, Deciding
  <2> QED
    BY <1>5, <2>1
<1>7. CASE UpdateUser \/ ResetPassword \/ VerifyPassword \/ ChangePassword
  BY <1>5, <1>7 DEF UpdateUser, ResetPassword, VerifyPassword, ChangePassword, EditForm,
     AccountShown
<1>8. ASSUME NEW load \in details, DetailAnswered(load) PROVE ModalInv'
  BY <1>8 DEF DetailAnswered, SaveIsOver
<1>9. ASSUME NEW r \in busy, PasswordVerified(r) \/ Settles(r) PROVE ModalInv'
  <2>1. busy' \subseteq busy
    BY <1>9 DEF PasswordVerified, Settles
  <2>2. UNCHANGED <<modal, target, detail, loading, latest, details, confirm, crossed>>
    BY <1>9 DEF PasswordVerified, Settles
  <2> QED
    BY <2>1, <2>2
<1>10. ASSUME NEW r \in busy, Updated(r) PROVE ModalInv'
  <2> PICK s \in {"list", "detail"} :
         /\ busy' = (busy \ {r}) \cup {[r EXCEPT !.step = s]}
         /\ \/ UNCHANGED <<detail, loading, latest, details>>
            \/ LoadDetail(r.user, TRUE)
    BY <1>10 DEF Updated
  <2> DEFINE new == [r EXCEPT !.step = s]
  <2>1. new \in Sendings /\ new.op = "update" /\ new.user = r.user /\ r.op = "update"
    BY <1>10, SendingMovesOn DEF Updated
  <2>2. busy' = (busy \ {r}) \cup {new} /\ UNCHANGED <<modal, target, confirm, crossed>>
    BY <1>10 DEF Updated
  <2> HIDE DEF new
  <2>3. CASE UNCHANGED <<detail, loading, latest, details>>
    BY <2>1, <2>2, <2>3
  <2>4. CASE LoadDetail(r.user, TRUE)
    BY <2>1, <2>2, <2>4 DEF LoadDetail
  <2> QED
    BY <2>3, <2>4
<1>11. ASSUME NEW r \in busy, UserDecided(r) PROVE ModalInv'
  <2>1. CASE busy' = busy \ {r} /\ UNCHANGED <<modal, latest, confirm, crossed>>
    BY <1>11, <2>1 DEF UserDecided
  <2>2. CASE /\ busy' = (busy \ {r}) \cup {[r EXCEPT !.step = "list"]}
             /\ confirm' = IF confirm = r.op THEN "none" ELSE confirm
             /\ HidesModal
             /\ crossed' = (crossed \/ "update" \in Ops)
    <3> DEFINE new == [r EXCEPT !.step = "list"]
    <3>1. new \in Sendings /\ new.op = r.op /\ r.op \in Deciding
      BY <1>11, SendingMovesOn DEF UserDecided
    <3>2. UNCHANGED <<target, detail, loading, details>> /\ busy' = (busy \ {r}) \cup {new}
      BY <1>11, <2>2 DEF UserDecided
    <3> HIDE DEF new
    <3>3. crossed' \in BOOLEAN /\ confirm' \in {"none"} \cup Deciding
      BY <2>2
    <3>4. modal' = FALSE /\ latest' \in Nat /\ latest <= latest'
      BY <2>2 DEF HidesModal
    <3>5. ~crossed' => ~crossed /\ \A q \in busy : q.op # "update"
      BY <2>2 DEF Ops
    <3>6. busy' \subseteq Sendings
      BY <3>1, <3>2
    <3>7. ~crossed' => \A q \in busy' : q.op # "update"
      BY <3>1, <3>2, <3>5 DEF Deciding
    <3>8. \A load \in details' : load.id \in Nat /\ load.id <= latest'
      BY <3>2, <3>4
    <3>9. modal' \in BOOLEAN /\ loading' \in BOOLEAN
      BY <3>2, <3>4, Zenon
    <3>10. modal' /\ ~loading' /\ ~crossed' => detail' \in {target', NoUser}
      BY <3>4
    <3>11. modal' /\ ~crossed' => \A load \in details' : load.id = latest' => load.user = target'
      BY <3>4
    <3> QED
      BY <3>2, <3>3, <3>4, <3>6, <3>7, <3>8, <3>9, <3>10, <3>11, Zenon
  <2> QED
    BY <1>11, <2>1, <2>2 DEF UserDecided
<1> QED
  BY <1>1, <1>2, <1>3, <1>4, <1>6, <1>7, <1>8, <1>9, <1>10, <1>11 DEF ManageNext

-----------------------------------------------------------------------------
(* The limits of requests.                                                 *)

LimiterRecord ==
    [by : {{"address"}, {"person"}, {"address", "person"}}, max : Nat, givesBack : BOOLEAN]

\* The chain of a route; a limiter that gives back is its only one.
Chain(L) ==
    /\ L \in Seq(LimiterRecord)
    /\ Len(L) \in 1..2
    /\ L[1].givesBack => Len(L) = 1

LEMMA MaxOfLimits == Few \in Nat /\ Many \in Nat /\ Span \in Nat \ {0}
BY LimitAssumption

LEMMA ChainLength ==
    ASSUME NEW L, Chain(L) PROVE Len(L) = 1 \/ Len(L) = 2
<1> DEFINE n == Len(L)
<1>1. n \in 1..2
  BY DEF Chain
<1> HIDE DEF n
<1>2. n = 1 \/ n = 2
  BY <1>1
<1> QED
  BY <1>2 DEF n

LEMMA PlaceInChain ==
    ASSUME NEW L, Chain(L), NEW i \in 1..Len(L)
    PROVE  i \in 1..2 /\ i \in Nat /\ i > 0 /\ L[i] \in LimiterRecord
<1>1. Len(L) = 1 \/ Len(L) = 2
  BY ChainLength
<1>2. L[i] \in LimiterRecord
  BY ElementOfSeq DEF Chain
<1> DEFINE n == Len(L)
<1>3. n = 1 \/ n = 2
  BY <1>1
<1>4. i \in 1..n
  OBVIOUS
<1> HIDE DEF n
<1>5. i \in 1..2 /\ i \in Nat /\ i > 0
  BY <1>3, <1>4
<1> QED
  BY <1>2, <1>5

LEMMA ChainOfOne ==
    ASSUME NEW x \in LimiterRecord PROVE Chain(<<x>>)
<1>1. <<x>> \in Seq(LimiterRecord) /\ Len(<<x>>) = 1
  OBVIOUS
<1> QED
  BY <1>1 DEF Chain

LEMMA ChainOfTwo ==
    ASSUME NEW x \in LimiterRecord, NEW y \in LimiterRecord, x.givesBack = FALSE
    PROVE  Chain(<<x, y>>)
<1>1. <<x, y>> \in Seq(LimiterRecord) /\ Len(<<x, y>>) = 2 /\ <<x, y>>[1] = x
  OBVIOUS
<1> QED
  BY <1>1 DEF Chain

LEMMA LimitersAreChains == path \in Paths => Chain(LimitersOf)
<1> SUFFICES ASSUME path \in Paths PROVE Chain(LimitersOf)
  OBVIOUS
<1> DEFINE tables == {SignupLimits, SignupEmailLimits, PasswordResetLimits, LoginLimits,
                      PasswordLimits}
<1>1. /\ DOMAIN SignupLimits = {"signup", "available"}
      /\ DOMAIN SignupEmailLimits = {"signupSend", "signupVerify"}
      /\ DOMAIN PasswordResetLimits = {"resetSend", "resetVerify", "resetConfirm"}
      /\ DOMAIN LoginLimits = {"login"}
      /\ DOMAIN PasswordLimits = {"password"}
  BY DEF SignupLimits, SignupEmailLimits, PasswordResetLimits, LoginLimits, PasswordLimits
<1>2. Paths = {"signup", "available", "signupSend", "signupVerify", "resetSend", "resetVerify",
               "resetConfirm", "login", "password"}
  BY DEF Paths, SignupStatuses, ResetStatuses, LoginStatuses, PasswordStatuses
<1>3. \E t \in tables : path \in DOMAIN t
  BY <1>1, <1>2
<1>4. \E t \in tables : path \in DOMAIN t /\ LimitersOf = t[path]
  <2> DEFINE table == CHOOSE t \in tables : path \in DOMAIN t
  <2>1. table \in tables /\ path \in DOMAIN table
    BY <1>3
  <2>2. LimitersOf = table[path]
    BY DEF LimitersOf, Either
  <2> QED
    BY <2>1, <2>2
<1>5. \A m \in {Few, Many} : /\ PerAddress(m) \in LimiterRecord /\ PerMail(m) \in LimiterRecord
                             /\ PerAddress(m).givesBack = FALSE
  BY MaxOfLimits DEF PerAddress, PerMail, Limiter, LimiterRecord
<1>6. Limiter({"address", "person"}, Few, TRUE) \in LimiterRecord
  BY MaxOfLimits DEF Limiter, LimiterRecord
<1>7. \A p \in DOMAIN SignupLimits : Chain(SignupLimits[p])
  BY <1>1, <1>5, ChainOfOne DEF SignupLimits
<1>8. \A p \in DOMAIN SignupEmailLimits : Chain(SignupEmailLimits[p])
  <2>1. Chain(<<PerAddress(Few), PerMail(Few)>>) /\ Chain(<<PerAddress(Many), PerMail(Many)>>)
    BY <1>5, ChainOfTwo
  <2> QED
    BY <1>1, <2>1 DEF SignupEmailLimits
<1>9. \A p \in DOMAIN PasswordResetLimits : Chain(PasswordResetLimits[p])
  <2>1. /\ Chain(<<PerAddress(Few), PerMail(Few)>>) /\ Chain(<<PerAddress(Many), PerMail(Many)>>)
        /\ Chain(<<PerAddress(Many)>>)
    BY <1>5, ChainOfOne, ChainOfTwo
  <2> QED
    BY <1>1, <2>1 DEF PasswordResetLimits
<1>10. \A p \in DOMAIN LoginLimits : Chain(LoginLimits[p])
  <2>1. Chain(<<Limiter({"address", "person"}, Few, TRUE)>>)
    BY <1>6, ChainOfOne
  <2>2. LoginLimits.login = <<Limiter({"address", "person"}, Few, TRUE)>>
    BY DEF LoginLimits
  <2> QED
    BY <1>1, <2>1, <2>2
<1>11. \A p \in DOMAIN PasswordLimits : Chain(PasswordLimits[p])
  <2>1. Chain(<<Limiter({"address", "person"}, Few, TRUE)>>)
    BY <1>6, ChainOfOne
  <2>2. PasswordLimits.password = <<Limiter({"address", "person"}, Few, TRUE)>>
    BY DEF PasswordLimits
  <2> QED
    BY <1>1, <2>1, <2>2
<1> QED
  BY <1>4, <1>7, <1>8, <1>9, <1>10, <1>11

\* A key of a limiter: the parts that it counts by, as they are compared.
KeyOf(limiter, k) ==
    /\ k \in Keys
    /\ \A f \in {"address", "person"} : k[f] = {} <=> f \notin limiter.by
    /\ \A t \in k.person : t.spelling = "plain"

\* The record of the service falls under the key.
Under(k, s) == k.address \subseteq {s.address} /\ {t.name : t \in k.person} \subseteq {s.person}

LEMMA KeyIsKeyOf ==
    ASSUME NEW limiter \in LimiterRecord, NEW r, r.address \in Addresses, r.person \in Typed
    PROVE  KeyOf(limiter, Key(limiter, r))
<1>1. limiter.by \in {{"address"}, {"person"}, {"address", "person"}}
  BY DEF LimiterRecord
<1>2. NormalizeKeyPart(r.person) \in Typed /\ NormalizeKeyPart(r.person).spelling = "plain"
  BY DEF Typed, NormalizeKeyPart
<1> QED
  BY <1>1, <1>2 DEF KeyOf, Key, Keys

\* A record falls under a key exactly if its request was counted by that key.
LEMMA UnderIsCounted ==
    ASSUME NEW limiter \in LimiterRecord, NEW k, KeyOf(limiter, k),
           NEW r, r.address \in Addresses, r.person \in Typed,
           NEW s, s.address = r.address, s.person = r.person.name
    PROVE  Under(k, s) <=> Key(limiter, r) = k
<1>1. limiter.by \in {{"address"}, {"person"}, {"address", "person"}}
  BY DEF LimiterRecord
<1> DEFINE plain == NormalizeKeyPart(r.person)
<1>2. plain \in Typed /\ plain.spelling = "plain" /\ plain.name = r.person.name
  BY DEF Typed, NormalizeKeyPart
<1>3. \A t \in Typed : t.spelling = "plain" => (t = plain <=> t.name = r.person.name)
  BY <1>2 DEF Typed
<1> HIDE DEF plain
<1>4. /\ k.address \in {{}} \cup {{a} : a \in Addresses}
      /\ k.person \in {{}} \cup {{t} : t \in Typed}
      /\ k = [address |-> k.address, person |-> k.person]
      /\ k.address = {} <=> "address" \notin limiter.by
      /\ k.person = {} <=> "person" \notin limiter.by
      /\ \A t \in k.person : t.spelling = "plain"
  BY DEF KeyOf, Keys
<1>5. Key(limiter, r) = [address |-> IF "address" \in limiter.by THEN {r.address} ELSE {},
                         person |-> IF "person" \in limiter.by THEN {plain} ELSE {}]
  BY DEF Key, plain
<1>6. Key(limiter, r) = k <=>
        /\ "address" \in limiter.by => k.address = {r.address}
        /\ "person" \in limiter.by => k.person = {plain}
  BY <1>4, <1>5
<1>7. "address" \in limiter.by => (k.address = {r.address} <=> k.address \subseteq {s.address})
  BY <1>4
<1>8. "person" \in limiter.by =>
        (k.person = {plain} <=> {t.name : t \in k.person} \subseteq {s.person})
  <2> SUFFICES ASSUME "person" \in limiter.by
               PROVE  k.person = {plain} <=> {t.name : t \in k.person} \subseteq {s.person}
    OBVIOUS
  <2>1. PICK t \in Typed : k.person = {t}
    BY <1>4
  <2>2. t.spelling = "plain"
    BY <1>4, <2>1
  <2>3. {u.name : u \in k.person} = {t.name}
    BY <2>1
  <2> QED
    BY <1>3, <2>1, <2>2, <2>3
<1> QED
  BY <1>4, <1>6, <1>7, <1>8 DEF Under

Counter == [n : Nat, until : Nat]
ServedRecord(L) ==
    {s \in [address : Addresses, person : People, at : Seq(Nat), done : Nat] :
        Len(s.at) = Len(L)}

\* A request that has passed r.step - 1 limiters.
UnderWay(L, r) ==
    /\ DOMAIN r = {"step", "address", "person", "at", "place"}
    /\ r.step \in 1..Len(L) + 1 /\ r.address \in Addresses /\ r.person \in Typed
    /\ r.at \in Seq(Nat) /\ Len(r.at) = r.step - 1

Asking == {c \in Clients : asking[c] # NotAsking}
AtService(L, c) == asking[c].step = Len(L) + 1

LimitTypes(L) ==
    /\ now \in Nat
    /\ hits \in [1..2 -> [Keys -> Counter]]
    /\ DOMAIN asking = Clients
    /\ \A c \in Asking : UnderWay(L, asking[c])
    /\ IsFiniteSet(Asking)
    /\ served \in Seq(ServedRecord(L))

\* The service works on the requests that were let through last, each on its own.
Places(L) ==
    /\ \A c \in Clients : AtService(L, c) =>
          /\ asking[c].place \in 1..Len(served)
          /\ served[asking[c].place].address = asking[c].address
          /\ served[asking[c].place].person = asking[c].person.name
          /\ served[asking[c].place].done = 0
    /\ \A c, d \in Clients :
          AtService(L, c) /\ AtService(L, d) /\ asking[c].place = asking[d].place => c = d

\* A key as it was typed is never counted by.
PlainKeys ==
    \A i \in 1..2, k \in Keys : (\E t \in k.person : t.spelling # "plain") => hits[i][k].until = 0

LEMMA CountersMove ==
    ASSUME NEW h \in Counter
    PROVE  /\ [h EXCEPT !.n = @ + 1] \in Counter
           /\ [h EXCEPT !.n = @ + 1].n = h.n + 1 /\ [h EXCEPT !.n = @ + 1].until = h.until
           /\ h.n > 0 => /\ [h EXCEPT !.n = @ - 1] \in Counter
                         /\ [h EXCEPT !.n = @ - 1].n = h.n - 1
                         /\ [h EXCEPT !.n = @ - 1].until = h.until
BY DEF Counter

LEMMA DoneIsNoted ==
    ASSUME NEW L, NEW s \in ServedRecord(L), NEW n \in Nat
    PROVE  /\ [s EXCEPT !.done = n] \in ServedRecord(L)
           /\ [s EXCEPT !.done = n].done = n /\ [s EXCEPT !.done = n].at = s.at
           /\ [s EXCEPT !.done = n].address = s.address
           /\ [s EXCEPT !.done = n].person = s.person
BY DEF ServedRecord

LEMMA StepLimitTypes ==
    ASSUME NEW L, Chain(L), L = LimitersOf, LimitTypes(L), Places(L),
           [LimitNext]_limitVars
    PROVE  LimitTypes(L)'
<1> USE DEF LimitTypes
<1>0. Len(L) \in 1..2 /\ L \in Seq(LimiterRecord)
  BY DEF Chain
<1>1. CASE UNCHANGED limitVars
  BY <1>1 DEF limitVars, Asking
<1>2. CASE NowPasses
  BY <1>2 DEF NowPasses, Asking
<1>3. ASSUME NEW c \in Clients, Ask(c) PROVE LimitTypes(L)'
  <2>1. PICK r \in Requested :
          asking' = [asking EXCEPT ![c] = [step |-> 1, address |-> r.address,
                                           person |-> r.person, at |-> <<>>, place |-> 0]]
    BY <1>3 DEF Ask
  <2> DEFINE new == [step |-> 1, address |-> r.address, person |-> r.person, at |-> <<>>,
                     place |-> 0]
  <2>2. UnderWay(L, new)
    BY <1>0 DEF UnderWay, Requested
  <2> HIDE DEF new
  <2>3. asking' = [asking EXCEPT ![c] = new]
    BY <2>1 DEF new
  <2>4. Asking' \subseteq Asking \cup {c}
    BY <2>3 DEF Asking
  <2>5. IsFiniteSet(Asking')
    BY <2>4, FS_AddElement, FS_Subset
  <2>6. \A d \in Asking' : UnderWay(L, asking'[d])
    BY <2>2, <2>3 DEF Asking
  <2> QED
    BY <1>3, <2>3, <2>5, <2>6 DEF Ask
<1>4. ASSUME NEW c \in Clients, PassLimiter(c) PROVE LimitTypes(L)'
  <2> DEFINE r == asking[c]
             i == r.step
             k == Key(L[i], r)
             counter == Increment(i, k)
             at == Append(r.at, now)
             new == [r EXCEPT !.step = i + 1, !.at = at, !.place = Len(served) + 1]
             record == [address |-> r.address, person |-> r.person.name, at |-> at, done |-> 0]
  <2>1. /\ i \in 1..Len(L) /\ hits' = [hits EXCEPT ![i][k] = counter] /\ now' = now
        /\ \/ asking' = [asking EXCEPT ![c] = NotAsking] /\ served' = served
           \/ /\ asking' = [asking EXCEPT ![c] = new]
              /\ served' = IF i < Len(L) THEN served ELSE Append(served, record)
    BY <1>4 DEF PassLimiter
  <2>2. UnderWay(L, r) /\ c \in Asking
    BY <2>1 DEF Asking, NotAsking
  <2>3. KeyOf(L[i], k)
    BY <1>0, <2>1, <2>2, KeyIsKeyOf DEF UnderWay
  <2>4. counter \in Counter
    <3>1. hits[i][k] \in Counter /\ now \in Nat /\ Span \in Nat
      BY <1>0, <2>1, <2>3, MaxOfLimits DEF KeyOf
    <3>2. counter = IF hits[i][k].until <= now THEN [n |-> 1, until |-> now + Span]
                    ELSE [hits[i][k] EXCEPT !.n = @ + 1]
      BY DEF Increment
    <3> HIDE DEF counter
    <3>3. [n |-> 1, until |-> now + Span] \in Counter
      BY <3>1 DEF Counter
    <3>4. [hits[i][k] EXCEPT !.n = @ + 1] \in Counter
      BY <3>1, CountersMove
    <3> QED
      BY <3>2, <3>3, <3>4
  <2>5. at \in Seq(Nat) /\ Len(at) = i
    BY <2>2 DEF UnderWay
  <2>6. UnderWay(L, new)
    BY <2>1, <2>2, <2>5 DEF UnderWay
  <2>7. i = Len(L) => record \in ServedRecord(L)
    BY <2>2, <2>5 DEF UnderWay, ServedRecord, Typed
  <2> HIDE DEF r, i, k, counter, at, new, record
  <2>8. hits' \in [1..2 -> [Keys -> Counter]]
    BY <1>0, <2>1, <2>3, <2>4 DEF KeyOf
  <2>9. Asking' \subseteq Asking
    BY <2>1, <2>2 DEF Asking
  <2>10. IsFiniteSet(Asking')
    BY <2>9, FS_Subset
  <2>11. \A d \in Asking' : UnderWay(L, asking'[d])
    BY <2>1, <2>6, <2>9 DEF Asking
  <2>12. served' \in Seq(ServedRecord(L))
    <3>1. i = Len(L) => Append(served, record) \in Seq(ServedRecord(L))
      BY <2>7, AppendProperties
    <3>2. i < Len(L) \/ i = Len(L)
      BY <1>0, <2>1
    <3> QED
      BY <2>1, <3>1, <3>2
  <2> QED
    BY <2>1, <2>8, <2>10, <2>11, <2>12
<1>5. ASSUME NEW c \in Clients, Answer(c) PROVE LimitTypes(L)'
  <2> DEFINE k == Key(L[1], asking[c])
             place == asking[c].place
  <2>1. asking[c].step > Len(L) /\ asking' = [asking EXCEPT ![c] = NotAsking] /\ now' = now
    BY <1>5 DEF Answer
  <2>2. UnderWay(L, asking[c]) /\ c \in Asking
    BY <1>0, <2>1 DEF Asking, NotAsking
  <2>3. Asking' \subseteq Asking
    BY <2>1 DEF Asking
  <2>4. IsFiniteSet(Asking') /\ DOMAIN asking' = Clients
    BY <2>1, <2>3, FS_Subset
  <2>5. \A d \in Asking' : UnderWay(L, asking'[d])
    BY <2>1, <2>3 DEF Asking
  <2>6. CASE UNCHANGED <<hits, served>>
    BY <2>1, <2>4, <2>5, <2>6
  <2>7. CASE /\ hits' = [hits EXCEPT ![1][k] = GiveBack(1, k)]
             /\ served' = [served EXCEPT ![place].done = now + 1]
    <3>1. KeyOf(L[1], k)
      BY <1>0, <2>2, KeyIsKeyOf DEF UnderWay
    <3>2. GiveBack(1, k) \in Counter
      <4>1. hits[1][k] \in Counter
        BY <3>1 DEF KeyOf
      <4> QED
        BY <4>1, CountersMove DEF GiveBack
    <3> HIDE DEF k, place
    <3>3. hits' \in [1..2 -> [Keys -> Counter]]
      BY <2>7, <3>1, <3>2 DEF KeyOf
    <3>4. served' \in Seq(ServedRecord(L))
      <4> DEFINE new == [served[place] EXCEPT !.done = now + 1]
      <4>1. served' = [served EXCEPT ![place] = new]
        BY <2>7
      <4>2. place \in 1..Len(served)
        BY <2>1, <2>2 DEF Places, AtService, UnderWay, place
      <4>3. served[place] \in ServedRecord(L)
        BY <4>2, ElementOfSeq
      <4>4. new \in ServedRecord(L)
        <5>1. now + 1 \in Nat
          OBVIOUS
        <5> QED
          BY <4>3, <5>1, DoneIsNoted
      <4> HIDE DEF new
      <4> QED
        BY <4>1, <4>2, <4>4, ExceptSeq
    <3> QED
      BY <2>1, <2>4, <2>5, <3>3, <3>4
  <2> QED
    BY <1>5, <2>6, <2>7 DEF Answer
<1> QED
  BY <1>1, <1>2, <1>3, <1>4, <1>5 DEF LimitNext

\* What a limiter does to the counter of the key, and to a request that it lets through.
Counts(h, counter) ==
    \/ h.until <= now /\ counter = [n |-> 1, until |-> now + Span]
    \/ h.until > now /\ counter.n = h.n + 1 /\ counter.until = h.until

MovesOn(L, r, i, new) ==
    /\ new.step = i + 1 /\ new.at = Append(r.at, now) /\ new.place = Len(served) + 1
    /\ new.address = r.address /\ new.person = r.person

IsServed(r, record) ==
    /\ record.address = r.address /\ record.person = r.person.name
    /\ record.at = Append(r.at, now) /\ record.done = 0

\* A request c passes limiter i, which counts it under k, or is rejected there.
PassesHere(L, c, i, k, counter) ==
    /\ c \in Asking /\ UnderWay(L, asking[c])
    /\ i = asking[c].step /\ k = Key(L[i], asking[c]) /\ KeyOf(L[i], k)
    /\ Counts(hits[i][k], counter)
    /\ hits' = [hits EXCEPT ![i][k] = counter]
    /\ now' = now
    /\ \/ asking' = [asking EXCEPT ![c] = NotAsking] /\ served' = served
       \/ /\ counter.n <= L[i].max
          /\ \E new : asking' = [asking EXCEPT ![c] = new] /\ MovesOn(L, asking[c], i, new)
          /\ i < Len(L) => served' = served
          /\ i = Len(L) => \E record : /\ served' = Append(served, record)
                                       /\ IsServed(asking[c], record)

LEMMA PassEffect ==
    ASSUME NEW L, Chain(L), L = LimitersOf, LimitTypes(L), NEW c \in Clients, PassLimiter(c)
    PROVE  \E i \in 1..Len(L), k \in Keys, counter \in Counter : PassesHere(L, c, i, k, counter)
<1>0. Len(L) \in 1..2 /\ L \in Seq(LimiterRecord)
  BY DEF Chain
<1> DEFINE r == asking[c]
           i == r.step
           k == Key(L[i], r)
           counter == Increment(i, k)
           at == Append(r.at, now)
           new == [r EXCEPT !.step = i + 1, !.at = at, !.place = Len(served) + 1]
           record == [address |-> r.address, person |-> r.person.name, at |-> at, done |-> 0]
<1>1. /\ i \in 1..Len(L) /\ hits' = [hits EXCEPT ![i][k] = counter] /\ now' = now
      /\ \/ asking' = [asking EXCEPT ![c] = NotAsking] /\ served' = served
         \/ /\ ~(counter.n > L[i].max)
            /\ asking' = [asking EXCEPT ![c] = new]
            /\ served' = IF i < Len(L) THEN served ELSE Append(served, record)
  BY DEF PassLimiter
<1>2. UnderWay(L, r) /\ c \in Asking
  BY <1>1 DEF Asking, NotAsking, LimitTypes
<1>3. L[i] \in LimiterRecord /\ KeyOf(L[i], k) /\ k \in Keys
  <2>1. L[i] \in LimiterRecord
    BY <1>0, <1>1, ElementOfSeq
  <2> HIDE DEF i
  <2>2. KeyOf(L[i], k)
    BY <1>2, <2>1, KeyIsKeyOf DEF UnderWay
  <2> QED
    BY <2>1, <2>2 DEF KeyOf
<1>4. hits[i][k] \in Counter /\ now \in Nat /\ Span \in Nat
  BY <1>0, <1>1, <1>3, MaxOfLimits DEF LimitTypes
<1>5. counter = IF hits[i][k].until <= now THEN [n |-> 1, until |-> now + Span]
                ELSE [hits[i][k] EXCEPT !.n = @ + 1]
  BY DEF Increment
<1>6. MovesOn(L, r, i, new) /\ IsServed(r, record)
  BY <1>2 DEF UnderWay, MovesOn, IsServed
<1> HIDE DEF r, i, k, counter, at, new, record
<1>7. [n |-> 1, until |-> now + Span] \in Counter
  BY <1>4 DEF Counter
<1>8. counter \in Counter /\ Counts(hits[i][k], counter)
  <2>1. hits[i][k].until \in Nat
    BY <1>4 DEF Counter
  <2>2. CASE hits[i][k].until <= now
    BY <1>5, <1>7, <2>2 DEF Counts
  <2>3. CASE hits[i][k].until > now
    <3>1. counter = [hits[i][k] EXCEPT !.n = @ + 1]
      BY <1>4, <1>5, <2>1, <2>3
    <3> QED
      BY <1>4, <2>3, <3>1, CountersMove DEF Counts
  <2> QED
    BY <1>4, <2>1, <2>2, <2>3
<1>9. L[i].max \in Nat /\ counter.n \in Nat
  BY <1>3, <1>8 DEF LimiterRecord, Counter
<1>10. \/ asking' = [asking EXCEPT ![c] = NotAsking] /\ served' = served
       \/ /\ counter.n <= L[i].max
          /\ asking' = [asking EXCEPT ![c] = new]
          /\ i < Len(L) => served' = served
          /\ i = Len(L) => served' = Append(served, record)
  BY <1>0, <1>1, <1>9
<1>11. /\ i = asking[c].step /\ k = Key(L[i], asking[c]) /\ r = asking[c]
  BY DEF i, k, r
<1>12. PassesHere(L, c, i, k, counter)
  BY <1>1, <1>2, <1>3, <1>6, <1>8, <1>10, <1>11 DEF PassesHere
<1> QED
  BY <1>1, <1>3, <1>8, <1>12

LEMMA AnswerEffect ==
    ASSUME NEW L, Chain(L), L = LimitersOf, LimitTypes(L), Places(L),
           NEW c \in Clients, Answer(c)
    PROVE  /\ c \in Asking /\ UnderWay(L, asking[c]) /\ AtService(L, c)
           /\ asking' = [asking EXCEPT ![c] = NotAsking] /\ now' = now
           /\ \/ UNCHANGED <<hits, served>>
              \/ \E k \in Keys, counter \in Counter, record \in ServedRecord(L) :
                    LET place == asking[c].place
                    IN /\ Len(L) = 1 /\ k = Key(L[1], asking[c]) /\ KeyOf(L[1], k)
                       /\ hits' = [hits EXCEPT ![1][k] = counter]
                       /\ counter.until = hits[1][k].until
                       /\ \/ counter.n = hits[1][k].n - 1
                          \/ counter.n = 0 /\ hits[1][k].n = 0
                       /\ place \in 1..Len(served)
                       /\ served' = [served EXCEPT ![place] = record]
                       /\ record.at = served[place].at /\ record.done = now + 1
                       /\ record.address = served[place].address
                       /\ record.person = served[place].person
<1>0. Len(L) \in 1..2 /\ L \in Seq(LimiterRecord) /\ (L[1].givesBack => Len(L) = 1)
  BY DEF Chain
<1>1. asking[c].step > Len(L) /\ asking' = [asking EXCEPT ![c] = NotAsking] /\ now' = now
  BY DEF Answer
<1>2. UnderWay(L, asking[c]) /\ c \in Asking
  BY <1>0, <1>1 DEF Asking, NotAsking, LimitTypes
<1>3. AtService(L, c)
  BY <1>0, <1>1, <1>2 DEF UnderWay, AtService
<1> DEFINE k == Key(L[1], asking[c])
           place == asking[c].place
           record == [served[place] EXCEPT !.done = now + 1]
           counter == GiveBack(1, k)
<1>4. \/ UNCHANGED <<hits, served>>
      \/ /\ L[1].givesBack /\ hits' = [hits EXCEPT ![1][k] = counter]
         /\ served' = [served EXCEPT ![place] = record]
  BY DEF Answer
<1>5. KeyOf(L[1], k) /\ k \in Keys
  BY <1>0, <1>2, KeyIsKeyOf DEF UnderWay, KeyOf
<1>6. hits[1][k] \in Counter /\ now + 1 \in Nat
  BY <1>5 DEF LimitTypes
<1>7. /\ counter \in Counter /\ counter.until = hits[1][k].until
      /\ counter.n = hits[1][k].n - 1 \/ (counter.n = 0 /\ hits[1][k].n = 0)
  <2>1. CASE hits[1][k].n > 0
    BY <1>6, <2>1, CountersMove DEF GiveBack
  <2>2. CASE ~(hits[1][k].n > 0)
    <3>1. counter = hits[1][k]
      BY <2>2 DEF GiveBack
    <3> HIDE DEF k, counter
    <3> QED
      BY <1>6, <2>2, <3>1 DEF Counter
  <2> QED
    BY <2>1, <2>2
<1>8. place \in 1..Len(served) /\ served[place] \in ServedRecord(L)
  BY <1>2, <1>3, ElementOfSeq DEF Places, LimitTypes
<1>9. /\ record \in ServedRecord(L) /\ record.at = served[place].at /\ record.done = now + 1
      /\ record.address = served[place].address /\ record.person = served[place].person
  BY <1>6, <1>8, DoneIsNoted
<1> HIDE DEF k, place, record, counter
<1>10. k = Key(L[1], asking[c]) /\ place = asking[c].place
  BY DEF k, place
<1> QED
  BY <1>0, <1>1, <1>2, <1>3, <1>4, <1>5, <1>7, <1>8, <1>9, <1>10

LEMMA StepPlaces ==
    ASSUME NEW L, Chain(L), L = LimitersOf, LimitTypes(L), Places(L), [LimitNext]_limitVars
    PROVE  Places(L)'
<1>0. Len(L) \in 1..2 /\ DOMAIN asking = Clients /\ served \in Seq(ServedRecord(L))
  BY DEF Chain, LimitTypes
<1>1. CASE UNCHANGED limitVars \/ NowPasses
  BY <1>1 DEF limitVars, NowPasses, Places, AtService
<1>2. ASSUME NEW c \in Clients, Ask(c) PROVE Places(L)'
  <2>1. \A d \in Clients : AtService(L, d)' => AtService(L, d) /\ asking'[d] = asking[d]
    <3>1. PICK r \in Requested :
            asking' = [asking EXCEPT ![c] = [step |-> 1, address |-> r.address,
                                             person |-> r.person, at |-> <<>>, place |-> 0]]
      BY <1>2 DEF Ask
    <3>2. asking'[c].step = 1 /\ \A d \in Clients : d # c => asking'[d] = asking[d]
      BY <1>0, <3>1
    <3>3. ~AtService(L, c)'
      BY <3>2, ChainLength DEF AtService
    <3> QED
      BY <3>2, <3>3 DEF AtService
  <2>2. served' = served
    BY <1>2 DEF Ask
  <2> QED
    BY <2>1, <2>2 DEF Places
<1>3. ASSUME NEW c \in Clients, PassLimiter(c) PROVE Places(L)'
  <2>1. PICK i \in 1..Len(L), k \in Keys, counter \in Counter : PassesHere(L, c, i, k, counter)
    BY <1>3, PassEffect
  <2>2. CASE asking' = [asking EXCEPT ![c] = NotAsking] /\ served' = served
    <3>1. \A d \in Clients : AtService(L, d)' => AtService(L, d) /\ asking'[d] = asking[d]
      BY <1>0, <2>2 DEF NotAsking, AtService
    <3> QED
      BY <2>2, <3>1 DEF Places
  <2>3. ASSUME NEW new, asking' = [asking EXCEPT ![c] = new], MovesOn(L, asking[c], i, new),
               i < Len(L), served' = served
        PROVE  Places(L)'
    <3>1. \A d \in Clients : AtService(L, d)' => AtService(L, d) /\ asking'[d] = asking[d]
      BY <1>0, <2>3 DEF MovesOn, AtService
    <3> QED
      BY <2>3, <3>1 DEF Places
  <2>4. ASSUME NEW new, asking' = [asking EXCEPT ![c] = new], MovesOn(L, asking[c], i, new),
               NEW record, served' = Append(served, record), IsServed(asking[c], record)
        PROVE  Places(L)'
    <3> DEFINE n == Len(served)
    <3>1. /\ n \in Nat /\ Len(served') = n + 1 /\ served'[n + 1] = record
          /\ \A j \in 1..n : served'[j] = served[j]
      BY <1>0, <2>4
    <3>2. \A d \in Clients : d # c => asking'[d] = asking[d]
      BY <1>0, <2>4
    <3>3. asking'[c] = new /\ new.place = n + 1
      BY <1>0, <2>4 DEF MovesOn
    <3>4. /\ served'[new.place].address = new.address
          /\ served'[new.place].person = new.person.name /\ served'[new.place].done = 0
      BY <2>4, <3>1, <3>3 DEF MovesOn, IsServed
    <3>5. \A d \in Clients \ {c} : AtService(L, d)' =>
            /\ AtService(L, d) /\ asking'[d] = asking[d] /\ asking[d].place \in 1..n
            /\ served'[asking[d].place] = served[asking[d].place]
      BY <3>1, <3>2 DEF AtService, Places
    <3> HIDE DEF n
    <3>6. \A d \in Clients : AtService(L, d)' =>
            /\ asking'[d].place \in 1..Len(served')
            /\ served'[asking'[d].place].address = asking'[d].address
            /\ served'[asking'[d].place].person = asking'[d].person.name
            /\ served'[asking'[d].place].done = 0
      <4> TAKE d \in Clients
      <4>1. CASE d = c
        BY <3>1, <3>3, <3>4, <4>1
      <4>2. CASE d # c
        BY <3>1, <3>5, <4>2 DEF Places
      <4> QED
        BY <4>1, <4>2
    <3>7. \A d, e \in Clients :
            AtService(L, d)' /\ AtService(L, e)' /\ asking'[d].place = asking'[e].place => d = e
      <4> SUFFICES ASSUME NEW d \in Clients, NEW e \in Clients, AtService(L, d)',
                          AtService(L, e)', asking'[d].place = asking'[e].place
                   PROVE  d = e
        OBVIOUS
      <4>1. CASE d = c \/ e = c
        BY <3>1, <3>3, <3>5, <4>1
      <4>2. CASE d # c /\ e # c
        BY <3>5, <4>2 DEF Places
      <4> QED
        BY <4>1, <4>2
    <3> QED
      BY <3>6, <3>7 DEF Places
  <2>5. i < Len(L) \/ i = Len(L)
    BY <1>0
  <2> QED
    BY <2>1, <2>2, <2>3, <2>4, <2>5 DEF PassesHere
<1>4. ASSUME NEW c \in Clients, Answer(c) PROVE Places(L)'
  <2>1. AtService(L, c) /\ asking' = [asking EXCEPT ![c] = NotAsking]
    BY <1>4, AnswerEffect
  <2>2. \A d \in Clients : AtService(L, d)' =>
          d # c /\ AtService(L, d) /\ asking'[d] = asking[d] /\ asking[d].place # asking[c].place
    BY <1>0, <2>1 DEF NotAsking, AtService, Places
  <2> DEFINE OthersStay ==
               /\ Len(served') = Len(served)
               /\ \A j \in 1..Len(served) : j # asking[c].place => served'[j] = served[j]
  <2>3. OthersStay
    <3>1. ASSUME NEW record \in ServedRecord(L),
                 served' = [served EXCEPT ![asking[c].place] = record]
          PROVE  OthersStay
      BY <1>0, <3>1
    <3> QED
      BY <1>4, <3>1, AnswerEffect
  <2> QED
    BY <2>2, <2>3 DEF Places
<1> QED
  BY <1>1, <1>2, <1>3, <1>4 DEF LimitNext

LEMMA StepPlainKeys ==
    ASSUME NEW L, Chain(L), L = LimitersOf, LimitTypes(L), Places(L), PlainKeys,
           [LimitNext]_limitVars
    PROVE  PlainKeys'
<1>1. ASSUME NEW i \in 1..2, NEW k \in Keys, NEW limiter, KeyOf(limiter, k),
             NEW counter \in Counter, hits' = [hits EXCEPT ![i][k] = counter]
      PROVE  PlainKeys'
  <2>1. \A j \in 1..2, l \in Keys : l # k => hits'[j][l] = hits[j][l]
    BY <1>1 DEF LimitTypes
  <2> QED
    BY <1>1, <2>1 DEF PlainKeys, KeyOf
<1>2. CASE hits' = hits
  BY <1>2 DEF PlainKeys
<1>3. 1..Len(L) \subseteq 1..2 /\ 1 \in 1..2
  <2>1. \A i \in 1..Len(L) : i \in 1..2
    BY PlaceInChain
  <2> QED
    BY <2>1
<1>4. ASSUME NEW c \in Clients, PassLimiter(c) PROVE PlainKeys'
  BY <1>1, <1>3, <1>4, PassEffect DEF PassesHere
<1>5. ASSUME NEW c \in Clients, Answer(c) PROVE PlainKeys'
  BY <1>1, <1>2, <1>3, <1>5, AnswerEffect
<1> QED
  BY <1>2, <1>4, <1>5 DEF LimitNext, Ask, NowPasses, limitVars

\* A request that a limiter has counted under the key, and that is on its way to others.
Passed(L, i, k, r) == r.step \in i + 1..Len(L) /\ Key(L[i], r) = k

Since(i, k) == hits[i][k].until - Span

\* What was counted was counted before the window ends.
BeforeEnd(L, i, k) ==
    /\ hits[i][k].until <= now + Span
    /\ \A j \in 1..Len(served) : Under(k, served[j]) => served[j].at[i] < hits[i][k].until
    /\ \A c \in Clients : Passed(L, i, k, asking[c]) => asking[c].at[i] < hits[i][k].until

\* The requests counted in the window that have not been given back, on the way or let
\* through, and those of before that were given back in it.
OnTheWay(L, i, k) ==
    {c \in Clients : Passed(L, i, k, asking[c]) /\ asking[c].at[i] >= Since(i, k)}
Through(i, k) ==
    {j \in 1..Len(served) : /\ Under(k, served[j]) /\ served[j].at[i] >= Since(i, k)
                            /\ served[j].done = 0}
Late(i, k) ==
    {j \in 1..Len(served) : /\ Under(k, served[j]) /\ served[j].at[i] < Since(i, k)
                            /\ served[j].done > Since(i, k)}

Counted(L, i, k) ==
    LET passed == Cardinality(OnTheWay(L, i, k)) + Cardinality(Through(i, k))
        late == Cardinality(Late(i, k))
    IN passed <= hits[i][k].n + late /\ passed <= L[i].max + late

WindowHolds(L) ==
    \A i \in 1..Len(L), k \in Keys :
        KeyOf(L[i], k) => BeforeEnd(L, i, k) /\ Counted(L, i, k)

LEMMA LimitSizes ==
    ASSUME NEW L, LimitTypes(L), NEW i \in 1..Len(L), NEW k
    PROVE  /\ IsFiniteSet(OnTheWay(L, i, k)) /\ Cardinality(OnTheWay(L, i, k)) \in Nat
           /\ IsFiniteSet(Through(i, k)) /\ Cardinality(Through(i, k)) \in Nat
           /\ IsFiniteSet(Late(i, k)) /\ Cardinality(Late(i, k)) \in Nat
<1>1. OnTheWay(L, i, k) \subseteq Asking
  <2>1. i \in Nat /\ i > 0
    OBVIOUS
  <2>2. \A c \in Clients : asking[c].step \in i + 1..Len(L) => asking[c] # NotAsking
    BY <2>1 DEF NotAsking
  <2> QED
    BY <2>2 DEF OnTheWay, Passed, Asking
<1>2. Through(i, k) \subseteq 1..Len(served) /\ Late(i, k) \subseteq 1..Len(served)
  BY DEF Through, Late
<1>3. IsFiniteSet(Asking) /\ IsFiniteSet(1..Len(served))
  BY FS_Interval DEF LimitTypes
<1> QED
  BY <1>1, <1>2, <1>3, FS_Subset, FS_CardinalityType

\* How the sums may move: a stands for those on the way, b for those let through, d for the
\* late ones, n for the counter; nothing more, one more, a new window, or one given back.
Change(a, b, d, n, a1, b1, d1, n1, max) ==
    \/ a1 + b1 <= a + b /\ d1 >= d /\ n1 >= n
    \/ a1 + b1 <= a + b + 1 /\ d1 >= d /\ n1 = n + 1 /\ n1 <= max
    \/ a1 + b1 <= 1 /\ n1 = 1 /\ 1 <= max
    \/ a1 + b1 = 0
    \/ a1 + b1 <= a + b - 1 /\ d1 >= d /\ n1 >= n - 1
    \/ a1 + b1 <= a + b /\ d1 >= d + 1 /\ n1 >= n - 1

LEMMA CountedMoves ==
    ASSUME NEW L, Chain(L), LimitTypes(L), LimitTypes(L)', NEW i \in 1..Len(L), NEW k \in Keys,
           Counted(L, i, k),
           NEW a, a = Cardinality(OnTheWay(L, i, k)), NEW b, b = Cardinality(Through(i, k)),
           NEW d, d = Cardinality(Late(i, k)),
           NEW a1, a1 = Cardinality(OnTheWay(L, i, k)'), NEW b1, b1 = Cardinality(Through(i, k)'),
           NEW d1, d1 = Cardinality(Late(i, k)'),
           Change(a, b, d, hits[i][k].n, a1, b1, d1, hits'[i][k].n, L[i].max)
    PROVE  Counted(L, i, k)'
<1> DEFINE n == hits[i][k].n
           n1 == hits'[i][k].n
           max == L[i].max
<1>1. i \in 1..2 /\ L[i] \in LimiterRecord
  BY PlaceInChain
<1>2. n \in Nat /\ n1 \in Nat /\ max \in Nat
  <2>1. hits[i][k] \in Counter /\ hits'[i][k] \in Counter
    BY <1>1 DEF LimitTypes
  <2>2. n \in Nat /\ n1 \in Nat
    BY <2>1 DEF Counter
  <2>3. max \in Nat
    BY <1>1 DEF LimiterRecord
  <2> QED
    BY <2>2, <2>3
<1>3. a \in Nat /\ b \in Nat /\ d \in Nat
  BY LimitSizes
<1>4. /\ IsFiniteSet(OnTheWay(L, i, k)') /\ IsFiniteSet(Through(i, k)')
      /\ IsFiniteSet(Late(i, k)')
  <2>1. OnTheWay(L, i, k)' \subseteq Asking'
    <3>1. i \in Nat /\ i > 0
      OBVIOUS
    <3>2. \A c \in Clients : asking'[c].step \in i + 1..Len(L) => asking'[c] # NotAsking
      BY <3>1 DEF NotAsking
    <3> QED
      BY <3>2 DEF OnTheWay, Passed, Asking
  <2>2. Through(i, k)' \subseteq 1..Len(served') /\ Late(i, k)' \subseteq 1..Len(served')
    BY DEF Through, Late
  <2>3. IsFiniteSet(Asking') /\ Len(served') \in Nat
    BY DEF LimitTypes
  <2>4. IsFiniteSet(1..Len(served'))
    BY <2>3, FS_Interval
  <2> QED
    BY <2>1, <2>2, <2>3, <2>4, FS_Subset
<1>5. a1 \in Nat /\ b1 \in Nat /\ d1 \in Nat
  BY <1>4, FS_CardinalityType
<1>6. a + b <= n + d /\ a + b <= max + d
  BY DEF Counted
<1> HIDE DEF n, n1, max
<1>7. a1 + b1 <= n1 + d1 /\ a1 + b1 <= max + d1
  <2>1. Change(a, b, d, n, a1, b1, d1, n1, max)
    BY DEF n, n1, max
  <2> QED
    BY ONLY <1>2, <1>3, <1>5, <1>6, <2>1 DEF Change
<1> QED
  BY <1>7 DEF Counted, n1, max

\* Nothing more is counted.
LEMMA CountedStays ==
    ASSUME NEW L, Chain(L), LimitTypes(L), LimitTypes(L)', NEW i \in 1..Len(L), NEW k \in Keys,
           Counted(L, i, k),
           OnTheWay(L, i, k)' \subseteq OnTheWay(L, i, k), Through(i, k)' \subseteq Through(i, k),
           Late(i, k) \subseteq Late(i, k)', hits'[i][k].n >= hits[i][k].n
    PROVE  Counted(L, i, k)'
<1>1. IsFiniteSet(Late(i, k)')
  <2>1. Late(i, k)' \subseteq 1..Len(served')
    BY DEF Late
  <2>2. IsFiniteSet(1..Len(served'))
    <3> DEFINE m == Len(served')
    <3>1. m \in Nat
      BY DEF LimitTypes
    <3> HIDE DEF m
    <3>2. IsFiniteSet(1..m)
      BY <3>1, FS_Interval
    <3> QED
      BY <3>2 DEF m
  <2> QED
    BY <2>1, <2>2, FS_Subset
<1> DEFINE a == Cardinality(OnTheWay(L, i, k))
           b == Cardinality(Through(i, k))
           d == Cardinality(Late(i, k))
           a1 == Cardinality(OnTheWay(L, i, k)')
           b1 == Cardinality(Through(i, k)')
           d1 == Cardinality(Late(i, k)')
<1>2. a \in Nat /\ b \in Nat /\ d \in Nat
  BY LimitSizes
<1>3. a1 \in Nat /\ b1 \in Nat /\ d1 \in Nat /\ a1 <= a /\ b1 <= b /\ d <= d1
  BY <1>1, LimitSizes, FS_Subset, FS_CardinalityType
<1> HIDE DEF a, b, d, a1, b1, d1
<1>4. a1 + b1 <= a + b /\ d1 >= d
  BY <1>2, <1>3
<1> QED
  BY <1>4, CountedMoves DEF a, b, d, a1, b1, d1, Change

LEMMA OneMore ==
    ASSUME NEW S, IsFiniteSet(S), NEW T, NEW x, T \subseteq S \cup {x}
    PROVE  /\ IsFiniteSet(T) /\ Cardinality(T) \in Nat /\ Cardinality(S) \in Nat
           /\ Cardinality(T) <= Cardinality(S) + 1
           /\ x \notin T => Cardinality(T) <= Cardinality(S)
<1>1. /\ IsFiniteSet(S \cup {x}) /\ Cardinality(S) \in Nat
      /\ Cardinality(S \cup {x}) <= Cardinality(S) + 1
  <2>1. Cardinality(S) \in Nat
    BY FS_CardinalityType
  <2>2. /\ IsFiniteSet(S \cup {x})
        /\ \/ Cardinality(S \cup {x}) = Cardinality(S)
           \/ Cardinality(S \cup {x}) = Cardinality(S) + 1
    BY FS_AddElement
  <2> QED
    BY <2>1, <2>2
<1>2. IsFiniteSet(T) /\ Cardinality(T) <= Cardinality(S \cup {x}) /\ Cardinality(T) \in Nat
  BY <1>1, FS_Subset, FS_CardinalityType
<1>3. x \notin T => Cardinality(T) <= Cardinality(S)
  BY FS_Subset
<1>4. Cardinality(S \cup {x}) \in Nat
  BY <1>1, FS_CardinalityType
<1> QED
  BY <1>1, <1>2, <1>3, <1>4

LEMMA OneLess ==
    ASSUME NEW S, IsFiniteSet(S), NEW T, NEW x, T \subseteq S \ {x}, x \in S
    PROVE  Cardinality(T) \in Nat /\ Cardinality(S) \in Nat /\ Cardinality(T) <= Cardinality(S) - 1
<1>1. IsFiniteSet(S \ {x}) /\ Cardinality(S \ {x}) = Cardinality(S) - 1
  BY FS_RemoveElement
<1>2. IsFiniteSet(T) /\ Cardinality(T) <= Cardinality(S \ {x})
  BY <1>1, FS_Subset
<1> QED
  BY <1>1, <1>2, FS_CardinalityType

LEMMA PassKeepsWindow ==
    ASSUME NEW L, Chain(L), L = LimitersOf, LimitTypes(L), LimitTypes(L)',
           NEW c \in Clients, PassLimiter(c),
           NEW i \in 1..Len(L), NEW k \in Keys, KeyOf(L[i], k),
           BeforeEnd(L, i, k), Counted(L, i, k)
    PROVE  BeforeEnd(L, i, k)' /\ Counted(L, i, k)'
<1>0. PICK i0 \in 1..Len(L), k0 \in Keys, counter \in Counter : PassesHere(L, c, i0, k0, counter)
  BY PassEffect
<1>1. /\ c \in Asking /\ UnderWay(L, asking[c])
      /\ i0 = asking[c].step /\ k0 = Key(L[i0], asking[c]) /\ KeyOf(L[i0], k0)
      /\ Counts(hits[i0][k0], counter)
      /\ hits' = [hits EXCEPT ![i0][k0] = counter]
      /\ now' = now
      /\ \/ asking' = [asking EXCEPT ![c] = NotAsking] /\ served' = served
         \/ /\ counter.n <= L[i0].max
            /\ \E new : asking' = [asking EXCEPT ![c] = new] /\ MovesOn(L, asking[c], i0, new)
            /\ i0 < Len(L) => served' = served
            /\ i0 = Len(L) => \E record : /\ served' = Append(served, record)
                                          /\ IsServed(asking[c], record)
  BY <1>0 DEF PassesHere
<1> DEFINE r == asking[c]
           same == i = i0 /\ k = k0
           until == hits[i][k].until
           n == hits[i][k].n
<1>2. /\ i \in 1..2 /\ i0 \in 1..2 /\ L[i] \in LimiterRecord /\ L[i0] \in LimiterRecord
      /\ i \in Nat /\ i0 \in Nat /\ Len(L) \in Nat /\ i0 <= Len(L)
  <2>1. Len(L) \in Nat
    BY DEF Chain
  <2> QED
    BY <2>1, PlaceInChain
<1>3. /\ n \in Nat /\ until \in Nat /\ now \in Nat /\ Span \in Nat /\ Span > 0
      /\ counter.n \in Nat /\ counter.until \in Nat
  <2>1. hits[i][k] \in Counter /\ now \in Nat
    BY <1>2 DEF LimitTypes
  <2>2. Span \in Nat /\ Span > 0
    BY MaxOfLimits
  <2> QED
    BY <2>1, <2>2 DEF Counter
<1>4. /\ same => hits'[i][k] = counter
      /\ ~same => hits'[i][k] = hits[i][k]
  BY <1>1, <1>2 DEF LimitTypes
<1>5. \A d \in Clients : d # c => asking'[d] = asking[d]
  BY <1>1 DEF LimitTypes
<1> DEFINE Moved == /\ asking'[c].step = i0 + 1 /\ asking'[c].address = r.address
                    /\ asking'[c].person = r.person /\ asking'[c].at = Append(r.at, now)
                    /\ counter.n <= L[i0].max
           Rejected == asking'[c] = NotAsking
           NoneServed == served' = served
           OneServed == /\ i0 = Len(L) /\ Len(served') = Len(served) + 1
                        /\ \A j \in 1..Len(served) : served'[j] = served[j]
                        /\ IsServed(r, served'[Len(served) + 1])
<1>6. \/ Rejected /\ NoneServed
      \/ Moved /\ NoneServed /\ i0 < Len(L)
      \/ Moved /\ OneServed
  <2>1. CASE asking' = [asking EXCEPT ![c] = NotAsking] /\ served' = served
    BY <2>1 DEF LimitTypes
  <2>2. ASSUME counter.n <= L[i0].max, NEW new, asking' = [asking EXCEPT ![c] = new],
               MovesOn(L, r, i0, new)
        PROVE  Moved
    BY <2>2 DEF MovesOn, LimitTypes
  <2>3. ASSUME i0 = Len(L), NEW record, served' = Append(served, record), IsServed(r, record)
        PROVE  OneServed
    BY <2>3 DEF LimitTypes
  <2>4. i0 < Len(L) \/ i0 = Len(L)
    BY <1>2
  <2> HIDE DEF Moved, OneServed
  <2> QED
    BY <1>1, <2>1, <2>2, <2>3, <2>4
<1>7. /\ r.at \in Seq(Nat) /\ r.address \in Addresses /\ r.person \in Typed
      /\ Len(r.at) = i0 - 1 /\ r.step = i0
  BY <1>1 DEF UnderWay
<1>8. /\ i < i0 => Append(r.at, now)[i] = r.at[i]
      /\ i = i0 => Append(r.at, now)[i] = now
  BY <1>2, <1>7
\* On the way afterwards is who was before, and the request of this step if counted here.
<1>9. \A d \in Clients : Passed(L, i, k, asking'[d]) =>
        \/ Passed(L, i, k, asking[d]) /\ asking'[d].at[i] = asking[d].at[i]
        \/ d = c /\ same /\ Moved /\ i0 < Len(L) /\ asking'[d].at[i] = now
  <2> SUFFICES ASSUME Passed(L, i, k, asking'[c])
               PROVE  \/ Passed(L, i, k, r) /\ asking'[c].at[i] = r.at[i]
                      \/ same /\ Moved /\ i0 < Len(L) /\ asking'[c].at[i] = now
    BY <1>5
  <2>1. ~Rejected
    BY <1>2 DEF Passed, NotAsking
  <2>2. Moved
    BY <1>6, <2>1
  <2>3. i0 + 1 \in i + 1..Len(L)
    BY <2>2 DEF Passed
  <2>4. i <= i0 /\ i0 < Len(L)
    BY <1>2, <2>3
  <2>5. Key(L[i], r) = k
    BY <2>2 DEF Passed, Key
  <2>6. CASE i = i0
    BY <1>1, <1>8, <2>2, <2>4, <2>5, <2>6
  <2>7. CASE i < i0
    <3>1. r.step \in i + 1..Len(L)
      BY <1>2, <1>7, <2>7
    <3>2. asking'[c].at[i] = r.at[i]
      BY <1>8, <2>2, <2>7
    <3> QED
      BY <2>5, <3>1, <3>2 DEF Passed
  <2> QED
    BY <1>2, <2>4, <2>6, <2>7

<1>10. Moved /\ i0 = Len(L) => ~Passed(L, i, k, asking'[c])
  BY <1>2 DEF Passed
<1> DEFINE last == Len(served) + 1
<1>11. /\ Len(served) \in Nat
       /\ \A j \in 1..Len(served') :
             \/ j \in 1..Len(served) /\ served'[j] = served[j]
             \/ j = last /\ OneServed
  <2>1. Len(served) \in Nat
    BY DEF LimitTypes
  <2> QED
    BY <1>6, <2>1
\* The record falls under the key if it was counted by it, now or before.
<1>12. OneServed /\ Under(k, served'[last]) =>
         /\ served'[last].done = 0
         /\ \/ same /\ served'[last].at[i] = now
            \/ ~same /\ Passed(L, i, k, r) /\ served'[last].at[i] = r.at[i]
  <2> SUFFICES ASSUME OneServed, Under(k, served'[last])
               PROVE  /\ served'[last].done = 0
                      /\ \/ same /\ served'[last].at[i] = now
                         \/ ~same /\ Passed(L, i, k, r) /\ served'[last].at[i] = r.at[i]
    OBVIOUS
  <2>1. IsServed(r, served'[last])
    OBVIOUS
  <2>2. Key(L[i], r) = k
    BY <1>2, <1>7, <2>1, UnderIsCounted DEF IsServed
  <2>3. i <= i0 /\ i0 = Len(L)
    BY <1>2
  <2>4. CASE i = i0
    <3>1. same
      BY <1>1, <2>2, <2>4
    <3> QED
      BY <1>8, <2>1, <2>4, <3>1 DEF IsServed
  <2>5. CASE i < i0
    <3>1. r.step \in i + 1..Len(L)
      BY <1>2, <1>7, <2>3, <2>5
    <3>2. ~same
      BY <1>2, <2>5
    <3> QED
      BY <1>8, <2>1, <2>2, <2>5, <3>1, <3>2 DEF IsServed, Passed
  <2> QED
    BY <1>2, <2>3, <2>4, <2>5
<1> DEFINE until1 == hits'[i][k].until
           n1 == hits'[i][k].n
<1>13. /\ until1 \in Nat /\ n1 \in Nat /\ until <= until1 /\ until1 <= now + Span
       /\ same => now < until1
       /\ same /\ until > now => until1 = until /\ n1 = n + 1 /\ (Moved => n1 <= L[i].max)
       /\ same /\ until <= now => until1 = now + Span /\ n1 = 1 /\ (Moved => 1 <= L[i].max)
       /\ ~same => until1 = until /\ n1 = n
  <2>1. until <= now + Span
    BY DEF BeforeEnd
  <2>2. CASE ~same
    <3>1. until1 = until /\ n1 = n
      BY <1>4, <2>2
    <3> HIDE DEF Moved, Rejected, NoneServed, OneServed, same, until1, n1, until, n
    <3> QED
      BY <1>3, <2>1, <2>2, <3>1
  <2>3. CASE same
    <3>1. until1 = counter.until /\ n1 = counter.n /\ Counts(hits[i][k], counter)
      BY <1>1, <1>4, <2>3
    <3>2. \/ until <= now /\ counter.n = 1 /\ counter.until = now + Span
          \/ until > now /\ counter.n = n + 1 /\ counter.until = until
      BY <3>1 DEF Counts
    <3>3. Moved => counter.n <= L[i].max
      BY <2>3
    <3> HIDE DEF Moved, Rejected, NoneServed, OneServed, same, until, until1, n, n1
    <3>4. until > now => ~(until <= now)
      BY <1>3
    <3>5. CASE until <= now /\ counter.n = 1 /\ counter.until = now + Span
      BY <1>3, <2>1, <2>3, <3>1, <3>3, <3>4, <3>5
    <3>6. CASE until > now /\ counter.n = n + 1 /\ counter.until = until
      BY <1>3, <2>1, <2>3, <3>1, <3>3, <3>4, <3>6
    <3> QED
      BY <3>2, <3>5, <3>6
  <2> QED
    BY <2>2, <2>3
<1> DEFINE since == until - Span
           since1 == until1 - Span
<1>14. since \in Int /\ since1 \in Int /\ since <= since1
  <2>1. until \in Nat /\ until1 \in Nat /\ until <= until1 /\ Span \in Nat
    BY <1>3, <1>13
  <2> HIDE DEF until, until1, Moved, Rejected, NoneServed, OneServed
  <2> QED
    BY <2>1
\* The members of the sets, and what their times are compared with.
<1>15. /\ \A d : d \in OnTheWay(L, i, k) <=>
                 d \in Clients /\ Passed(L, i, k, asking[d]) /\ asking[d].at[i] >= since
       /\ \A d : d \in OnTheWay(L, i, k)' <=>
                 d \in Clients /\ Passed(L, i, k, asking'[d]) /\ asking'[d].at[i] >= since1
  BY DEF OnTheWay, Since, Passed
<1>16. /\ \A j : j \in Through(i, k) <=>
                 /\ j \in 1..Len(served) /\ Under(k, served[j])
                 /\ served[j].at[i] >= since /\ served[j].done = 0
       /\ \A j : j \in Through(i, k)' <=>
                 /\ j \in 1..Len(served') /\ Under(k, served'[j])
                 /\ served'[j].at[i] >= since1 /\ served'[j].done = 0
  BY DEF Through, Since, Under
<1>17. since1 = since => Late(i, k) \subseteq Late(i, k)'
  <2>1. since = Since(i, k) /\ since1 = Since(i, k)'
    BY DEF Since
  <2>2. \A j \in 1..Len(served) : j \in 1..Len(served') /\ served'[j] = served[j]
    BY <1>6, <1>11
  <2> HIDE DEF since, since1, until, until1, Moved, Rejected, NoneServed, OneServed
  <2> QED
    BY <2>1, <2>2 DEF Late, Under
\* The times in the sets are numbers.
<1>18. /\ \A d \in Clients : Passed(L, i, k, asking[d]) => asking[d].at[i] \in Nat
       /\ \A j \in 1..Len(served) : served[j].at[i] \in Nat
  <2>1. ASSUME NEW d \in Clients, Passed(L, i, k, asking[d]) PROVE asking[d].at[i] \in Nat
    <3>1. d \in Asking
      BY <1>2, <2>1 DEF Passed, NotAsking, Asking
    <3>2. asking[d].at \in Seq(Nat) /\ Len(asking[d].at) = asking[d].step - 1
      BY <3>1 DEF LimitTypes, UnderWay
    <3>3. i \in 1..Len(asking[d].at)
      BY <1>2, <2>1, <3>2 DEF Passed
    <3> QED
      BY <3>2, <3>3, ElementOfSeq
  <2>2. ASSUME NEW j \in 1..Len(served) PROVE served[j].at[i] \in Nat
    <3>1. served[j] \in ServedRecord(L)
      BY ElementOfSeq DEF LimitTypes
    <3>2. served[j].at \in Seq(Nat) /\ i \in 1..Len(served[j].at)
      BY <3>1 DEF ServedRecord
    <3> QED
      BY <3>2, ElementOfSeq
  <2> QED
    BY <2>1, <2>2
<1>19. BeforeEnd(L, i, k)'
  <2>1. until1 <= now' + Span
    BY <1>1, <1>13
  <2>2. ASSUME NEW j \in 1..Len(served'), Under(k, served'[j])
        PROVE  served'[j].at[i] < until1
    <3>1. CASE j \in 1..Len(served) /\ served'[j] = served[j]
      <4>1. served[j].at[i] < until /\ served[j].at[i] \in Nat
        BY <1>18, <2>2, <3>1 DEF BeforeEnd
      <4> HIDE DEF until, until1
      <4> QED
        BY <1>3, <1>13, <3>1, <4>1
    <3>2. CASE j = last /\ OneServed
      <4>1. CASE same /\ served'[last].at[i] = now
        BY <1>13, <3>2, <4>1
      <4>2. CASE Passed(L, i, k, r) /\ served'[last].at[i] = r.at[i]
        <5>1. r.at[i] < until /\ r.at[i] \in Nat
          BY <1>18, <4>2 DEF BeforeEnd
        <5> HIDE DEF until, until1
        <5> QED
          BY <1>3, <1>13, <3>2, <4>2, <5>1
      <4> QED
        BY <1>12, <2>2, <3>2, <4>1, <4>2
    <3> QED
      BY <1>11, <3>1, <3>2
  <2>3. ASSUME NEW d \in Clients, Passed(L, i, k, asking'[d])
        PROVE  asking'[d].at[i] < until1
    <3>1. CASE Passed(L, i, k, asking[d]) /\ asking'[d].at[i] = asking[d].at[i]
      <4>1. asking[d].at[i] < until /\ asking[d].at[i] \in Nat
        BY <1>18, <3>1 DEF BeforeEnd
      <4> HIDE DEF until, until1
      <4> QED
        BY <1>3, <1>13, <3>1, <4>1
    <3>2. CASE same /\ asking'[d].at[i] = now
      BY <1>13, <3>2
    <3> QED
      BY <1>9, <2>3, <3>1, <3>2
  <2> QED
    BY <2>1, <2>2, <2>3 DEF BeforeEnd, Passed, Under
<1> DEFINE a == Cardinality(OnTheWay(L, i, k))
           b == Cardinality(Through(i, k))
           d == Cardinality(Late(i, k))
           a1 == Cardinality(OnTheWay(L, i, k)')
           b1 == Cardinality(Through(i, k)')
           d1 == Cardinality(Late(i, k)')
<1>20. /\ IsFiniteSet(OnTheWay(L, i, k)) /\ IsFiniteSet(Through(i, k)) /\ IsFiniteSet(Late(i, k)')
       /\ a \in Nat /\ b \in Nat /\ d \in Nat /\ d1 \in Nat
  <2>1. Late(i, k)' \subseteq 1..Len(served') /\ Len(served') \in Nat
    BY DEF Late, LimitTypes
  <2>2. IsFiniteSet(Late(i, k)')
    <3>1. IsFiniteSet(1..Len(served'))
      BY <2>1, FS_Interval
    <3> QED
      BY <2>1, <3>1, FS_Subset
  <2> QED
    BY <2>2, LimitSizes, FS_CardinalityType
<1> DEFINE Changed == Change(a, b, d, n, a1, b1, d1, n1, L[i].max)
<1>21. since1 = since => d <= d1
  <2>1. ASSUME Late(i, k) \subseteq Late(i, k)' PROVE d <= d1
    BY <1>20, <2>1, FS_Subset
  <2> HIDE DEF since, since1, d, d1
  <2> QED
    BY <1>17, <2>1
\* In the same window, who is new in the sets.
<1>22. ASSUME since1 = since
       PROVE  /\ \A e \in OnTheWay(L, i, k)' :
                    e \in OnTheWay(L, i, k) \/ (e = c /\ same /\ Moved /\ i0 < Len(L))
              /\ \A j \in Through(i, k)' : j \in Through(i, k) \/ (j = last /\ OneServed)
  <2>1. ASSUME NEW e \in OnTheWay(L, i, k)'
        PROVE  e \in OnTheWay(L, i, k) \/ (e = c /\ same /\ Moved /\ i0 < Len(L))
    <3>1. e \in Clients /\ Passed(L, i, k, asking'[e]) /\ asking'[e].at[i] >= since1
      BY <1>15, <2>1
    <3> HIDE DEF since, since1, same, Moved
    <3> QED
      BY <1>9, <1>15, <1>22, <3>1
  <2>2. ASSUME NEW j \in Through(i, k)'
        PROVE  j \in Through(i, k) \/ (j = last /\ OneServed)
    <3>1. /\ j \in 1..Len(served') /\ Under(k, served'[j])
          /\ served'[j].at[i] >= since1 /\ served'[j].done = 0
      BY <1>16, <2>2
    <3> HIDE DEF since, since1, OneServed, last
    <3> QED
      BY <1>11, <1>16, <1>22, <3>1
  <2> QED
    BY <2>1, <2>2
\* In a new window.
<1>23. ASSUME since1 = now, until <= now
       PROVE  /\ \A e \in OnTheWay(L, i, k)' : e = c /\ Moved /\ i0 < Len(L)
              /\ \A j \in Through(i, k)' : j = last /\ OneServed
  <2>1. ASSUME NEW e \in OnTheWay(L, i, k)' PROVE e = c /\ Moved /\ i0 < Len(L)
    <3>1. e \in Clients /\ Passed(L, i, k, asking'[e]) /\ asking'[e].at[i] >= now
      BY <1>15, <1>23, <2>1
    <3>2. ASSUME Passed(L, i, k, asking[e]), asking'[e].at[i] = asking[e].at[i] PROVE FALSE
      <4>1. asking[e].at[i] < until /\ asking[e].at[i] \in Nat
        BY <1>18, <3>1, <3>2 DEF BeforeEnd
      <4> HIDE DEF until
      <4> QED
        BY <1>3, <1>23, <3>1, <3>2, <4>1
    <3> HIDE DEF Moved
    <3> QED
      BY <1>9, <3>1, <3>2
  <2>2. ASSUME NEW j \in Through(i, k)' PROVE j = last /\ OneServed
    <3>1. j \in 1..Len(served') /\ Under(k, served'[j]) /\ served'[j].at[i] >= now
      BY <1>16, <1>23, <2>2
    <3>2. ASSUME j \in 1..Len(served), served'[j] = served[j] PROVE FALSE
      <4>1. served[j].at[i] < until /\ served[j].at[i] \in Nat
        BY <1>18, <3>1, <3>2 DEF BeforeEnd
      <4> HIDE DEF until
      <4> QED
        BY <1>3, <1>23, <3>1, <3>2, <4>1
    <3> HIDE DEF OneServed, last
    <3> QED
      BY <1>11, <3>1, <3>2
  <2> QED
    BY <2>1, <2>2
<1>24. Moved /\ i0 = Len(L) => c \notin OnTheWay(L, i, k)'
  BY <1>10, <1>15
<1> HIDE DEF Rejected, NoneServed, since, since1, until, until1, last, n, n1
<1>25. /\ Moved /\ NoneServed => ~OneServed
       /\ Rejected => ~Moved
       /\ OneServed => i0 = Len(L)
  <2>1. Moved /\ NoneServed => ~OneServed
    BY <1>11 DEF NoneServed
  <2>2. Rejected => ~Moved
    BY <1>2 DEF Rejected, NotAsking
  <2> QED
    BY <2>1, <2>2
<1>26. /\ ~same \/ until > now => since1 = since /\ n1 >= n
       /\ same /\ until <= now => since1 = now
  BY <1>3, <1>13 DEF since, since1
<1>27. CASE (~same \/ until > now) /\ ~Moved
  <2>1. ~OneServed
    BY <1>6, <1>11, <1>27 DEF NoneServed
  <2>2. OnTheWay(L, i, k)' \subseteq OnTheWay(L, i, k) /\ Through(i, k)' \subseteq Through(i, k)
    BY <1>22, <1>26, <1>27, <2>1
  <2> QED
    BY <1>17, <1>19, <1>26, <1>27, <2>2, CountedStays DEF n, n1
<1>28. CASE same /\ until > now /\ Moved
  <2>1. n1 = n + 1 /\ n1 <= L[i].max /\ d <= d1
    BY <1>13, <1>21, <1>26, <1>28
  <2>2. CASE i0 < Len(L)
    <3>1. ~OneServed
      BY <1>2, <1>25, <2>2
    <3>2. /\ OnTheWay(L, i, k)' \subseteq OnTheWay(L, i, k) \cup {c}
          /\ Through(i, k)' \subseteq Through(i, k)
      BY <1>22, <1>26, <1>28, <3>1
    <3>3. a1 \in Nat /\ a1 <= a + 1 /\ b1 \in Nat /\ b1 <= b
      BY <1>20, <3>2, OneMore, FS_Subset, FS_CardinalityType
    <3> HIDE DEF a, b, d, a1, b1, d1
    <3>4. Change(a, b, d, n, a1, b1, d1, n1, L[i].max)
      <4>1. a1 + b1 <= a + b + 1 /\ d1 >= d
        BY <1>20, <2>1, <3>3
      <4> QED
        BY <2>1, <4>1 DEF Change
    <3> QED
      BY <1>19, <3>4, CountedMoves DEF a, b, d, a1, b1, d1, n, n1
  <2>3. CASE OneServed
    <3>1. c \notin OnTheWay(L, i, k)' /\ i0 = Len(L)
      BY <1>24, <1>25, <1>28, <2>3
    <3>2. /\ OnTheWay(L, i, k)' \subseteq OnTheWay(L, i, k)
          /\ Through(i, k)' \subseteq Through(i, k) \cup {last}
      BY <1>2, <1>22, <1>26, <1>28, <3>1
    <3>3. a1 \in Nat /\ a1 <= a /\ b1 \in Nat /\ b1 <= b + 1
      BY <1>20, <3>2, OneMore, FS_Subset, FS_CardinalityType
    <3> HIDE DEF a, b, d, a1, b1, d1
    <3>4. Change(a, b, d, n, a1, b1, d1, n1, L[i].max)
      <4>1. a1 + b1 <= a + b + 1 /\ d1 >= d
        BY <1>20, <2>1, <3>3
      <4> QED
        BY <2>1, <4>1 DEF Change
    <3> QED
      BY <1>19, <3>4, CountedMoves DEF a, b, d, a1, b1, d1, n, n1
  <2> QED
    BY <1>6, <1>25, <1>28, <2>2, <2>3
<1>29. CASE ~same /\ Moved
  <2>1. OnTheWay(L, i, k)' \subseteq OnTheWay(L, i, k)
    BY <1>22, <1>26, <1>29
  <2>2. CASE last \notin Through(i, k)'
    <3>1. Through(i, k)' \subseteq Through(i, k)
      BY <1>22, <1>26, <1>29, <2>2
    <3> QED
      BY <1>17, <1>19, <1>26, <1>29, <2>1, <3>1, CountedStays DEF n, n1
  <2>3. CASE last \in Through(i, k)'
    <3>1. OneServed
      <4>1. last \notin 1..Len(served)
        BY <1>11 DEF last
      <4>2. last \notin Through(i, k)
        BY <1>16, <4>1
      <4> QED
        BY <1>22, <1>26, <1>29, <2>3, <4>2
    <3>2. Under(k, served'[last]) /\ served'[last].at[i] >= since
      BY <1>16, <1>26, <1>29, <2>3
    <3>3. Passed(L, i, k, r) /\ r.at[i] >= since
      BY <1>12, <1>29, <3>1, <3>2
    <3>4. c \in OnTheWay(L, i, k) /\ c \notin OnTheWay(L, i, k)'
      BY <1>15, <1>24, <1>25, <1>29, <3>1, <3>3
    <3>5. /\ OnTheWay(L, i, k)' \subseteq OnTheWay(L, i, k) \ {c}
          /\ Through(i, k)' \subseteq Through(i, k) \cup {last}
      BY <1>22, <1>26, <1>29, <2>1, <3>4
    <3>6. a1 \in Nat /\ a1 <= a - 1
      BY <1>20, <3>4, <3>5, OneLess
    <3>7. b1 \in Nat /\ b1 <= b + 1
      BY <1>20, <3>5, OneMore
    <3>8. n1 >= n /\ d <= d1
      BY <1>21, <1>26, <1>29
    <3> HIDE DEF a, b, d, a1, b1, d1
    <3>9. a1 + b1 <= a + b
      BY <1>20, <3>6, <3>7
    <3>10. Change(a, b, d, n, a1, b1, d1, n1, L[i].max)
      BY <1>20, <3>8, <3>9 DEF Change
    <3> QED
      BY <1>19, <3>10, CountedMoves DEF a, b, d, a1, b1, d1, n, n1
  <2> QED
    BY <2>2, <2>3
<1>30. CASE same /\ until <= now
  <2>1. /\ \A e \in OnTheWay(L, i, k)' : e = c /\ Moved /\ i0 < Len(L)
        /\ \A j \in Through(i, k)' : j = last /\ OneServed
    BY <1>23, <1>26, <1>30
  <2>2. n1 = 1 /\ (Moved => 1 <= L[i].max)
    BY <1>13, <1>30
  <2>3. OneServed => Moved /\ i0 = Len(L)
    BY <1>6, <1>11, <1>25 DEF NoneServed
  <2>4. IsFiniteSet({}) /\ Cardinality({}) = 0
    BY FS_EmptySet
  <2>5. CASE OneServed
    <3>1. OnTheWay(L, i, k)' = {} /\ Through(i, k)' \subseteq {} \cup {last}
      <4>1. ~(i0 < Len(L))
        BY <1>2, <2>3, <2>5
      <4> QED
        BY <2>1, <4>1
    <3>2. a1 = 0 /\ b1 \in Nat /\ b1 <= 1
      <4>1. b1 \in Nat /\ b1 <= 0 + 1
        BY <2>4, <3>1, OneMore
      <4> QED
        BY <2>4, <3>1, <4>1
    <3> HIDE DEF a, b, d, a1, b1, d1
    <3>3. a1 + b1 <= 1
      BY <3>2
    <3>4. Change(a, b, d, n, a1, b1, d1, n1, L[i].max)
      BY <2>2, <2>3, <2>5, <3>3 DEF Change
    <3> QED
      BY <1>19, <3>4, CountedMoves DEF a, b, d, a1, b1, d1, n, n1
  <2>6. CASE ~OneServed /\ Moved
    <3>1. Through(i, k)' = {} /\ OnTheWay(L, i, k)' \subseteq {} \cup {c}
      BY <2>1, <2>6
    <3>2. b1 = 0 /\ a1 \in Nat /\ a1 <= 1
      <4>1. a1 \in Nat /\ a1 <= 0 + 1
        BY <2>4, <3>1, OneMore
      <4> QED
        BY <2>4, <3>1, <4>1
    <3> HIDE DEF a, b, d, a1, b1, d1
    <3>3. a1 + b1 <= 1
      BY <3>2
    <3>4. Change(a, b, d, n, a1, b1, d1, n1, L[i].max)
      BY <2>2, <2>6, <3>3 DEF Change
    <3> QED
      BY <1>19, <3>4, CountedMoves DEF a, b, d, a1, b1, d1, n, n1
  <2>7. CASE ~OneServed /\ ~Moved
    <3>1. Through(i, k)' = {} /\ OnTheWay(L, i, k)' = {}
      BY <2>1, <2>7
    <3>2. b1 = 0 /\ a1 = 0
      BY <2>4, <3>1
    <3> HIDE DEF a, b, d, a1, b1, d1
    <3>3. a1 + b1 = 0
      BY <3>2
    <3>4. Change(a, b, d, n, a1, b1, d1, n1, L[i].max)
      BY <3>3 DEF Change
    <3> QED
      BY <1>19, <3>4, CountedMoves DEF a, b, d, a1, b1, d1, n, n1
  <2> QED
    BY <2>5, <2>6, <2>7
<1> QED
  <2>1. until <= now \/ until > now
    BY <1>3
  <2> QED
    BY <1>27, <1>28, <1>29, <1>30, <2>1

\* A step that counts nothing: time passes, or a request arrives or is answered for good.
LEMMA RestKeepsWindow ==
    ASSUME NEW L, Chain(L), LimitTypes(L), LimitTypes(L)',
           NEW i \in 1..Len(L), NEW k \in Keys, BeforeEnd(L, i, k), Counted(L, i, k),
           UNCHANGED <<hits, served>>, now <= now',
           \A c \in Clients : Passed(L, i, k, asking'[c]) => asking'[c] = asking[c]
    PROVE  BeforeEnd(L, i, k)' /\ Counted(L, i, k)'
<1>1. i \in 1..2
  BY PlaceInChain
<1>2. /\ hits[i][k].until \in Nat /\ hits[i][k].n \in Nat /\ Span \in Nat
      /\ now \in Nat /\ now' \in Nat
  BY <1>1, MaxOfLimits DEF LimitTypes, Counter
<1>3. BeforeEnd(L, i, k)'
  <2>1. hits[i][k].until <= now' + Span
    <3>1. hits[i][k].until <= now + Span
      BY DEF BeforeEnd
    <3> QED
      BY <1>2, <3>1
  <2> QED
    BY <2>1 DEF BeforeEnd, Passed, Under
<1>4. /\ OnTheWay(L, i, k)' \subseteq OnTheWay(L, i, k)
      /\ Through(i, k)' \subseteq Through(i, k) /\ Late(i, k) \subseteq Late(i, k)'
  BY DEF OnTheWay, Through, Late, Since, Passed, Under
<1>5. hits'[i][k].n >= hits[i][k].n
  BY <1>2
<1> QED
  BY <1>3, <1>4, <1>5, CountedStays

LEMMA AnswerKeepsWindow ==
    ASSUME NEW L, Chain(L), L = LimitersOf, LimitTypes(L), LimitTypes(L)', Places(L),
           NEW c \in Clients, Answer(c),
           NEW i \in 1..Len(L), NEW k \in Keys, KeyOf(L[i], k),
           BeforeEnd(L, i, k), Counted(L, i, k)
    PROVE  BeforeEnd(L, i, k)' /\ Counted(L, i, k)'
<1>1. /\ UnderWay(L, asking[c]) /\ AtService(L, c) /\ now' = now
      /\ asking' = [asking EXCEPT ![c] = NotAsking]
  BY AnswerEffect
<1>2. /\ i \in 1..2 /\ L[i] \in LimiterRecord /\ i \in Nat
  BY ChainLength, ElementOfSeq DEF Chain
<1>3. \A e \in Clients : Passed(L, i, k, asking'[e]) => asking'[e] = asking[e]
  <2>1. ~Passed(L, i, k, NotAsking)
    BY <1>2 DEF Passed, NotAsking
  <2> QED
    BY <1>1, <2>1 DEF LimitTypes
<1>4. CASE UNCHANGED <<hits, served>>
  <2>1. now <= now'
    BY <1>1 DEF LimitTypes
  <2> QED
    BY <1>3, <1>4, <2>1, RestKeepsWindow
<1>5. ASSUME NEW k0 \in Keys, NEW counter \in Counter, NEW record \in ServedRecord(L),
             NEW place, place = asking[c].place,
             Len(L) = 1, k0 = Key(L[1], asking[c]), KeyOf(L[1], k0),
             hits' = [hits EXCEPT ![1][k0] = counter], counter.until = hits[1][k0].until,
             counter.n = hits[1][k0].n - 1 \/ (counter.n = 0 /\ hits[1][k0].n = 0),
             place \in 1..Len(served), served' = [served EXCEPT ![place] = record],
             record.at = served[place].at, record.done = now + 1,
             record.address = served[place].address, record.person = served[place].person
      PROVE  BeforeEnd(L, i, k)' /\ Counted(L, i, k)'
  <2> DEFINE until == hits[i][k].until
             n == hits[i][k].n
             n1 == hits'[i][k].n
             since == until - Span
  <2>1. i = 1
    BY <1>5
  <2>2. /\ until \in Nat /\ n \in Nat /\ n1 \in Nat /\ now \in Nat
        /\ Span \in Nat /\ Span > 0
    <3>1. hits[i][k] \in Counter /\ hits'[i][k] \in Counter /\ now \in Nat
      BY <1>2 DEF LimitTypes
    <3>2. Span \in Nat /\ Span > 0
      BY MaxOfLimits
    <3> QED
      BY <3>1, <3>2 DEF Counter
  <2>3. /\ k = k0 => hits'[i][k] = counter
        /\ k # k0 => hits'[i][k] = hits[i][k]
    BY <1>5, <2>1 DEF LimitTypes
  <2>4. hits'[i][k].until = until /\ n1 >= n - 1 /\ (k # k0 => n1 = n)
    <3>1. CASE k = k0
      <4>1. n1 = counter.n /\ hits'[i][k].until = until
        BY <1>5, <2>1, <2>3, <3>1
      <4>2. n1 = n - 1 \/ (n1 = 0 /\ n = 0)
        BY <1>5, <2>1, <3>1, <4>1
      <4> HIDE DEF n, n1, until
      <4> QED
        BY <2>2, <3>1, <4>1, <4>2
    <3>2. CASE k # k0
      <4>1. n1 = n /\ hits'[i][k].until = until
        BY <2>3, <3>2
      <4> HIDE DEF n, n1, until
      <4> QED
        BY <2>2, <4>1
    <3> QED
      BY <3>1, <3>2
  <2>5. /\ Len(served') = Len(served) /\ served'[place] = record
        /\ \A j \in 1..Len(served) : j # place => served'[j] = served[j]
    BY <1>5 DEF LimitTypes
  <2>6. /\ served[place].address = asking[c].address
        /\ served[place].person = asking[c].person.name /\ served[place].done = 0
    BY <1>1, <1>5 DEF Places
  <2>7. Under(k, served[place]) <=> k = k0
    BY <1>1, <1>2, <1>5, <2>1, <2>6, UnderIsCounted DEF UnderWay
  <2>8. \A j \in 1..Len(served) : /\ Under(k, served'[j]) <=> Under(k, served[j])
                                  /\ served'[j].at = served[j].at
    BY <1>5, <2>5 DEF Under
  <2>9. served[place].at[i] \in Nat
    <3>1. served[place] \in ServedRecord(L)
      BY <1>5, ElementOfSeq DEF LimitTypes
    <3>2. served[place].at \in Seq(Nat) /\ i \in 1..Len(served[place].at)
      BY <3>1 DEF ServedRecord
    <3> QED
      BY <3>2, ElementOfSeq
  <2>10. until <= now + Span
    BY DEF BeforeEnd
  <2>11. BeforeEnd(L, i, k)'
    <3>1. \A j \in 1..Len(served') : Under(k, served'[j]) => served'[j].at[i] < until
      BY <2>5, <2>8 DEF BeforeEnd
    <3>2. \A e \in Clients : Passed(L, i, k, asking'[e]) => asking'[e].at[i] < until
      BY <1>3 DEF BeforeEnd
    <3> QED
      BY <1>1, <2>4, <2>10, <3>1, <3>2 DEF BeforeEnd, Passed, Under
  <2>12. since = Since(i, k) /\ since = Since(i, k)'
    BY <2>4 DEF Since
  <2>13. OnTheWay(L, i, k)' \subseteq OnTheWay(L, i, k)
    <3> HIDE DEF since
    <3> QED
      BY <1>3, <2>12 DEF OnTheWay, Passed
  <2> DEFINE a == Cardinality(OnTheWay(L, i, k))
             b == Cardinality(Through(i, k))
             d == Cardinality(Late(i, k))
             a1 == Cardinality(OnTheWay(L, i, k)')
             b1 == Cardinality(Through(i, k)')
             d1 == Cardinality(Late(i, k)')
  <2>14. /\ IsFiniteSet(OnTheWay(L, i, k)) /\ IsFiniteSet(Through(i, k))
         /\ IsFiniteSet(Late(i, k)) /\ IsFiniteSet(Late(i, k)')
         /\ a \in Nat /\ b \in Nat /\ d \in Nat /\ d1 \in Nat
    <3>1. Late(i, k)' \subseteq 1..Len(served') /\ Len(served') \in Nat
      BY DEF Late, LimitTypes
    <3>2. IsFiniteSet(1..Len(served'))
      BY <3>1, FS_Interval
    <3>3. IsFiniteSet(Late(i, k)')
      BY <3>1, <3>2, FS_Subset
    <3> QED
      BY <3>3, LimitSizes, FS_CardinalityType
  <2>15. Late(i, k) \subseteq Late(i, k)' /\ Through(i, k)' \subseteq Through(i, k)
    <3>1. ASSUME NEW j \in Late(i, k) PROVE j \in Late(i, k)'
      <4>1. /\ j \in 1..Len(served) /\ Under(k, served[j]) /\ served[j].at[i] < since
            /\ served[j].done > since
        BY <2>12, <3>1 DEF Late
      <4>2. served'[j].done > since
        <5>1. now + 1 > since
          <6> HIDE DEF until
          <6> QED
            BY <2>2, <2>10
        <5> HIDE DEF since
        <5> QED
          BY <1>5, <2>5, <4>1, <5>1
      <4> HIDE DEF since
      <4> QED
        BY <2>5, <2>8, <2>12, <4>1, <4>2 DEF Late, Under
    <3>2. ASSUME NEW j \in Through(i, k)' PROVE j \in Through(i, k)
      <4>1. /\ j \in 1..Len(served) /\ Under(k, served'[j]) /\ served'[j].at[i] >= since
            /\ served'[j].done = 0
        BY <2>5, <2>12, <3>2 DEF Through, Under
      <4>2. j # place
        BY <1>5, <2>2, <2>5, <4>1
      <4> HIDE DEF since
      <4> QED
        BY <2>5, <2>12, <4>1, <4>2 DEF Through
    <3> QED
      BY <3>1, <3>2
  <2>16. CASE k # k0
    BY <2>2, <2>4, <2>11, <2>13, <2>15, <2>16, CountedStays
  <2>17. CASE k = k0 /\ served[place].at[i] >= since
    <3>1. place \in Through(i, k)
      BY <1>5, <2>6, <2>7, <2>12, <2>17 DEF Through
    <3>2. place \notin Through(i, k)'
      BY <1>5, <2>2, <2>5 DEF Through
    <3>3. b1 \in Nat /\ b1 <= b - 1
      BY <2>14, <2>15, <3>1, <3>2, OneLess
    <3>4. a1 \in Nat /\ a1 <= a /\ d <= d1
      BY <2>13, <2>14, <2>15, FS_Subset, FS_CardinalityType
    <3> HIDE DEF a, b, d, a1, b1, d1, n, n1
    <3>5. a1 + b1 <= a + b - 1 /\ d1 >= d
      BY <2>14, <3>3, <3>4
    <3>6. Change(a, b, d, n, a1, b1, d1, n1, L[i].max)
      BY <2>4, <3>5 DEF Change
    <3> QED
      BY <2>11, <3>6, CountedMoves DEF a, b, d, a1, b1, d1, n, n1
  <2>18. CASE k = k0 /\ ~(served[place].at[i] >= since)
    <3>1. served[place].at[i] < since /\ since > 0 /\ now + 1 > since
      <4> HIDE DEF until
      <4> QED
        BY <2>2, <2>9, <2>10, <2>18
    <3>2. place \notin Late(i, k)
      <4>1. ~(served[place].done > since)
        <5> HIDE DEF until
        <5> QED
          BY <2>2, <2>6, <3>1
      <4> HIDE DEF since
      <4> QED
        BY <2>12, <4>1 DEF Late
    <3>3. place \in Late(i, k)'
      <4> HIDE DEF since
      <4> QED
        BY <1>5, <2>5, <2>7, <2>8, <2>12, <2>18, <3>1 DEF Late, Under
    <3>4. Late(i, k) \subseteq Late(i, k)' \ {place}
      BY <2>15, <3>2
    <3>5. d <= d1 - 1
      BY <2>14, <3>3, <3>4, OneLess
    <3>6. a1 \in Nat /\ a1 <= a /\ b1 \in Nat /\ b1 <= b
      BY <2>13, <2>14, <2>15, FS_Subset, FS_CardinalityType
    <3> HIDE DEF a, b, d, a1, b1, d1, n, n1
    <3>7. a1 + b1 <= a + b /\ d1 >= d + 1
      BY <2>14, <3>5, <3>6
    <3>8. Change(a, b, d, n, a1, b1, d1, n1, L[i].max)
      BY <2>4, <3>7 DEF Change
    <3> QED
      BY <2>11, <3>8, CountedMoves DEF a, b, d, a1, b1, d1, n, n1
  <2> QED
    BY <2>16, <2>17, <2>18
<1> QED
  BY <1>4, <1>5, AnswerEffect

\* The counters agree with the requests, on their way and let through.
LimitsInv ==
    /\ path \in Paths
    /\ LimitTypes(LimitersOf) /\ Places(LimitersOf)
    /\ PlainKeys /\ WindowHolds(LimitersOf)

LEMMA LimitsStart == LimitInit => LimitsInv
<1> SUFFICES ASSUME LimitInit PROVE LimitsInv
  OBVIOUS
<1>1. /\ path \in Paths /\ hits = [i \in 1..2 |-> [k \in Keys |-> [n |-> 0, until |-> 0]]]
      /\ asking = [c \in Clients |-> NotAsking] /\ served = <<>> /\ now = 0
  BY DEF LimitInit
<1>2. PICK L : L = LimitersOf /\ Chain(L)
  BY <1>1, LimitersAreChains
<1>3. /\ Len(L) = 1 \/ Len(L) = 2
      /\ Span \in Nat /\ Span > 0
  BY <1>2, ChainLength, MaxOfLimits
<1>4. Asking = {} /\ IsFiniteSet({}) /\ Cardinality({}) = 0
  BY <1>1, FS_EmptySet DEF Asking
<1>5. LimitTypes(L)
  <2>1. hits \in [1..2 -> [Keys -> Counter]]
    BY <1>1 DEF Counter
  <2> QED
    BY <1>1, <1>4, <2>1, EmptySeq DEF LimitTypes
<1>6. \A c \in Clients : asking[c].step = 0
  BY <1>1 DEF NotAsking
<1>7. Places(L)
  BY <1>3, <1>6 DEF Places, AtService
<1>8. PlainKeys
  BY <1>1 DEF PlainKeys
<1>9. ASSUME NEW i \in 1..Len(L), NEW k \in Keys
      PROVE  BeforeEnd(L, i, k) /\ Counted(L, i, k)
  <2>1. i \in Nat /\ i \in 1..2 /\ i > 0
    BY <1>2, PlaceInChain
  <2>2. hits[i][k].until = 0 /\ hits[i][k].n = 0
    BY <1>1, <2>1
  <2>3. \A c \in Clients : ~Passed(L, i, k, asking[c])
    BY <1>6, <2>1 DEF Passed
  <2>4. 1..Len(served) = {}
    BY <1>1
  <2>5. BeforeEnd(L, i, k)
    BY <1>1, <1>3, <2>2, <2>3, <2>4 DEF BeforeEnd
  <2>6. OnTheWay(L, i, k) = {} /\ Through(i, k) = {} /\ Late(i, k) = {}
    BY <2>3, <2>4 DEF OnTheWay, Through, Late
  <2>7. L[i].max \in Nat
    <3>1. L[i] \in LimiterRecord
      BY <1>2, ElementOfSeq DEF Chain
    <3> QED
      BY <3>1 DEF LimiterRecord
  <2>8. Counted(L, i, k)
    BY <1>4, <2>2, <2>6, <2>7 DEF Counted
  <2> QED
    BY <2>5, <2>8
<1> QED
  BY <1>1, <1>2, <1>5, <1>7, <1>8, <1>9 DEF LimitsInv, WindowHolds

LEMMA LimitStep == LimitsInv /\ [LimitNext]_limitVars => LimitsInv'
<1> SUFFICES ASSUME LimitsInv, [LimitNext]_limitVars PROVE LimitsInv'
  OBVIOUS
<1>1. path' = path
  BY DEF LimitNext, NowPasses, Ask, PassLimiter, Answer, limitVars
<1>2. PICK L : L = LimitersOf
  OBVIOUS
<1>3. L = LimitersOf'
  BY <1>1, <1>2 DEF LimitersOf, Either
<1>4. Chain(L) /\ LimitTypes(L) /\ Places(L) /\ PlainKeys /\ WindowHolds(L)
  BY <1>2, LimitersAreChains DEF LimitsInv
<1>5. LimitTypes(L)' /\ Places(L)' /\ PlainKeys'
  BY <1>2, <1>4, StepLimitTypes, StepPlaces, StepPlainKeys
<1>6. ASSUME NEW i \in 1..Len(L), NEW k \in Keys, KeyOf(L[i], k)
      PROVE  BeforeEnd(L, i, k)' /\ Counted(L, i, k)'
  <2>1. BeforeEnd(L, i, k) /\ Counted(L, i, k)
    BY <1>4, <1>6 DEF WindowHolds
  <2>2. now \in Nat /\ DOMAIN asking = Clients /\ i \in Nat /\ i > 0
    BY <1>4 DEF LimitTypes
  <2>3. CASE UNCHANGED limitVars
    <3>1. UNCHANGED <<hits, served, asking>> /\ now <= now'
      BY <2>2, <2>3 DEF limitVars
    <3> QED
      BY <1>4, <1>5, <2>1, <3>1, RestKeepsWindow
  <2>4. CASE NowPasses
    <3>1. UNCHANGED <<hits, served, asking>> /\ now <= now'
      BY <2>2, <2>4 DEF NowPasses
    <3> QED
      BY <1>4, <1>5, <2>1, <3>1, RestKeepsWindow
  <2>5. ASSUME NEW c \in Clients, Ask(c) PROVE BeforeEnd(L, i, k)' /\ Counted(L, i, k)'
    <3>1. UNCHANGED <<hits, served>> /\ now <= now'
      BY <2>2, <2>5 DEF Ask
    <3>2. PICK r \in Requested :
            asking' = [asking EXCEPT ![c] = [step |-> 1, address |-> r.address,
                                             person |-> r.person, at |-> <<>>, place |-> 0]]
      BY <2>5 DEF Ask
    <3>3. asking'[c].step = 1 /\ \A e \in Clients : e # c => asking'[e] = asking[e]
      BY <2>2, <3>2
    <3>4. \A e \in Clients : Passed(L, i, k, asking'[e]) => asking'[e] = asking[e]
      BY <2>2, <3>3 DEF Passed
    <3> QED
      BY <1>4, <1>5, <2>1, <3>1, <3>4, RestKeepsWindow
  <2>6. ASSUME NEW c \in Clients, PassLimiter(c)
        PROVE  BeforeEnd(L, i, k)' /\ Counted(L, i, k)'
    BY <1>2, <1>4, <1>5, <1>6, <2>1, <2>6, PassKeepsWindow
  <2>7. ASSUME NEW c \in Clients, Answer(c) PROVE BeforeEnd(L, i, k)' /\ Counted(L, i, k)'
    BY <1>2, <1>4, <1>5, <1>6, <2>1, <2>7, AnswerKeepsWindow
  <2> QED
    BY <2>3, <2>4, <2>5, <2>6, <2>7 DEF LimitNext
<1>7. WindowHolds(L)'
  BY <1>6 DEF WindowHolds
<1>8. path' \in Paths
  BY <1>1 DEF LimitsInv
<1> QED
  BY <1>3, <1>5, <1>7, <1>8 DEF LimitsInv

LEMMA LimitsFollow == LimitsInv => LimitsHold
<1> SUFFICES ASSUME LimitsInv PROVE LimitsHold
  OBVIOUS
<1>1. PICK L : L = LimitersOf
  OBVIOUS
<1>2. Chain(L) /\ LimitTypes(L) /\ Places(L) /\ PlainKeys /\ WindowHolds(L)
  BY <1>1, LimitersAreChains DEF LimitsInv
<1> DEFINE Mine(k) == {j \in DOMAIN served :
                         /\ k.address \subseteq {served[j].address}
                         /\ {t.name : t \in k.person} \subseteq {served[j].person}}
           Opened(i, k) == {j \in Mine(k) :
                              /\ hits[i][k].until - Span <= served[j].at[i]
                              /\ served[j].at[i] < hits[i][k].until - Span + Span}
           LateOnes(i, k) == {j \in Mine(k) : /\ served[j].done > hits[i][k].until - Span
                                             /\ served[j].at[i] < hits[i][k].until - Span}
           Undone(i, k) == {j \in Opened(i, k) : served[j].done = 0}
<1>3. ASSUME NEW i \in 1..Len(L), NEW k \in Keys,
             \A f \in {"address", "person"} : k[f] = {} <=> f \notin L[i].by
      PROVE  Cardinality(Undone(i, k)) <= L[i].max + Cardinality(LateOnes(i, k))
  <2>1. i \in 1..2 /\ L[i] \in LimiterRecord
    BY <1>2, ChainLength, ElementOfSeq DEF Chain
  <2>2. /\ hits[i][k].until \in Nat /\ Span \in Nat /\ L[i].max \in Nat
        /\ Len(served) \in Nat /\ DOMAIN served = 1..Len(served)
    <3>1. hits[i][k] \in Counter /\ Len(served) \in Nat /\ DOMAIN served = 1..Len(served)
      BY <1>2, <2>1 DEF LimitTypes
    <3>2. Span \in Nat /\ L[i].max \in Nat
      BY <2>1, MaxOfLimits DEF LimiterRecord
    <3> QED
      BY <3>1, <3>2 DEF Counter
  <2>3. \A j \in 1..Len(served) : served[j].at[i] \in Nat
    <3> TAKE j \in 1..Len(served)
    <3>1. served[j] \in ServedRecord(L)
      BY <1>2, ElementOfSeq DEF LimitTypes
    <3>2. served[j].at \in Seq(Nat) /\ i \in 1..Len(served[j].at)
      BY <3>1 DEF ServedRecord
    <3> QED
      BY <3>2, ElementOfSeq
  <2>4. LateOnes(i, k) = Late(i, k) /\ IsFiniteSet(Late(i, k)) /\ Cardinality(Late(i, k)) \in Nat
    <3>1. LateOnes(i, k) = Late(i, k)
      BY <2>2 DEF Late, Since, Under
    <3> QED
      BY <1>2, <3>1, LimitSizes
  <2>5. CASE \A t \in k.person : t.spelling = "plain"
    <3>1. KeyOf(L[i], k)
      BY <1>3, <2>5 DEF KeyOf
    <3>2. Counted(L, i, k)
      BY <1>2, <3>1 DEF WindowHolds
    <3>3. Undone(i, k) \subseteq Through(i, k)
      BY <2>2, <2>3 DEF Through, Since, Under
    <3>4. /\ IsFiniteSet(Through(i, k)) /\ Cardinality(Through(i, k)) \in Nat
          /\ Cardinality(OnTheWay(L, i, k)) \in Nat
      BY <1>2, LimitSizes
    <3>5. /\ Cardinality(Undone(i, k)) <= Cardinality(Through(i, k))
          /\ Cardinality(Undone(i, k)) \in Nat
      <4> HIDE DEF Undone
      <4>1. IsFiniteSet(Undone(i, k)) /\ Cardinality(Undone(i, k)) <= Cardinality(Through(i, k))
        BY <3>3, <3>4, FS_Subset
      <4> QED
        BY <4>1, FS_CardinalityType
    <3>6. Cardinality(OnTheWay(L, i, k)) + Cardinality(Through(i, k))
            <= L[i].max + Cardinality(Late(i, k))
      BY <3>2 DEF Counted
    <3> HIDE DEF Undone, LateOnes
    <3> QED
      BY <2>2, <2>4, <3>4, <3>5, <3>6
  <2>6. CASE ~ \A t \in k.person : t.spelling = "plain"
    <3>1. hits[i][k].until = 0
      BY <1>2, <2>1, <2>6 DEF PlainKeys
    <3>2. Undone(i, k) = {}
      BY <2>2, <2>3, <3>1
    <3>3. Cardinality(Undone(i, k)) = 0
      BY <3>2, FS_EmptySet
    <3> HIDE DEF Undone, LateOnes
    <3> QED
      BY <2>2, <2>4, <3>3
  <2> QED
    BY <2>5, <2>6
<1> QED
  BY <1>1, <1>3 DEF LimitsHold

-----------------------------------------------------------------------------
(* The scenes of the administration and of the browser.                    *)

\* Each component steps by itself or is left alone.
LEMMA OtherScenes ==
    ASSUME [Next]_vars
    PROVE  /\ AdminNext \/ UNCHANGED adminVars
           /\ ClientNext \/ UNCHANGED clientVars
           /\ SignupPageNext \/ UNCHANGED signupPageVars
           /\ ResetPageNext \/ UNCHANGED resetPageVars
           /\ ManageNext \/ UNCHANGED manageVars
<1>1. CASE Administration
  BY <1>1 DEF Administration, pageVars
<1>2. CASE Client
  BY <1>2 DEF Client
<1>3. CASE PageOfSignup
  BY <1>3 DEF PageOfSignup
<1>4. CASE PageOfReset
  BY <1>4 DEF PageOfReset
<1>5. CASE Modal
  BY <1>5 DEF Modal
<1>6. CASE Signup \/ Reset \/ Session \/ Limits
  BY <1>6 DEF Signup, Reset, Session, Limits, pageVars
<1>7. CASE UNCHANGED vars
  BY <1>7 DEF vars, pageVars
<1> QED
  BY <1>1, <1>2, <1>3, <1>4, <1>5, <1>6, <1>7 DEF Next

LEMMA StepAdmin == AdminInv /\ [Next]_vars => AdminInv'
<1> SUFFICES ASSUME AdminInv, [Next]_vars PROVE AdminInv'
  OBVIOUS
<1>1. CASE AdminNext
  BY <1>1, AdminStep
<1>2. CASE UNCHANGED adminVars
  <2>1. UNCHANGED <<staff, jobs, audit, overtaken>>
    BY <1>2 DEF adminVars
  <2> QED
    BY <2>1 DEF AdminInv, AdminTypes, JobsAreAdmitted, LoggedExist, AccountsAreNumbered,
       AnAdministratorRemains, AuditExplainsAccounts, IsNextEntry, Snapshot, Exists, AdmitsUpdate,
       AdmitsDeactivation
<1> QED
  BY <1>1, <1>2, OtherScenes

-----------------------------------------------------------------------------
(* The list of accounts.                                                   *)

Existing == {u \in Staff : Exists(u)}

\* The creation of an account is told by the number of accounts there were.
CreatedInTurn ==
    /\ \A u \in Existing : staff[u].created <= Cardinality(Existing)
    /\ \A u, v \in Existing : staff[u].created = staff[v].created => u = v

LEMMA ExistingIsFinite ==
    ASSUME NEW S \in SUBSET Staff
    PROVE  IsFiniteSet(S) /\ Cardinality(S) \in Nat
BY AdminAssumption, FS_Subset, FS_CardinalityType

LEMMA CreationInTurn ==
    ASSUME AdminInv, CreatedInTurn, NEW a \in Agents, CommitCreation(a)
    PROVE  CreatedInTurn'
<1> DEFINE id == jobs[a].id
           row == [With(NoRow, jobs[a].data) EXCEPT !.created = Cardinality(Existing) + 1]
<1>1. jobs[a] \in Jobs /\ jobs[a].data \in Data
  BY DEF CommitCreation, AdminInv, AdminTypes, IdleJob, JobsAreAdmitted
<1>2. With(NoRow, jobs[a].data) \in AccountRows
  <2>1. NoRow \in AccountRows
    BY DEF NoRow, AccountRows
  <2> QED
    BY <1>1, <2>1, WithIsRow
<1>3. Cardinality(Existing) \in Nat /\ IsFiniteSet(Existing)
  BY ExistingIsFinite DEF Existing
<1>4. row.created = Cardinality(Existing) + 1
  BY <1>2, <1>3 DEF AccountRows
<1>5. staff' = [staff EXCEPT ![id] = row] /\ ~Exists(id) /\ id \in Staff
  BY <1>1 DEF CommitCreation, Writes, Existing, Jobs
<1> HIDE DEF row
<1>6. staff'[id] = row /\ \A u \in Staff : u # id => staff'[u] = staff[u]
  BY <1>5 DEF AdminInv, AdminTypes
<1>7. row # NoRow
  BY <1>3, <1>4 DEF NoRow
<1>8. Existing' = Existing \cup {id} /\ id \notin Existing
  BY <1>5, <1>6, <1>7 DEF Existing, Exists
<1>9. Cardinality(Existing') = Cardinality(Existing) + 1
  BY <1>3, <1>8, FS_AddElement
<1>10. \A u \in Existing : /\ staff'[u] = staff[u] /\ staff[u].created \in Nat
                           /\ staff[u].created <= Cardinality(Existing)
  BY <1>6, <1>8 DEF Existing, CreatedInTurn, AdminInv, AdminTypes, AccountRows
<1>11. \A u \in Existing : staff'[u].created # staff'[id].created
  BY <1>3, <1>4, <1>6, <1>10
<1>12. \A u \in Existing' : staff'[u].created <= Cardinality(Existing')
  BY <1>3, <1>4, <1>6, <1>8, <1>9, <1>10
<1>13. \A u, v \in Existing' : staff'[u].created = staff'[v].created => u = v
  BY <1>8, <1>10, <1>11 DEF CreatedInTurn
<1> QED
  BY <1>12, <1>13 DEF CreatedInTurn

LEMMA UpdateInTurn ==
    ASSUME AdminInv, CreatedInTurn, NEW a \in Agents, CommitUpdate(a)
    PROVE  CreatedInTurn'
<1> DEFINE id == jobs[a].id
           row == With(staff[id], jobs[a].data)
<1>1. jobs[a] \in Jobs /\ jobs[a].data \in Data /\ Exists(id)
  BY DEF CommitUpdate, AdminInv, AdminTypes, IdleJob, JobsAreAdmitted
<1>2. id \in Staff /\ staff[id] \in AccountRows
  BY <1>1 DEF Jobs, AdminInv, AdminTypes
<1>3. row.created = staff[id].created
  BY <1>2 DEF With, AccountRows
<1>4. staff' = [staff EXCEPT ![id] = row]
  BY DEF CommitUpdate, Writes
<1> HIDE DEF row
<1>5. \A u \in Staff : staff'[u].created = staff[u].created /\ (u # id => staff'[u] = staff[u])
  BY <1>2, <1>3, <1>4 DEF AdminInv, AdminTypes
<1>6. staff[id].created # 0
  BY <1>1, <1>2 DEF AdminInv, AccountsAreNumbered
<1>7. staff'[id] # NoRow /\ staff[id] # NoRow
  BY <1>1, <1>2, <1>5, <1>6 DEF Exists, NoRow
<1>8. Existing' = Existing
  BY <1>2, <1>5, <1>7 DEF Existing, Exists
<1> QED
  BY <1>5, <1>8 DEF CreatedInTurn, Existing

LEMMA StepInTurn == ASSUME AdminInv, CreatedInTurn, [Next]_vars PROVE CreatedInTurn'
<1>1. ASSUME UNCHANGED staff PROVE CreatedInTurn'
  BY <1>1 DEF CreatedInTurn, Existing, Exists
<1>2. CASE AdminNext
  <2>1. ASSUME NEW u \in Staff, EntersStaff(u) PROVE CreatedInTurn'
    BY <1>1, <2>1 DEF EntersStaff
  <2>2. ASSUME NEW a \in Agents,
               BeginJob(a) \/ ReadForUpdate(a) \/ ReadForDeactivation(a) \/ PrepareCreation(a)
                  \/ JobFails(a)
        PROVE  CreatedInTurn'
    BY <1>1, <2>2 DEF BeginJob, ReadForUpdate, ReadForDeactivation, PrepareCreation, JobFails,
       Reads
  <2> QED
    BY <1>2, <2>1, <2>2, CreationInTurn, UpdateInTurn DEF AdminNext
<1>3. CASE UNCHANGED adminVars
  BY <1>1, <1>3 DEF adminVars
<1> QED
  BY <1>2, <1>3, OtherScenes

LEMMA StartsInTurn == AdminInit => CreatedInTurn
<1> SUFFICES ASSUME AdminInit PROVE CreatedInTurn
  OBVIOUS
<1> DEFINE first == [role |-> "SUPER_ADMIN", active |-> TRUE, created |-> 1]
<1>1. staff = [u \in Staff |-> IF u = Founder THEN first ELSE NoRow] /\ Founder \in Staff
  BY AdminAssumption DEF AdminInit
<1>2. first # NoRow /\ first.created = 1
  BY DEF NoRow
<1> HIDE DEF first
<1>3. Existing = {Founder} /\ staff[Founder].created = 1
  BY <1>1, <1>2 DEF Existing, Exists
<1>4. Cardinality(Existing) = 1
  BY <1>3, FS_Singleton
<1> QED
  BY <1>3, <1>4 DEF CreatedInTurn


\* The accounts that are listed before u.
Newer(states, u) == {v \in Listed(states) : staff[v].created > staff[u].created}

LEMMA ListedAreDistinct ==
    ASSUME AdminInv, CreatedInTurn, NEW states
    PROVE  /\ \A u \in Listed(states) : staff[u].created \in Nat
           /\ \A u, v \in Listed(states) : staff[u].created = staff[v].created => u = v
           /\ IsFiniteSet(Listed(states)) /\ Cardinality(Listed(states)) \in Nat
<1>1. Listed(states) \subseteq Existing /\ Listed(states) \subseteq Staff
  BY DEF Listed, Existing
<1>2. \A u \in Staff : staff[u].created \in Nat
  BY DEF AdminInv, AdminTypes, AccountRows
<1> QED
  BY <1>1, <1>2, ExistingIsFinite DEF CreatedInTurn

\* A list has a place for each account.
LEMMA ListIsComplete ==
    ASSUME AdminInv, CreatedInTurn, NEW states, NEW n, n = Cardinality(Listed(states)),
           NEW s \in NewestFirst(states)
    PROVE  /\ n \in Nat /\ s \in [1..n -> Listed(states)] /\ s \in Seq(Listed(states))
           /\ Len(s) = n
           /\ \A i, j \in 1..n : i # j => s[i] # s[j]
           /\ \A i, j \in 1..n : i < j => staff[s[i]].created > staff[s[j]].created
           /\ \A u \in Listed(states) : \E i \in 1..n : s[i] = u
<1>1. n \in Nat /\ IsFiniteSet(Listed(states))
  BY ListedAreDistinct
<1>2. /\ s \in [1..n -> Listed(states)] /\ \A i, j \in 1..n : i # j => s[i] # s[j]
      /\ \A i, j \in DOMAIN s : i < j => staff[s[i]].created >= staff[s[j]].created
  BY DEF NewestFirst, SetToSeqs
<1>3. s \in Seq(Listed(states)) /\ Len(s) = n
  BY <1>1, <1>2
<1>4. ASSUME NEW i \in 1..n, NEW j \in 1..n, i < j
      PROVE  staff[s[i]].created > staff[s[j]].created
  <2>1. i \in DOMAIN s /\ j \in DOMAIN s /\ s[i] \in Listed(states) /\ s[j] \in Listed(states)
    BY <1>2
  <2>2. s[i] # s[j] /\ staff[s[i]].created >= staff[s[j]].created
    BY <1>1, <1>2, <1>4, <2>1
  <2> QED
    BY <2>1, <2>2, ListedAreDistinct
<1>5. s \in Injection(1..n, Listed(states))
  BY <1>2 DEF Injection, IsInjective
<1>6. IsFiniteSet(1..n) /\ Cardinality(1..n) = n
  BY <1>1, FS_Interval
<1>7. s \in Surjection(1..n, Listed(states))
  BY <1>1, <1>5, <1>6, FS_Injection
<1>8. \A u \in Listed(states) : \E i \in 1..n : s[i] = u
  BY <1>7 DEF Surjection
<1> QED
  BY <1>1, <1>2, <1>3, <1>4, <1>8

\* The place of an account is told by the accounts that are newer.
LEMMA PlaceInList ==
    ASSUME AdminInv, CreatedInTurn, NEW states, NEW n, n = Cardinality(Listed(states)),
           NEW s \in NewestFirst(states), NEW i \in 1..n
    PROVE  Cardinality(Newer(states, s[i])) = i - 1
<1> DEFINE before == 1..(i - 1)
           f == [j \in before |-> s[j]]
<1>1. /\ n \in Nat /\ s \in [1..n -> Listed(states)]
      /\ \A j, k \in 1..n : j # k => s[j] # s[k]
      /\ \A j, k \in 1..n : j < k => staff[s[j]].created > staff[s[k]].created
      /\ \A u \in Listed(states) : \E j \in 1..n : s[j] = u
  BY ListIsComplete
<1>2. \A u \in Listed(states) : staff[u].created \in Nat
  BY ListedAreDistinct
<1>3. i \in Int /\ i >= 1 /\ i <= n
  BY <1>1
<1>4. \A j \in before : j \in 1..n /\ j < i
  BY <1>1, <1>3
<1>5. \A j \in before : s[j] \in Newer(states, s[i])
  BY <1>1, <1>4 DEF Newer
<1>6. \A v \in Newer(states, s[i]) : \E j \in before : s[j] = v
  <2> SUFFICES ASSUME NEW v \in Newer(states, s[i])
               PROVE  \E j \in before : s[j] = v
    OBVIOUS
  <2>1. v \in Listed(states) /\ staff[v].created > staff[s[i]].created /\ s[i] \in Listed(states)
    BY <1>1 DEF Newer
  <2>2. PICK j \in 1..n : s[j] = v
    BY <1>1, <2>1
  <2>3. staff[v].created \in Nat /\ staff[s[i]].created \in Nat
    BY <1>2, <2>1
  <2>4. ~(i < j) /\ i # j
    <3>1. ~(i < j)
      BY <1>1, <2>1, <2>2, <2>3
    <3>2. i # j
      BY <2>1, <2>2, <2>3
    <3> QED
      BY <3>1, <3>2
  <2>5. j \in before
    BY <1>1, <1>3, <2>2, <2>4
  <2> QED
    BY <2>2, <2>5
<1>7. f \in [before -> Newer(states, s[i])] /\ \A j \in before : f[j] = s[j]
  BY <1>5
<1>8. \A j, k \in before : j # k => f[j] # f[k]
  BY <1>1, <1>4, <1>7
<1> HIDE DEF f
<1>9. f \in Bijection(before, Newer(states, s[i]))
  BY <1>6, <1>7, <1>8 DEF Bijection, Injection, Surjection, IsInjective
<1>10. IsFiniteSet(before) /\ Cardinality(before) = i - 1
  BY <1>3, FS_Interval
<1> HIDE DEF before
<1>11. ExistsBijection(before, Newer(states, s[i]))
  BY <1>9 DEF ExistsBijection
<1> QED
  BY <1>10, <1>11, FS_Bijection

LEMMA PageOfPlace ==
    ASSUME NEW n \in Nat, NEW k \in 1..n
    PROVE  \E p \in 1..TotalPages(n) :
              /\ (p - 1) * PageLimit < k /\ k <= (p - 1) * PageLimit + PageLimit
              /\ (p - 1) * PageLimit \in Nat
<1> DEFINE q == (k - 1) \div PageLimit
           r == (k - 1) % PageLimit
           m == n + PageLimit - 1
           t == m \div PageLimit
           w == m % PageLimit
<1>1. PageLimit \in Nat /\ PageLimit >= 1 /\ k \in Nat /\ k >= 1 /\ k <= n
  BY AdminAssumption
<1>2. q \in Nat /\ r \in Nat /\ k - 1 = PageLimit * q + r /\ r < PageLimit
  BY <1>1, SMT
<1>3. t \in Nat /\ w \in Nat /\ n + PageLimit - 1 = PageLimit * t + w /\ w < PageLimit
  BY <1>1, SMT
<1>4. TotalPages(n) = IF t < 1 THEN 1 ELSE t
  BY DEF TotalPages
<1> HIDE DEF q, r, m, t, w
<1>5. q < t
  <2> SUFFICES ASSUME t <= q
               PROVE  FALSE
    BY <1>2, <1>3
  <2>1. PageLimit * t <= PageLimit * q
    BY <1>1, <1>2, <1>3, SMT
  <2> QED
    BY <1>1, <1>2, <1>3, <2>1, SMT
<1>6. q + 1 \in 1..TotalPages(n)
  BY <1>2, <1>3, <1>4, <1>5
<1>7. ((q + 1) - 1) * PageLimit = PageLimit * q /\ PageLimit * q \in Nat
  BY <1>1, <1>2, SMT
<1> QED
  BY <1>1, <1>2, <1>6, <1>7

\* No place is on two pages.
LEMMA PagesAreApart ==
    ASSUME NEW p \in Nat, NEW q \in Nat, NEW i \in 1..PageLimit, NEW j \in 1..PageLimit,
           (p - 1) * PageLimit + i = (q - 1) * PageLimit + j
    PROVE  p = q /\ i = j
<1>1. PageLimit \in Nat /\ PageLimit >= 1 /\ i \in Nat /\ j \in Nat
  BY AdminAssumption
<1>2. ASSUME NEW a \in Nat, NEW b \in Nat, a < b
      PROVE  (a - 1) * PageLimit + PageLimit <= (b - 1) * PageLimit
  <2>1. a * PageLimit <= (b - 1) * PageLimit
    BY <1>1, <1>2, SMT
  <2>2. a * PageLimit = (a - 1) * PageLimit + PageLimit
    BY <1>1, SMT
  <2> QED
    BY <2>1, <2>2
<1>3. (p - 1) * PageLimit \in Int /\ (q - 1) * PageLimit \in Int
  BY <1>1, SMT
<1>4. ~(p < q)
  BY <1>1, <1>2, <1>3
<1>5. ~(q < p)
  BY <1>1, <1>2, <1>3
<1>6. p = q
  BY <1>4, <1>5
<1> QED
  BY <1>1, <1>3, <1>6

\* What a page of the list holds.
LEMMA RowsOfPage ==
    ASSUME AdminInv, CreatedInTurn, NEW states, NEW n, n = Cardinality(Listed(states)),
           NEW p \in Nat, p >= 1, NEW list \in ListUsers(states, p)
    PROVE  \E s \in NewestFirst(states) :
              /\ DOMAIN list.users \subseteq 1..PageLimit
              /\ \A i \in 1..PageLimit : (p - 1) * PageLimit + i <= n => i \in DOMAIN list.users
              /\ \A i \in DOMAIN list.users :
                    /\ (p - 1) * PageLimit + i \in 1..n
                    /\ list.users[i] = s[(p - 1) * PageLimit + i]
<1> DEFINE skip == (p - 1) * PageLimit
           end(s) == IF skip + PageLimit < Len(s) THEN skip + PageLimit ELSE Len(s)
<1>1. PICK s \in NewestFirst(states) : list.users = SubSeq(s, skip + 1, end(s))
  <2>1. PICK s \in NewestFirst(states) :
           list = [users |-> SubSeq(s, skip + 1, end(s)), count |-> n, totalPages |-> TotalPages(n),
                   activeCount |-> Cardinality({u \in Staff : staff[u].active})]
    BY Zenon DEF ListUsers
  <2>2. list.users = SubSeq(s, skip + 1, end(s))
    BY <2>1
  <2> QED
    BY <2>2
<1> DEFINE last == end(s)
<1>2. /\ n \in Nat /\ s \in [1..n -> Listed(states)] /\ Len(s) = n
  BY ListIsComplete
<1>3. PageLimit \in Nat /\ PageLimit >= 1
  BY AdminAssumption
<1>4. skip \in Nat
  BY <1>3, SMT
<1> HIDE DEF skip
<1>5. last = IF skip + PageLimit < n THEN skip + PageLimit ELSE n
  BY <1>2
<1> HIDE DEF last
<1>6. last \in Nat /\ last <= n /\ last <= skip + PageLimit
  BY <1>2, <1>3, <1>4, <1>5
<1>7. list.users = SubSeq(s, skip + 1, last)
  BY <1>1 DEF last
<1>8. \A i \in skip + 1..last : s[i] \in Listed(states)
  BY <1>2, <1>4, <1>6
<1>9. /\ list.users \in Seq(Listed(states))
      /\ Len(list.users) = IF skip + 1 <= last THEN last - (skip + 1) + 1 ELSE 0
      /\ \A i \in 1..last - (skip + 1) + 1 : list.users[i] = s[skip + 1 + i - 1]
  BY <1>4, <1>6, <1>7, <1>8, SubSeqProperties
<1> DEFINE rows == list.users
<1>10. /\ DOMAIN rows = 1..Len(rows) /\ Len(rows) \in Nat
  BY <1>9
<1> HIDE DEF rows
<1>11. DOMAIN rows \subseteq 1..PageLimit
  BY <1>3, <1>4, <1>5, <1>6, <1>9, <1>10 DEF rows
<1>12. \A i \in 1..PageLimit : skip + i <= n => i \in DOMAIN rows
  BY <1>2, <1>3, <1>4, <1>5, <1>9, <1>10 DEF rows
<1>13. \A i \in DOMAIN rows : skip + i \in 1..n /\ rows[i] = s[skip + i]
  <2> SUFFICES ASSUME NEW i \in DOMAIN rows
               PROVE  skip + i \in 1..n /\ rows[i] = s[skip + i]
    OBVIOUS
  <2>1. i \in 1..last - (skip + 1) + 1 /\ skip + 1 + i - 1 = skip + i
    BY <1>4, <1>6, <1>9, <1>10 DEF rows
  <2>2. skip + i \in 1..n
    BY <1>2, <1>4, <1>6, <2>1
  <2> QED
    BY <1>9, <2>1, <2>2 DEF rows
<1> QED
  BY <1>11, <1>12, <1>13 DEF rows, skip

LEMMA PagesAreComplete ==
    ASSUME AdminInv, CreatedInTurn
    PROVE  PagesHoldEveryAccount
<1> SUFFICES ASSUME NEW states \in ActiveFilters
             PROVE  LET pages == 1..TotalPages(Cardinality(Listed(states)))
                    IN /\ \A u \in Listed(states) : \E p \in pages :
                             \A list \in ListUsers(states, p) :
                                \E i \in DOMAIN list.users : list.users[i] = u
                       /\ \A p, q \in pages :
                             \A list \in ListUsers(states, p), other \in ListUsers(states, q) :
                                /\ ToSet(list.users) \subseteq Listed(states)
                                /\ \A i \in DOMAIN list.users, j \in DOMAIN other.users :
                                      list.users[i] = other.users[j] => p = q /\ i = j
  BY DEF PagesHoldEveryAccount
<1> DEFINE n == Cardinality(Listed(states))
           pages == 1..TotalPages(n)
<1>1. n \in Nat /\ IsFiniteSet(Listed(states))
  BY ListedAreDistinct
<1> HIDE DEF n
<1>2. PageLimit \in Nat /\ PageLimit >= 1
  BY AdminAssumption
<1>3. \A p \in pages : p \in Nat /\ p >= 1 /\ (p - 1) * PageLimit \in Nat
  <2> SUFFICES ASSUME NEW p \in pages
               PROVE  p \in Nat /\ p >= 1 /\ (p - 1) * PageLimit \in Nat
    OBVIOUS
  <2>1. TotalPages(n) \in Int
    BY <1>1, <1>2, SMT DEF TotalPages
  <2>2. p \in Nat /\ p >= 1
    BY <2>1
  <2> QED
    BY <1>2, <2>2, SMT
<1>4. ASSUME NEW u \in Listed(states)
      PROVE  \E p \in pages : \A list \in ListUsers(states, p) :
                \E i \in DOMAIN list.users : list.users[i] = u
  <2> DEFINE k == Cardinality(Newer(states, u)) + 1
  <2>1. k \in 1..n
    <3>1. Newer(states, u) \subseteq Listed(states) \ {u}
      BY ListedAreDistinct DEF Newer
    <3>2. IsFiniteSet(Listed(states) \ {u}) /\ Cardinality(Listed(states) \ {u}) = n - 1
      BY <1>1, FS_RemoveElement DEF n
    <3>3. /\ Cardinality(Newer(states, u)) \in Nat
          /\ Cardinality(Newer(states, u)) <= Cardinality(Listed(states) \ {u})
      BY <3>1, <3>2, FS_Subset, FS_CardinalityType
    <3> QED
      BY <1>1, <3>2, <3>3
  <2>2. \A s \in NewestFirst(states) : s[k] = u
    <3> SUFFICES ASSUME NEW s \in NewestFirst(states)
                 PROVE  s[k] = u
      OBVIOUS
    <3>1. PICK i \in 1..n : s[i] = u
      BY ListIsComplete DEF n
    <3>2. Cardinality(Newer(states, u)) = i - 1
      BY <3>1, PlaceInList DEF n
    <3>3. k = i
      BY <1>1, <3>2
    <3> QED
      BY <3>1, <3>3
  <2> HIDE DEF k
  <2>3. PICK p \in pages : /\ (p - 1) * PageLimit < k /\ k <= (p - 1) * PageLimit + PageLimit
                           /\ (p - 1) * PageLimit \in Nat
    BY <1>1, <2>1, PageOfPlace
  <2> DEFINE skip == (p - 1) * PageLimit
             i == k - skip
  <2>4. skip \in Nat /\ skip < k /\ k <= skip + PageLimit
    BY <2>3
  <2> HIDE DEF skip
  <2>5. i \in 1..PageLimit /\ skip + i = k /\ skip + i <= n
    BY <1>1, <1>2, <2>1, <2>4
  <2>6. ASSUME NEW list \in ListUsers(states, p)
        PROVE  i \in DOMAIN list.users /\ list.users[i] = u
    <3>1. PICK s \in NewestFirst(states) :
             /\ \A j \in 1..PageLimit : (p - 1) * PageLimit + j <= n => j \in DOMAIN list.users
             /\ \A j \in DOMAIN list.users : list.users[j] = s[(p - 1) * PageLimit + j]
      BY <1>3, RowsOfPage DEF n
    <3>2. i \in DOMAIN list.users
      BY <2>5, <3>1 DEF skip
    <3>3. list.users[i] = s[skip + i]
      BY <3>1, <3>2 DEF skip
    <3> QED
      BY <2>2, <2>5, <3>2, <3>3
  <2> QED
    BY <2>6
<1>5. ASSUME NEW p \in pages, NEW q \in pages, NEW list \in ListUsers(states, p),
             NEW other \in ListUsers(states, q)
      PROVE  /\ ToSet(list.users) \subseteq Listed(states)
             /\ \A i \in DOMAIN list.users, j \in DOMAIN other.users :
                   list.users[i] = other.users[j] => p = q /\ i = j
  <2>1. PICK s \in NewestFirst(states) :
           /\ DOMAIN list.users \subseteq 1..PageLimit
           /\ \A i \in DOMAIN list.users :
                 /\ (p - 1) * PageLimit + i \in 1..n
                 /\ list.users[i] = s[(p - 1) * PageLimit + i]
    BY <1>3, RowsOfPage DEF n
  <2>2. PICK t \in NewestFirst(states) :
           /\ DOMAIN other.users \subseteq 1..PageLimit
           /\ \A j \in DOMAIN other.users :
                 /\ (q - 1) * PageLimit + j \in 1..n
                 /\ other.users[j] = t[(q - 1) * PageLimit + j]
    BY <1>3, RowsOfPage DEF n
  <2>3. s \in [1..n -> Listed(states)]
    BY ListIsComplete DEF n
  <2>4. ToSet(list.users) \subseteq Listed(states)
    BY <2>1, <2>3 DEF ToSet
  <2>5. ASSUME NEW i \in DOMAIN list.users, NEW j \in DOMAIN other.users,
               list.users[i] = other.users[j]
        PROVE  p = q /\ i = j
    <3> DEFINE k == (p - 1) * PageLimit + i
               l == (q - 1) * PageLimit + j
    <3>1. k \in 1..n /\ l \in 1..n /\ s[k] = t[l] /\ i \in 1..PageLimit /\ j \in 1..PageLimit
      BY <2>1, <2>2, <2>5
    <3> HIDE DEF k, l
    <3>2. k - 1 = Cardinality(Newer(states, s[k])) /\ l - 1 = Cardinality(Newer(states, t[l]))
      BY <3>1, PlaceInList DEF n
    <3>3. k = l
      BY <3>1, <3>2
    <3> QED
      BY <1>3, <3>1, <3>3, PagesAreApart DEF k, l
  <2> QED
    BY <2>4, <2>5
<1> QED
  BY <1>4, <1>5 DEF n

\* However administrators change each other's accounts at the same time, one of them remains
\* who can administrate, the audit log explains what every account is, and the pages of the
\* list hold every account once (users.service.js reads, checks and writes in separate steps,
\* and counts and selects the pages by what is stored).
THEOREM AdministratorsRemain == Spec => []AdministrationIsSafe
<1>1. Init => AdminInv /\ CreatedInTurn
  BY AdminStarts, StartsInTurn DEF Init
<1>2. AdminInv /\ CreatedInTurn /\ [Next]_vars => AdminInv' /\ CreatedInTurn'
  BY StepAdmin, StepInTurn
<1>3. AdminInv /\ CreatedInTurn => AdministrationIsSafe
  BY PagesAreComplete DEF AdminInv, AdministrationIsSafe, AdministrationHolds
<1> QED
  BY <1>1, <1>2, <1>3, PTL DEF Spec

LEMMA StepClient == ClientInv /\ [Next]_vars => ClientInv' /\ StaysOrHasCause
<1> SUFFICES ASSUME ClientInv, [Next]_vars PROVE ClientInv' /\ StaysOrHasCause
  OBVIOUS
<1>1. CASE ClientNext
  <2>1. CASE \/ HandleRefresh \/ HandleLogin \/ HandleLogout \/ LapseTokens \/ EndSession
             \/ \E r \in Requests : HandleRequest(r)
    BY <2>1, ServerKeepsClient DEF StaysOrHasCause
  <2>2. CASE \/ \E r \in Requests : Settle(r) \/ AskRefresh(r)
             \/ \E r \in Pages : CallApi(r)
             \/ RefreshSucceeds \/ RefreshFails \/ OpeningRefreshed \/ OpeningFails
    BY <2>2, TabKeepsClient
  <2>3. CASE SubmitLogin \/ LoginSettles \/ ClickLogout \/ LogoutSettles
    BY <2>3, PersonKeepsClient
  <2> QED
    BY <1>1, <2>1, <2>2, <2>3 DEF ClientNext
<1>2. CASE UNCHANGED clientVars
  <2>1. UNCHANGED <<session, signIns, lapses, cookie, token, user, opening, refresh, entry,
                    requests>>
    BY <1>2 DEF clientVars, serverSide, tabVars
  <2> QED
    BY <2>1 DEF ClientInv, ClientTypes, RefusedIsOver, StaysOrHasCause
<1> QED
  BY <1>1, <1>2, OtherScenes

\* Whatever fails, lapses or overtakes, the interceptors of the dashboard send a user back to
\* the login page only with a cause (http.js and AuthContext.jsx).
THEOREM SignOutsHaveCause == Spec => SignedOutOnlyWithCause
<1>1. Init => ClientInv
  BY ClientStarts DEF Init
<1>2. ClientInv /\ [Next]_vars =>
         ClientInv' /\ [user # 0 /\ user' = 0 => HasCause]_user
  BY StepClient DEF StaysOrHasCause
<1>3. Spec => [][user # 0 /\ user' = 0 => HasCause]_user
  BY <1>1, <1>2, PTL DEF Spec
<1> QED
  BY <1>3 DEF SignedOutOnlyWithCause, HasCause

FormsInv == SignupFormInv /\ ResetFormInv /\ ModalInv

LEMMA StepForms ==
    FormsInv /\ [Next]_vars =>
       FormsInv' /\ [SubmitsWhatWasChecked]_submission /\ [GoesForward]_step
<1> SUFFICES ASSUME FormsInv, [Next]_vars
             PROVE  FormsInv' /\ [SubmitsWhatWasChecked]_submission /\ [GoesForward]_step
  OBVIOUS
<1>1. SignupFormInv' /\ [SubmitsWhatWasChecked]_submission
  <2>1. CASE SignupPageNext
    BY <2>1, SignupFormStep DEF FormsInv
  <2>2. CASE UNCHANGED signupPageVars
    BY <2>2 DEF FormsInv, SignupFormInv, signupPageVars
  <2> QED
    BY <2>1, <2>2, OtherScenes
<1>2. ResetFormInv' /\ [GoesForward]_step
  <2>1. CASE ResetPageNext
    BY <2>1, ResetFormStep DEF FormsInv
  <2>2. CASE UNCHANGED resetPageVars
    BY <2>2 DEF FormsInv, ResetFormInv, ResetsTheAddressShown, resetPageVars
  <2> QED
    BY <2>1, <2>2, OtherScenes
<1>3. ModalInv'
  <2>1. CASE ManageNext
    BY <2>1, ModalStep DEF FormsInv
  <2>2. CASE UNCHANGED manageVars
    BY <2>2 DEF FormsInv, ModalInv, DetailIsOfTheUserOpened, manageVars
  <2> QED
    BY <2>1, <2>2, OtherScenes
<1> QED
  BY <1>1, <1>2, <1>3 DEF FormsInv

\* While fields are edited and answers are late, a form submits what was checked: the
\* identifier and address of a signup (SignupRequestPage.jsx), the address of a
\* reset (ForgotPasswordPage.jsx), and in the modal the account it shows (SettingsPage.jsx).
THEOREM FormsSendWhatIsShown == Spec => FormsActOnWhatIsShown
<1>1. Init => FormsInv
  BY SignupFormStarts, ResetFormStarts, ModalStarts DEF Init, FormsInv
<1>2. FormsInv /\ [Next]_vars =>
         FormsInv' /\ [SubmitsWhatWasChecked]_submission /\ [GoesForward]_step
  BY StepForms
<1>3. FormsInv' => ResetsTheAddressShown' /\ DetailIsOfTheUserOpened'
  BY DEF FormsInv, ResetFormInv, ModalInv
<1>4. Spec => [][SubmitsWhatWasChecked]_submission /\ [][GoesForward]_step /\ []FormsInv
  BY <1>1, <1>2, PTL DEF Spec
<1>5. FormsInv /\ FormsInv' => [ResetsTheAddressShown' /\ DetailIsOfTheUserOpened']_pageVars
  BY <1>3
<1>6. []FormsInv => [][ResetsTheAddressShown' /\ DetailIsOfTheUserOpened']_pageVars
  BY <1>5, PTL
<1> QED
  BY <1>4, <1>6 DEF FormsActOnWhatIsShown

LEMMA StepLimits == LimitsInv /\ [Next]_vars => LimitsInv'
<1> SUFFICES ASSUME LimitsInv, [Next]_vars PROVE LimitsInv'
  OBVIOUS
<1>1. LimitNext \/ UNCHANGED limitVars
  BY DEF Next, Signup, Reset, Session, Administration, Limits, Client, PageOfSignup, PageOfReset,
         Modal, vars, pageVars
<1> QED
  BY <1>1, LimitStep

\* No limiter of any route lets more through in a window than its limit, but for what it
\* gives back late (LimitsAreKept), for any addresses, people, requests, limits and spans
\* (the *-rate-limit.middleware.js of the routes).
THEOREM LimitsOfRoutes == Spec => []LimitsAreKept
<1>1. Init => LimitsInv
  BY LimitsStart DEF Init
<1>2. LimitsInv => LimitsAreKept
  BY LimitsFollow DEF LimitsAreKept
<1> QED
  BY <1>1, <1>2, StepLimits, PTL DEF Spec
=============================================================================
