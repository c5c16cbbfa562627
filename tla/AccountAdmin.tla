---------------------------- MODULE AccountAdmin ----------------------------
(***************************************************************************)
(* The administration of accounts: who is signed in creates, changes and   *)
(* deactivates accounts and reads their list.  A request reads its caller, *)
(* then the account it is about, and writes in a transaction of its own.   *)
(* Passwords and tokens are in Sessions; here an account is signed in or   *)
(* not.  A duplicate user ID, mail or phone number is a write that fails.  *)
(***************************************************************************)
EXTENDS Integers, Sequences, FiniteSets, SequencesExt

CONSTANTS Staff, Founder,    \* accounts; the administrator that the seed made
          Agents,            \* requests under way at a time
          MaxAudit,          \* bound on the entries of the audit log
          PageLimit          \* accounts on a page of the list

ASSUME AdminAssumption ==
    IsFiniteSet(Staff) /\ Founder \in Staff /\ {MaxAudit, PageLimit} \subseteq Nat \ {0}

VARIABLES staff,         \* the account rows; created: their order of creation
          signedIn,      \* the accounts with a session of the current version
          jobs,          \* the requests under way, with what they read
          audit,         \* user_audit_log
          overtaken      \* a request wrote though what it had read was no longer so

adminVars == <<staff, signedIn, jobs, audit, overtaken>>

Roles == {"SUPER_ADMIN", "MANAGER"}
NoRow == [role |-> "none", active |-> FALSE, created |-> 0]
Exists(u) == staff[u] # NoRow
IdleJob == [op |-> "none"]

\* createUserAuditSnapshot; the names are left out.
Snapshot(row) == [role |-> row.role, active |-> row.active]

AdminInit ==
    /\ staff = [u \in Staff |-> IF u = Founder
                                THEN [role |-> "SUPER_ADMIN", active |-> TRUE, created |-> 1]
                                ELSE NoRow]
    /\ signedIn = {Founder} /\ audit = <<>> /\ overtaken = FALSE
    /\ jobs = [a \in Agents |-> IdleJob]

EntersStaff(u) ==
    /\ staff[u].active /\ u \notin signedIn
    /\ signedIn' = signedIn \cup {u}
    /\ UNCHANGED <<staff, jobs, audit, overtaken>>

\* authenticateToken: the caller's row is read, and answers 401 unless it is active and its
\* session current.
Authenticated(u) == u \in signedIn /\ staff[u].active

\* requireRole("SUPER_ADMIN"); anybody may ask for an update.
RequireRole(op, u) == op = "update" \/ staff[u].role = "SUPER_ADMIN"

BeginJob(a) ==
    /\ jobs[a] = IdleJob /\ Len(audit) < MaxAudit
    /\ \E u \in Staff, id \in Staff, op \in {"create", "update", "deactivate"} :
          /\ Authenticated(u) /\ RequireRole(op, u)
          /\ op = "create" <=> ~Exists(id)
          /\ jobs' = [jobs EXCEPT ![a] = [op |-> op, by |-> u, role |-> staff[u].role, id |-> id,
                                          step |-> "read", existing |-> NoRow, data |-> NoRow]]
    /\ UNCHANGED <<staff, signedIn, audit, overtaken>>

\* The fields that a caller may ask to change, as sets of at most one value.
Asked == [role : {{}, {"SUPER_ADMIN"}, {"MANAGER"}}, active : {{}, {TRUE}, {FALSE}}]

\* Mutant: the role of one's own account is not compared.
AdmitsDemotion(job, existing, asked) ==
    /\ job.by = job.id \/ job.role = "SUPER_ADMIN"
    /\ job.by = job.id => asked.active \subseteq {existing.active}

\* Nobody changes the role or the state that they read of themselves.
AdmitsUpdate(job, existing, asked) ==
    /\ job.by = job.id \/ job.role = "SUPER_ADMIN"
    /\ job.by = job.id => asked.role \subseteq {existing.role}
    /\ job.by = job.id => asked.active \subseteq {existing.active}

AdmitsDeactivation(job) == job.by # job.id

\* The controller answers, with the account or with an error.
Answers(a) == jobs' = [jobs EXCEPT ![a] = IdleJob]

Reads(a, data) ==
    /\ jobs' = [jobs EXCEPT ![a].step = "write", ![a].existing = staff[jobs[a].id], ![a].data = data]
    /\ UNCHANGED <<staff, signedIn, audit, overtaken>>

With(row, asked) ==
    [row EXCEPT !.role = IF asked.role = {} THEN @ ELSE CHOOSE r \in asked.role : TRUE,
                !.active = IF asked.active = {} THEN @ ELSE CHOOSE b \in asked.active : TRUE]

\* findUserRecordById and what is refused by what it found; data holds the new values, or {}.
ReadForUpdate(a) ==
    /\ jobs[a].op = "update" /\ jobs[a].step = "read"
    /\ \E asked \in Asked :
          /\ AdmitsUpdate(jobs[a], staff[jobs[a].id], asked)
          /\ Reads(a, asked)

ReadForDeactivation(a) ==
    /\ jobs[a].op = "deactivate" /\ jobs[a].step = "read"
    /\ AdmitsDeactivation(jobs[a])
    /\ Reads(a, [role |-> {}, active |-> {FALSE}])

\* createUser reads nothing: it hashes the password.
PrepareCreation(a) ==
    /\ jobs[a].op = "create" /\ jobs[a].step = "read"
    /\ \E role \in Roles, active \in BOOLEAN : Reads(a, [role |-> {role}, active |-> {active}])

\* The request was decided by what no longer holds, of its caller or of its account.
Overtaken(job) ==
    \/ ~Authenticated(job.by) \/ staff[job.by].role # job.role
    \/ job.op # "create" /\ staff[job.id] # job.existing

Writes(a, row, action) ==
    LET job == jobs[a] IN
    /\ staff' = [staff EXCEPT ![job.id] = row]
    /\ audit' = Append(audit, [actor |-> job.by, target |-> job.id, action |-> action,
                               before |-> Snapshot(job.existing), after |-> Snapshot(row)])
    /\ Answers(a)
    /\ overtaken' = (overtaken \/ Overtaken(job))

CommitCreation(a) ==
    /\ jobs[a].op = "create" /\ jobs[a].step = "write" /\ ~Exists(jobs[a].id)
    /\ Writes(a, [With(NoRow, jobs[a].data) EXCEPT
                     !.created = Cardinality({u \in Staff : Exists(u)}) + 1], "USER_CREATED")
    /\ UNCHANGED signedIn

\* Whether an update deactivates, and ends the sessions, is told by what was read.
Deactivates(job) ==
    \/ job.op = "deactivate"
    \/ job.op = "update" /\ job.existing.active /\ job.data.active = {FALSE}

CommitUpdate(a) ==
    /\ jobs[a].op \in {"update", "deactivate"} /\ jobs[a].step = "write"
    /\ signedIn' = IF Deactivates(jobs[a]) THEN signedIn \ {jobs[a].id} ELSE signedIn
    /\ Writes(a, With(staff[jobs[a].id], jobs[a].data),
              IF Deactivates(jobs[a]) THEN "USER_DEACTIVATED" ELSE "USER_UPDATED")

\* Refused, or the transaction fails: 400, 403, 409 or 500.
JobFails(a) ==
    /\ jobs[a] # IdleJob
    /\ Answers(a)
    /\ UNCHANGED <<staff, signedIn, audit, overtaken>>

AdminNext ==
    \/ \E u \in Staff : EntersStaff(u)
    \/ \E a \in Agents :
          \/ BeginJob(a) \/ ReadForUpdate(a) \/ ReadForDeactivation(a) \/ PrepareCreation(a)
          \/ CommitCreation(a) \/ CommitUpdate(a) \/ JobFails(a)

AdminSpec == AdminInit /\ [][AdminNext]_adminVars

(* --- the list ------------------------------------------------------------------ *)

\* isActive of the query, as the set of the states that pass; anything else is refused.
ActiveFilters == {{TRUE}, {FALSE}, BOOLEAN}

Listed(states) == {u \in Staff : Exists(u) /\ staff[u].active \in states}

\* The newest come first; accounts of one moment would come in any order, at each query anew.
NewestFirst(states) ==
    {s \in SetToSeqs(Listed(states)) :
        \A i, j \in DOMAIN s : i < j => staff[s[i]].created >= staff[s[j]].created}

TotalPages(count) ==
    LET pages == (count + PageLimit - 1) \div PageLimit IN IF pages < 1 THEN 1 ELSE pages

\* What the query for a page may answer.
ListUsers(states, page) ==
    LET skip == (page - 1) * PageLimit
        end(s) == IF skip + PageLimit < Len(s) THEN skip + PageLimit ELSE Len(s)
        count == Cardinality(Listed(states))
    IN {[users |-> SubSeq(s, skip + 1, end(s)), count |-> count, totalPages |-> TotalPages(count),
         activeCount |-> Cardinality({u \in Staff : staff[u].active})] : s \in NewestFirst(states)}

(* --- what must hold --------------------------------------------------------------- *)

\* The dashboard always has an administrator: nobody can lock out the last one, unless two
\* requests decided about each other at the same time.
AnAdministratorRemains ==
    overtaken \/ \E u \in Staff : staff[u].role = "SUPER_ADMIN" /\ staff[u].active

\* Entry j is the next one, after entry i, about the same account.
IsNextEntry(i, j) ==
    /\ i < j /\ audit[i].target = audit[j].target
    /\ \A k \in DOMAIN audit : i < k /\ k < j => audit[k].target # audit[j].target

\* The log accounts for every role and every state: the newest entry about an account says
\* what the account is, and entries follow from each other unless they overlapped.
AuditExplainsAccounts ==
    /\ \A i \in DOMAIN audit :
          \/ audit[i].after = Snapshot(staff[audit[i].target])
          \/ \E j \in DOMAIN audit : i < j /\ audit[j].target = audit[i].target
    /\ overtaken \/ \A i, j \in DOMAIN audit : IsNextEntry(i, j) => audit[j].before = audit[i].after

\* The pages of the list, each asked for by itself, hold every account that passes the
\* filter, no other, and none twice.
PagesHoldEveryAccount ==
    \A states \in ActiveFilters :
        LET pages == 1..TotalPages(Cardinality(Listed(states)))
        IN /\ \A u \in Listed(states) : \E p \in pages :
                 \A list \in ListUsers(states, p) : \E i \in DOMAIN list.users : list.users[i] = u
           /\ \A p, q \in pages :
                 \A list \in ListUsers(states, p), other \in ListUsers(states, q) :
                    /\ ToSet(list.users) \subseteq Listed(states)
                    /\ \A i \in DOMAIN list.users, j \in DOMAIN other.users :
                          list.users[i] = other.users[j] => p = q /\ i = j

AdministrationHolds ==
    AnAdministratorRemains /\ AuditExplainsAccounts /\ PagesHoldEveryAccount
=============================================================================
