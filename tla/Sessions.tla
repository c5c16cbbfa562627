------------------------------ MODULE Sessions ------------------------------
(***************************************************************************)
(* The sessions of one account: logins, refresh tokens, access tokens and  *)
(* websocket tickets of the auth service, and the handlers of the users    *)
(* service that end sessions.  A transaction revokes the refresh tokens it *)
(* saw when its first statement began, then waits for the row of the user, *)
(* so it is two steps: RevokeLive takes that snapshot, the commit does the *)
(* rest.  Tokens do not lapse here, which is the worst case.               *)
(***************************************************************************)
EXTENDS Naturals, FiniteSets, Sequences

CONSTANTS Handlers,      \* requests under way at the same time
          Passwords,
          MaxLogins, MaxVersion, MaxTickets    \* bounds

ASSUME SessionsAssumption == {MaxLogins, MaxVersion, MaxTickets} \subseteq Nat \ {0}

VARIABLES account,       \* the row of users: [active, password, version]
          refreshTokens, \* the rows of refresh_tokens in the order they were made
          access,        \* access tokens handed out: session version, refresh token
          tickets,       \* websocket tickets handed out: their session versions
          used,          \* usedWebSocketTicketStore
          connections,   \* the tickets that opened the authenticated connections
          handlers,      \* the requests under way
          overlapped     \* a stale decision was committed, and nothing ended it since

sessionVars == <<account, refreshTokens, access, tickets, used, connections, handlers, overlapped>>

AtRest == [step |-> "idle", op |-> "", password |-> "", token |-> 0, seen |-> {}, crossed |-> FALSE]

SessionInit ==
    /\ \E p \in Passwords : account = [active |-> TRUE, password |-> p, version |-> 0]
    /\ refreshTokens = <<>> /\ access = {}
    /\ tickets = <<>> /\ used = {} /\ connections = <<>>
    /\ handlers = [h \in Handlers |-> AtRest]
    /\ overlapped = FALSE

Live == {i \in 1..Len(refreshTokens) : refreshTokens[i].live}

Revoked(ids) ==
    [i \in 1..Len(refreshTokens) |->
        IF i \in ids THEN [refreshTokens[i] EXCEPT !.live = FALSE] ELSE refreshTokens[i]]

\* What authenticateToken asks of an access token, and a ticket of its account.
Accepted(version) == account.active /\ version = account.version

Starts(h, step, op, password, token) ==
    /\ handlers[h] = AtRest
    /\ handlers' = [handlers EXCEPT ![h] =
          [AtRest EXCEPT !.step = step, !.op = op, !.password = password, !.token = token]]
    /\ UNCHANGED <<account, refreshTokens, access, tickets, used, connections, overlapped>>

\* A commit ends its handler; what the others have read is old from now on.
Committed(h) ==
    handlers' = [g \in Handlers |->
        IF g = h THEN AtRest
        ELSE [handlers[g] EXCEPT !.crossed = handlers[g] # AtRest]]

\* A commit that ends all sessions also ends what overlapping left behind, unless it
\* was itself decided on something old.
EndsSessions(h) ==
    /\ handlers[h].step = "commit"
    /\ account.version < MaxVersion
    /\ Committed(h)
    /\ overlapped' = handlers[h].crossed
    /\ UNCHANGED <<tickets, used, connections>>

(* --- login, refresh, logout ----------------------------------------------- *)

\* Reads an active account and compares the password with the hash it has read.
BeginLogin(h) == account.active /\ Starts(h, "revoke", "login", account.password, 0)

\* The first statement of every transaction that ends sessions.
RevokeLive(h) ==
    /\ handlers[h].step = "revoke"
    /\ handlers' = [handlers EXCEPT ![h].step = "commit", ![h].seen = Live]
    /\ UNCHANGED <<account, refreshTokens, access, tickets, used, connections, overlapped>>

CommitLogin(h) ==
    /\ handlers[h].op = "login"
    /\ Len(refreshTokens) < MaxLogins
    /\ EndsSessions(h)
    /\ account' = [account EXCEPT !.version = @ + 1]
    /\ refreshTokens' = Append(Revoked(handlers[h].seen),
                               [live |-> TRUE, password |-> handlers[h].password])
    /\ access' = access \cup
         {[version |-> account'.version, refresh |-> Len(refreshTokens) + 1]}

\* Mutant: revoked tokens are found as well.
BeginRefreshOfAny(h) ==
    \E i \in 1..Len(refreshTokens) : Starts(h, "read user", "refresh", "", i)

\* Finds the refresh token live ...
BeginRefresh(h) == \E i \in Live : Starts(h, "read user", "refresh", "", i)

\* ... and then loads its user, with another query.
MintAccessToken(h) ==
    /\ handlers[h].step = "read user" /\ handlers[h].op = "refresh"
    /\ IF account.active
       THEN /\ access' = access \cup
                 {[version |-> account.version, refresh |-> handlers[h].token]}
            /\ overlapped' = (overlapped \/ handlers[h].crossed)
       ELSE UNCHANGED <<access, overlapped>>
    /\ handlers' = [handlers EXCEPT ![h] = AtRest]
    /\ UNCHANGED <<account, refreshTokens, tickets, used, connections>>

\* Revokes the token it was sent; if it was live, the session version grows.
Logout ==
    /\ account.version < MaxVersion
    /\ \E i \in Live :
          /\ refreshTokens' = Revoked({i})
          /\ account' = [account EXCEPT !.version = @ + 1]
    /\ handlers' = [g \in Handlers |-> [handlers[g] EXCEPT !.crossed = handlers[g] # AtRest]]
    /\ UNCHANGED <<access, tickets, used, connections, overlapped>>

(* --- the users service and the password reset ------------------------------ *)

BeginDeactivate(h) == Starts(h, "revoke", "deactivate", "", 0)

CommitDeactivate(h) ==
    /\ handlers[h].op = "deactivate"
    /\ EndsSessions(h)
    /\ account' = [account EXCEPT !.active = FALSE, !.version = @ + 1]
    /\ refreshTokens' = Revoked(handlers[h].seen)
    /\ UNCHANGED access

\* updateUser decides from the account it read whether it has to deactivate.
BeginUpdateUser(h) ==
    \/ account.active /\ Starts(h, "revoke", "deactivate", "", 0)
    \/ Starts(h, "update", "activate", "", 0)
    \/ ~account.active /\ Starts(h, "update", "stay inactive", "", 0)

\* Then it only writes the fields of the form: nothing is revoked.
CommitUpdateUser(h) ==
    /\ handlers[h].step = "update"
    /\ account' = [account EXCEPT !.active = (handlers[h].op = "activate")]
    /\ Committed(h)
    /\ overlapped' = (overlapped \/ (handlers[h].crossed /\ handlers[h].op = "stay inactive"))
    /\ UNCHANGED <<refreshTokens, access, tickets, used, connections>>

\* The owner changes the password, authenticated and with the current one.
BeginChangePassword(h) ==
    /\ \E a \in access : Accepted(a.version)
    /\ \E p \in Passwords \ {account.password} : Starts(h, "revoke", "change", p, 0)

\* An administrator resets it, to another one.
BeginResetPassword(h) ==
    /\ account.active
    /\ \E p \in Passwords \ {account.password} : Starts(h, "revoke", "change", p, 0)

\* A reset by mail whose transaction has deleted its code may set any.
BeginResetByMail(h) ==
    /\ account.active
    /\ \E p \in Passwords : Starts(h, "revoke", "change", p, 0)

CommitPassword(h) ==
    /\ handlers[h].op = "change"
    /\ EndsSessions(h)
    /\ account' = [account EXCEPT !.password = handlers[h].password, !.version = @ + 1]
    /\ refreshTokens' = Revoked(handlers[h].seen)
    /\ UNCHANGED access

(* --- websocket tickets ----------------------------------------------------- *)

IssueTicket ==
    /\ Len(tickets) < MaxTickets
    /\ \E a \in access : Accepted(a.version) /\ tickets' = Append(tickets, a.version)
    /\ UNCHANGED <<account, refreshTokens, access, used, connections, handlers, overlapped>>

\* Mutant: the ticket is not marked.
BeginConnectUnmarked(h) ==
    /\ handlers[h] = AtRest
    /\ \E t \in (1..Len(tickets)) \ used :
          handlers' = [handlers EXCEPT ![h] =
              [AtRest EXCEPT !.step = "read user", !.op = "connect", !.token = t]]
    /\ UNCHANGED <<account, refreshTokens, access, tickets, used, connections, overlapped>>

\* The ticket is marked as used before the account is read.
BeginConnect(h) ==
    /\ handlers[h] = AtRest
    /\ \E t \in (1..Len(tickets)) \ used :
          /\ handlers' = [handlers EXCEPT ![h] =
                [AtRest EXCEPT !.step = "read user", !.op = "connect", !.token = t]]
          /\ used' = used \cup {t}
    /\ UNCHANGED <<account, refreshTokens, access, tickets, connections, overlapped>>

\* A connection; or the ticket is forgotten: an old session, or the query fails.
Connect(h) ==
    /\ handlers[h].step = "read user" /\ handlers[h].op = "connect"
    /\ \/ /\ Accepted(tickets[handlers[h].token])
          /\ connections' = Append(connections, handlers[h].token)
          /\ UNCHANGED used
       \/ used' = used \ {handlers[h].token} /\ UNCHANGED connections
    /\ handlers' = [handlers EXCEPT ![h] = AtRest]
    /\ UNCHANGED <<account, refreshTokens, access, tickets, overlapped>>

\* A restart forgets the tickets that were used and drops the connections.
RestartSessions ==
    /\ used' = {} /\ connections' = <<>>
    /\ handlers' = [h \in Handlers |-> AtRest]
    /\ UNCHANGED <<account, refreshTokens, access, tickets, overlapped>>

SessionNext ==
    \/ \E h \in Handlers :
          \/ BeginLogin(h) \/ RevokeLive(h) \/ CommitLogin(h)
          \/ BeginRefresh(h) \/ MintAccessToken(h)
          \/ BeginDeactivate(h) \/ CommitDeactivate(h)
          \/ BeginUpdateUser(h) \/ CommitUpdateUser(h)
          \/ BeginChangePassword(h) \/ BeginResetPassword(h) \/ BeginResetByMail(h)
          \/ CommitPassword(h)
          \/ BeginConnect(h) \/ Connect(h)
    \/ Logout \/ IssueTicket \/ RestartSessions

SessionSpec == SessionInit /\ [][SessionNext]_sessionVars

\* After any sequence of logins, refreshes, logouts, changes of the password, of the
\* account and of its use, one session at most is left: the last one, opened with the
\* password that is valid now, on an account in use; and no access token outlives it.
\* Requests that decide on what another one has changed meanwhile can break this, until
\* the next request that ends sessions undisturbed.
OneSessionUnlessOverlapped ==
    ~overlapped =>
        /\ Cardinality(Live) <= 1
        /\ \A i \in Live : account.active /\ refreshTokens[i].password = account.password
        /\ \A a \in access : Accepted(a.version) => a.refresh \in Live

\* A ticket opens one connection, whatever comes between marking it and reading the
\* account.  The promise is that of one process: a restart drops the connection together
\* with the memory of the ticket, which then opens another until it lapses.
TicketsOpenOneConnection ==
    \A i, j \in 1..Len(connections) : connections[i] = connections[j] => i = j
=============================================================================
