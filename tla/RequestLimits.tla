---------------------------- MODULE RequestLimits ----------------------------
(***************************************************************************)
(* The public requests of the API and those about a password: each route   *)
(* has its limiters, passed in order, and a controller that turns what the *)
(* service did into a status.  A limiter counts the requests of a key in   *)
(* windows of a fixed length, in the memory of the process; that of logins *)
(* and of passwords gives a request back that succeeded.  The three routes *)
(* that check the password of an account share their limiter and are one   *)
(* path here; no other two share one, so a behaviour is about one path.    *)
(***************************************************************************)
EXTENDS Integers, Sequences, FiniteSets

CONSTANTS Addresses, People,    \* IP addresses; accounts or mail addresses
          Clients,              \* requests under way at a time
          Few, Many,            \* 5; 10 or 20 requests in a window
          Span, MaxNow,         \* the length of a window; bound on the clock
          MaxAsked              \* bound on the requests

ASSUME LimitAssumption == {Few, Many, Span, MaxNow, MaxAsked} \subseteq Nat \ {0}

VARIABLES path,        \* the route; for a password, any of the three
          hits,        \* what its limiters counted: [n, until] of each key
          asking,      \* the requests under way
          served,      \* those that reached the controller; done: 1 + when one was given back, or 0
          posted, now   \* how many were sent; the clock

limitVars == <<path, hits, asking, served, posted, now>>

Limiter(by, max, givesBack) == [by |-> by, max |-> max, givesBack |-> givesBack]
PerAddress(max) == Limiter({"address"}, max, FALSE)
PerMail(max) == Limiter({"person"}, max, FALSE)

SignupLimits ==
    [signup |-> <<PerAddress(Few)>>, available |-> <<PerAddress(Many)>>]
SignupEmailLimits ==
    [signupSend |-> <<PerAddress(Few), PerMail(Few)>>,
     signupVerify |-> <<PerAddress(Many), PerMail(Many)>>]
PasswordResetLimits ==
    [resetSend |-> <<PerAddress(Few), PerMail(Few)>>,
     resetVerify |-> <<PerAddress(Many), PerMail(Many)>>,
     resetConfirm |-> <<PerAddress(Many)>>]
LoginLimits == [login |-> <<Limiter({"address", "person"}, Few, TRUE)>>]
PasswordLimits == [password |-> <<Limiter({"address", "person"}, Few, TRUE)>>]

\* The statuses of the controllers: that of the error that the service threw, or 500.
SignupStatuses ==
    [signup |-> {201, 400, 409, 500}, available |-> {200, 400, 500},
     signupSend |-> {200, 400, 409, 429, 500, 502}, signupVerify |-> {200, 400, 429, 500}]
ResetStatuses ==
    [resetSend |-> {200, 500}, resetVerify |-> {200, 400, 429, 500},
     resetConfirm |-> {200, 400, 500}]
LoginStatuses == [login |-> {200, 401, 500}]
PasswordStatuses == [password |-> {200, 400, 403, 404, 500}]

Paths == UNION {DOMAIN r : r \in {SignupStatuses, ResetStatuses, LoginStatuses, PasswordStatuses}}

Either(tables) == LET table == CHOOSE t \in tables : path \in DOMAIN t IN table[path]
LimitersOf ==
    Either({SignupLimits, SignupEmailLimits, PasswordResetLimits, LoginLimits, PasswordLimits})
StatusesOf == Either({SignupStatuses, ResetStatuses, LoginStatuses, PasswordStatuses})

\* normalizeKeyPart: spaces and capitals of what was typed do not make another key. The
\* account of a password comes from the token.
NormalizeKeyPart(typed) == [typed EXCEPT !.spelling = "plain"]

\* Mutant: the key is what was typed.
KeyAsTyped(limiter, request) ==
    [address |-> IF "address" \in limiter.by THEN {request.address} ELSE {},
     person |-> IF "person" \in limiter.by THEN {request.person} ELSE {}]

Key(limiter, request) ==
    [address |-> IF "address" \in limiter.by THEN {request.address} ELSE {},
     person |-> IF "person" \in limiter.by THEN {NormalizeKeyPart(request.person)} ELSE {}]

Typed == [name : People, spelling : {"plain", "spaced"}]
Requested == [address : Addresses, person : Typed]
Keys == [address : {{}} \cup {{a} : a \in Addresses}, person : {{}} \cup {{t} : t \in Typed}]

NotAsking == [step |-> 0]

LimitInit ==
    /\ path \in Paths
    /\ hits = [i \in 1..2 |-> [k \in Keys |-> [n |-> 0, until |-> 0]]]
    /\ asking = [c \in Clients |-> NotAsking]
    /\ served = <<>> /\ posted = 0 /\ now = 0

Ask(c) ==
    /\ asking[c] = NotAsking /\ posted < MaxAsked
    /\ \E r \in Requested :
          asking' = [asking EXCEPT ![c] = [step |-> 1, address |-> r.address, person |-> r.person,
                                           at |-> <<>>, place |-> 0]]
    /\ posted' = posted + 1
    /\ UNCHANGED <<path, hits, served, now>>

\* The store counts a request; the first after a window has ended opens another.
Increment(i, k) ==
    LET counter == hits[i][k]
    IN IF counter.until <= now THEN [n |-> 1, until |-> now + Span]
       ELSE [counter EXCEPT !.n = @ + 1]

\* Beyond the limit the answer is 429 and nothing follows.
PassLimiter(c) ==
    LET r == asking[c]
        i == r.step
        k == Key(LimitersOf[i], r)
        counter == Increment(i, k)
        at == Append(r.at, now)
    IN /\ r.step \in 1..Len(LimitersOf)
       /\ hits' = [hits EXCEPT ![i][k] = counter]
       /\ IF counter.n > LimitersOf[i].max
          THEN asking' = [asking EXCEPT ![c] = NotAsking] /\ UNCHANGED served
          ELSE /\ asking' = [asking EXCEPT ![c] = [r EXCEPT !.step = i + 1, !.at = at,
                                                          !.place = Len(served) + 1]]
               /\ served' = IF i < Len(LimitersOf) THEN served
                            ELSE Append(served, [address |-> r.address, person |-> r.person.name,
                                                 at |-> at, done |-> 0])
       /\ UNCHANGED <<path, posted, now>>

\* skipSuccessfulRequests: whatever window is open by then.
GiveBack(i, k) ==
    IF hits[i][k].n > 0 THEN [hits[i][k] EXCEPT !.n = @ - 1] ELSE hits[i][k]

\* The controller answers.
Answer(c) ==
    /\ asking[c].step > Len(LimitersOf)
    /\ asking' = [asking EXCEPT ![c] = NotAsking]
    /\ \E status \in StatusesOf :
          IF LimitersOf[1].givesBack /\ status < 400
          THEN LET k == Key(LimitersOf[1], asking[c]) IN
               /\ hits' = [hits EXCEPT ![1][k] = GiveBack(1, k)]
               /\ served' = [served EXCEPT ![asking[c].place].done = now + 1]
          ELSE UNCHANGED <<hits, served>>
    /\ UNCHANGED <<path, posted, now>>

NowPasses ==
    /\ now < MaxNow /\ now' = now + 1
    /\ UNCHANGED <<path, hits, asking, served, posted>>

LimitNext == NowPasses \/ \E c \in Clients : Ask(c) \/ PassLimiter(c) \/ Answer(c)

LimitSpec == LimitInit /\ [][LimitNext]_limitVars

\* However requests overlap, are spelt and are spread over addresses, a limiter lets no more
\* of them through to the service in a window than its limit: of an address, of a mail, or,
\* of those that do not succeed, of an account from an address. Only a success that is given
\* back after its window had ended makes room for one more.
LimitsHold ==
    \A i \in 1..Len(LimitersOf), k \in Keys :
        (\A f \in {"address", "person"} : k[f] = {} <=> f \notin LimitersOf[i].by) =>
            LET mine == {j \in DOMAIN served : /\ k.address \subseteq {served[j].address}
                                               /\ {t.name : t \in k.person} \subseteq {served[j].person}}
                since == hits[i][k].until - Span
                opened == {j \in mine : since <= served[j].at[i] /\ served[j].at[i] < since + Span}
                late == {j \in mine : served[j].done > since /\ served[j].at[i] < since}
            IN Cardinality({j \in opened : served[j].done = 0})
                  <= LimitersOf[i].max + Cardinality(late)
=============================================================================
