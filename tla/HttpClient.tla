----------------------------- MODULE HttpClient -----------------------------
(***************************************************************************)
(* One browser tab of the dashboard: the HTTP client with its access token *)
(* in memory, the shared refresh after a 401, AuthProvider with the user   *)
(* it shows, and the cookie jar.  The server is what the tab sees of it:   *)
(* the session it holds, and which access tokens it accepts.  A request is *)
(* answered when the server handles it and delivered later, so answers     *)
(* overtake each other.                                                    *)
(***************************************************************************)
EXTENDS Naturals

CONSTANTS Pages,       \* the requests pages have under way at the same time
          MaxSignIns, MaxLapses    \* bounds

ASSUME ClientAssumption ==
    MaxSignIns \in Nat \ {0} /\ MaxLapses \in Nat /\ "me" \notin Pages

VARIABLES session,   \* the session the server holds, 0 for none; sessions are numbered
          signIns,   \* how many there have been
          lapses,    \* how often the access tokens of before have expired
          cookie,    \* the session of the refresh token in the cookie jar
          token,     \* accessToken of http.js: [session, lapses]
          user,      \* the session of the user AuthProvider shows, 0 for null
          opening,   \* initializeAuth of the tab: its refresh, "profile", or "off"
          refresh,   \* refreshPromise
          entry,     \* the request of the login page
          leaving,   \* the logout request
          requests   \* the others, with fetchMyProfile as "me"

serverSide == <<session, signIns, lapses>>
tabVars == <<cookie, token, user, opening, refresh, entry, leaving, requests>>
clientVars == <<serverSide, tabVars>>

NoToken == [session |-> 0, lapses |-> 0]
Off == [step |-> "off", cookie |-> 0, token |-> NoToken]
Unsent == [step |-> "off", token |-> NoToken, retried |-> FALSE]
Requests == Pages \cup {"me"}

\* The page is loaded, perhaps with the cookie of an earlier visit.
ClientInit ==
    /\ session \in {0, 1} /\ signIns = 1 /\ lapses = 0
    /\ cookie \in {0, 1}
    /\ token = NoToken /\ user = 0
    /\ opening = [Off EXCEPT !.step = "sent", !.cookie = cookie]
    /\ refresh = Off /\ entry = Off /\ leaving = Off
    /\ requests = [r \in Requests |-> Unsent]

(* --- the server ------------------------------------------------------------ *)

Accepts(t) == t.session # 0 /\ t.session = session /\ t.lapses = lapses

\* A refresh hands out an access token, is refused, or is lost: no answer, or a 5xx.
Outcomes(f) ==
    {[f EXCEPT !.step = "lost"],
     IF f.cookie # 0 /\ f.cookie = session
     THEN [f EXCEPT !.step = "ok", !.token = [session |-> session, lapses |-> lapses]]
     ELSE [f EXCEPT !.step = "refused"]}

HandleRefresh ==
    /\ \/ opening.step = "sent" /\ opening' \in Outcomes(opening) /\ UNCHANGED refresh
       \/ refresh.step = "sent" /\ refresh' \in Outcomes(refresh) /\ UNCHANGED opening
    /\ UNCHANGED <<serverSide, cookie, token, user, entry, leaving, requests>>

HandleRequest(r) ==
    /\ requests[r].step = "sent"
    /\ \E answer \in {"lost", IF Accepts(requests[r].token) THEN "ok" ELSE "refused"} :
          requests' = [requests EXCEPT ![r].step = answer]
    /\ UNCHANGED <<serverSide, cookie, token, user, opening, refresh, entry, leaving>>

HandleLogin ==
    /\ entry.step = "sent"
    /\ \/ /\ signIns < MaxSignIns
          /\ signIns' = signIns + 1 /\ session' = signIns + 1
          /\ entry' \in {[Off EXCEPT !.step = "ok",
                            !.token = [session |-> signIns + 1, lapses |-> lapses]],
                         [Off EXCEPT !.step = "lost"]}
       \/ entry' = [Off EXCEPT !.step = "lost"] /\ UNCHANGED <<signIns, session>>
    /\ UNCHANGED <<lapses, cookie, token, user, opening, refresh, leaving, requests>>

\* The server may have logged out without the answer coming back.
HandleLogout ==
    /\ leaving.step = "sent"
    /\ leaving' \in {[leaving EXCEPT !.step = "ok"], [leaving EXCEPT !.step = "lost"]}
    /\ \/ session' = (IF leaving.cookie = session THEN 0 ELSE session)
       \/ leaving'.step = "lost" /\ UNCHANGED session
    /\ UNCHANGED <<signIns, lapses, cookie, token, user, opening, refresh, entry, requests>>

\* The hour of every access token handed out so far is over.
LapseTokens ==
    /\ lapses < MaxLapses
    /\ lapses' = lapses + 1
    /\ UNCHANGED <<session, signIns, tabVars>>

\* A login elsewhere, an administrator or a new password ends the session.
EndSession ==
    /\ session # 0
    /\ session' = 0
    /\ UNCHANGED <<signIns, lapses, tabVars>>

(* --- http.js --------------------------------------------------------------- *)

\* The request interceptor takes the token in memory, also when a request is repeated.
Sent(t, retried) == [step |-> "sent", token |-> t, retried |-> retried]

\* Protected routes call the API once a user is known.
CallApi(r) ==
    /\ user # 0 /\ opening = Off
    /\ requests[r] = Unsent
    /\ requests' = [requests EXCEPT ![r] = Sent(token, FALSE)]
    /\ UNCHANGED <<serverSide, cookie, token, user, opening, refresh, entry, leaving>>

\* initializeAuth ends with fetchMyProfile: the user, or nobody.
ProfileSettled(shown) ==
    /\ opening' = Off
    /\ user' = shown

\* Mutant: an error of any kind signs the user out.
SettleStrictly(r) ==
    /\ \/ requests[r].step \in {"ok", "lost"}
       \/ requests[r].step = "refused" /\ requests[r].retried
    /\ requests' = [requests EXCEPT ![r] = Unsent]
    /\ opening' = IF r = "me" THEN Off ELSE opening
    /\ IF requests[r].step = "ok"
       THEN user' = (IF r = "me" THEN requests[r].token.session ELSE user) /\ UNCHANGED token
       ELSE user' = 0 /\ token' = NoToken
    /\ UNCHANGED <<serverSide, cookie, refresh, entry, leaving>>

\* A response; or an error that is not a first 401, which goes to the caller.
Settle(r) ==
    /\ \/ requests[r].step \in {"ok", "lost"}
       \/ requests[r].step = "refused" /\ requests[r].retried
    /\ requests' = [requests EXCEPT ![r] = Unsent]
    /\ IF r = "me" /\ requests[r].step = "ok"
       THEN ProfileSettled(requests[r].token.session) /\ UNCHANGED token
       ELSE IF r = "me" THEN ProfileSettled(0) /\ token' = NoToken
       ELSE UNCHANGED <<token, user, opening>>
    /\ UNCHANGED <<serverSide, cookie, refresh, entry, leaving>>

\* The first 401 of a request: it waits for the refresh under way, or starts one.
AskRefresh(r) ==
    /\ requests[r].step = "refused" /\ ~requests[r].retried
    /\ requests' = [requests EXCEPT ![r].step = "waiting", ![r].retried = TRUE]
    /\ refresh' = IF refresh = Off THEN [Off EXCEPT !.step = "sent", !.cookie = cookie]
                                   ELSE refresh
    /\ UNCHANGED <<serverSide, cookie, token, user, opening, entry, leaving>>

Waiting == {r \in Requests : requests[r].step = "waiting"}

\* A new token: all that waited for it are sent again.
RefreshSucceeds ==
    /\ refresh.step = "ok"
    /\ refresh' = Off
    /\ token' = refresh.token
    /\ requests' = [r \in Requests |->
          IF r \in Waiting THEN Sent(refresh.token, TRUE) ELSE requests[r]]
    /\ UNCHANGED <<serverSide, cookie, user, opening, entry, leaving>>

\* None: the token is forgotten, nobody is signed in and those that waited fail. The
\* answer that refuses it clears the cookie.
RefreshFails ==
    /\ refresh.step \in {"refused", "lost"}
    /\ refresh' = Off
    /\ cookie' = IF refresh.step = "refused" THEN 0 ELSE cookie
    /\ token' = NoToken /\ user' = 0
    /\ opening' = IF "me" \in Waiting THEN Off ELSE opening
    /\ requests' = [r \in Requests |-> IF r \in Waiting THEN Unsent ELSE requests[r]]
    /\ UNCHANGED <<serverSide, entry, leaving>>

(* --- AuthProvider ---------------------------------------------------------- *)

\* initializeAccessToken, then the profile.
OpeningRefreshed ==
    /\ opening.step = "ok"
    /\ token' = opening.token
    /\ opening' = [opening EXCEPT !.step = "profile"]
    /\ requests' = [requests EXCEPT !["me"] = Sent(opening.token, FALSE)]
    /\ UNCHANGED <<serverSide, cookie, user, refresh, entry, leaving>>

OpeningFails ==
    /\ opening.step \in {"refused", "lost"}
    /\ cookie' = IF opening.step = "refused" THEN 0 ELSE cookie
    /\ token' = NoToken
    /\ ProfileSettled(0)
    /\ UNCHANGED <<serverSide, refresh, entry, leaving, requests>>

\* The login page redirects only when initializing is over and there is a user.
SubmitLogin ==
    /\ user = 0 \/ opening # Off
    /\ entry = Off /\ leaving = Off
    /\ entry' = [Off EXCEPT !.step = "sent"]
    /\ UNCHANGED <<serverSide, cookie, token, user, opening, refresh, leaving, requests>>

LoginSettles ==
    /\ entry.step \in {"ok", "lost"}
    /\ entry' = Off
    /\ IF entry.step = "ok"
       THEN cookie' = entry.token.session /\ token' = entry.token /\ user' = entry.token.session
       ELSE UNCHANGED <<cookie, token, user>>
    /\ UNCHANGED <<serverSide, opening, refresh, leaving, requests>>

ClickLogout ==
    /\ user # 0 /\ opening = Off /\ leaving = Off
    /\ leaving' = [Off EXCEPT !.step = "sent", !.cookie = cookie]
    /\ UNCHANGED <<serverSide, cookie, token, user, opening, refresh, entry, requests>>

\* finally: whatever became of the request, the tab is signed out.
LogoutSettles ==
    /\ leaving.step \in {"ok", "lost"}
    /\ leaving' = Off
    /\ cookie' = IF leaving.step = "ok" THEN 0 ELSE cookie
    /\ token' = NoToken /\ user' = 0
    /\ UNCHANGED <<serverSide, opening, refresh, entry, requests>>

ClientNext ==
    \/ HandleRefresh \/ HandleLogin \/ HandleLogout \/ LapseTokens \/ EndSession
    \/ \E r \in Requests : HandleRequest(r) \/ Settle(r) \/ AskRefresh(r)
    \/ \E r \in Pages : CallApi(r)
    \/ RefreshSucceeds \/ RefreshFails \/ OpeningRefreshed \/ OpeningFails
    \/ SubmitLogin \/ LoginSettles \/ ClickLogout \/ LogoutSettles

ClientSpec == ClientInit /\ [][ClientNext]_clientVars

\* Requests fail, tokens lapse and answers overtake each other, but the user is sent back
\* to the login page only for a reason: he asked for it; the server has ended his session;
\* the refresh got no answer; or a refresh sent before he signed in has failed since.
SignedOutOnlyWithCause ==
    [][(user # 0 /\ user' = 0) =>
          \/ leaving # Off
          \/ session # user
          \/ \E f \in {refresh, opening} :
                f # Off /\ (f.step = "lost" \/ f.cookie # user)]_user
=============================================================================
