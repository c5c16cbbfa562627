------------------------------ MODULE MCAccounts ------------------------------
(***************************************************************************)
(* Everything about accounts at TLC's size: the server's signup, password  *)
(* reset, sessions, administration and request limits, and the browser's   *)
(* HTTP client, signup page, reset page and account modal.  They share no  *)
(* state, so each behaviour is one of them, the scene, and the others keep *)
(* their initial state.                                                    *)
(***************************************************************************)
EXTENDS SignupRequests, PasswordReset, Sessions, AccountAdmin, RequestLimits, HttpClient,
        SignupPage, ResetPage, ManageUser, TLC

VARIABLE scene

tokenVars == <<ownerActive, tokens, resets>>
pageVars == <<clientVars, signupPageVars, resetPageVars, manageVars>>
vars == <<signupVars, tokenVars, sessionVars, adminVars, limitVars, pageVars, scene>>

\* Two callers apply with the same form, which is the worst case.
MCForms == {[userId |-> "u1", email |-> "e1", phoneNumber |-> "p1"]}

\* Callers, Handlers, Pages, Agents and Clients are the same two model values.
Symmetric == Permutations(Callers)

Init ==
    /\ scene \in {"signup", "reset", "sessions", "administration", "limits", "client",
                  "signup page", "reset page", "modal"}
    /\ SignupInit /\ ResetInit /\ SessionInit
    /\ scene # "sessions" => account.password = CHOOSE p \in Passwords : TRUE
    /\ AdminInit
    /\ LimitInit
    /\ scene # "limits" => path = "login"
    /\ ClientInit
    /\ scene # "client" => session = 0 /\ cookie = 0
    /\ SignupPageInit /\ ResetPageInit /\ ManageInit

Signup ==
    /\ scene = "signup" /\ SignupNext
    /\ UNCHANGED <<tokenVars, sessionVars, adminVars, limitVars, pageVars, scene>>

Reset ==
    /\ scene = "reset" /\ ResetNext
    /\ UNCHANGED <<signups, accounts, sessionVars, adminVars, limitVars, pageVars, scene>>

Session ==
    /\ scene = "sessions" /\ SessionNext
    /\ UNCHANGED <<signupVars, tokenVars, adminVars, limitVars, pageVars, scene>>

Administration ==
    /\ scene = "administration" /\ AdminNext
    /\ UNCHANGED <<signupVars, tokenVars, sessionVars, limitVars, pageVars, scene>>

Limits ==
    /\ scene = "limits" /\ LimitNext
    /\ UNCHANGED <<signupVars, tokenVars, sessionVars, adminVars, pageVars, scene>>

Client ==
    /\ scene = "client" /\ ClientNext
    /\ UNCHANGED <<signupVars, tokenVars, sessionVars, adminVars, limitVars, signupPageVars,
                   resetPageVars, manageVars, scene>>

PageOfSignup ==
    /\ scene = "signup page" /\ SignupPageNext
    /\ UNCHANGED <<signupVars, tokenVars, sessionVars, adminVars, limitVars, clientVars,
                   resetPageVars, manageVars, scene>>

PageOfReset ==
    /\ scene = "reset page" /\ ResetPageNext
    /\ UNCHANGED <<signupVars, tokenVars, sessionVars, adminVars, limitVars, clientVars,
                   signupPageVars, manageVars, scene>>

Modal ==
    /\ scene = "modal" /\ ManageNext
    /\ UNCHANGED <<signupVars, tokenVars, sessionVars, adminVars, limitVars, clientVars,
                   signupPageVars, resetPageVars, scene>>

Next ==
    \/ Signup \/ Reset \/ Session \/ Administration \/ Limits
    \/ Client \/ PageOfSignup \/ PageOfReset \/ Modal

Spec == Init /\ [][Next]_vars

\* A mailed code serves once, however submissions, reviews and confirmations interleave:
\* one signup request or one new password comes of it. And it is compared with no more
\* guesses than it admits, though they arrive at the same time.
CodesAreSpentOnce ==
    /\ SignupCodesAreSpentOnce
    /\ ResetCodesAreSpentOnce
    /\ \A i \in 1..Len(guesses) : guesses[i] <= MaxAttempts

\* Administrators change each other's accounts at the same time: one who can administrate
\* remains, the audit log explains what every account is, and the pages of the list hold it.
\* The other scenes leave the accounts as they are at first.
AdministrationIsSafe == scene = "administration" => AdministrationHolds

\* However requests overlap, are spelt and are spread over addresses, no limiter lets more
\* through to the service in a window than its limit, but for what it gives back late.
LimitsAreKept == scene = "limits" => LimitsHold

\* While fields are edited and answers are late, a form submits what was checked: the
\* identifier and address of a signup, the address of a reset, and in the modal the account
\* whose details it shows.
FormsActOnWhatIsShown ==
    /\ [][SubmitsWhatWasChecked]_submission
    /\ [][GoesForward]_step
    /\ [][ResetsTheAddressShown' /\ DetailIsOfTheUserOpened']_pageVars
=============================================================================
