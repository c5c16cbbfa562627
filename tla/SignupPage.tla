----------------------------- MODULE SignupPage -----------------------------
(***************************************************************************)
(* The page on which an applicant fills in a signup request.  Three        *)
(* requests to the server check what is in the form while the form can     *)
(* still be edited, and each answer is compared with a ref that follows    *)
(* the keys.  Names, passwords and phone numbers gate nothing here.        *)
(***************************************************************************)
EXTENDS Naturals, FiniteSets

CONSTANTS Ids, Mails, MaxVerifying    \* the last is a bound

ASSUME SignupPageAssumption == MaxVerifying \in Nat \ {0}

VARIABLES form,             \* [userId, email]
          currentUserId, currentEmail,           \* the two refs
          isUserIdAvailable, isEmailCodeSent, isEmailVerified, isVerifying,
          cooldown,         \* resendCooldown > 0
          checking, sending, verifying,   \* the values asked about, not answered yet
          foundAvailable, proved,   \* what the server has answered so far
          submission        \* the form that is being submitted, or the empty one

signupPageVars == <<form, currentUserId, currentEmail, isUserIdAvailable, isEmailCodeSent,
    isEmailVerified, isVerifying, cooldown, checking, sending, verifying, foundAvailable,
    proved, submission>>

refs == <<currentUserId, currentEmail>>
asked == <<checking, sending, verifying>>
answers == <<foundAvailable, proved>>
EmptyForm == [userId |-> "", email |-> ""]

SignupPageInit ==
    /\ form = EmptyForm /\ submission = EmptyForm
    /\ currentUserId = "" /\ currentEmail = ""
    /\ isUserIdAvailable = FALSE /\ isEmailCodeSent = FALSE /\ isEmailVerified = FALSE
    /\ isVerifying = FALSE /\ cooldown = FALSE
    /\ checking = {} /\ sending = {} /\ verifying = {}
    /\ foundAvailable = {} /\ proved = {}

\* resetEmailVerification
ResetsVerification ==
    /\ isEmailCodeSent' = FALSE /\ isEmailVerified' = FALSE
    /\ isVerifying' = FALSE /\ cooldown' = FALSE

\* handleChange of the user ID empties the rest of the form, but not currentEmailRef.
TypeUserId ==
    /\ \E id \in Ids \cup {""} :
          /\ id # form.userId
          /\ form' = [EmptyForm EXCEPT !.userId = id]
          /\ currentUserId' = id
    /\ isUserIdAvailable' = FALSE
    /\ ResetsVerification
    /\ UNCHANGED <<currentEmail, asked, answers, submission>>

\* handleChange of the address, while its field is enabled.
TypeEmail ==
    /\ isUserIdAvailable /\ ~isEmailVerified
    /\ \E email \in Mails \cup {""} :
          /\ email # form.email
          /\ form' = [form EXCEPT !.email = email]
          /\ currentEmail' = email
    /\ ResetsVerification
    /\ UNCHANGED <<currentUserId, isUserIdAvailable, asked, answers, submission>>

CheckUserId ==
    /\ checking = {} /\ form.userId # ""
    /\ checking' = {form.userId}
    /\ UNCHANGED <<form, refs, isUserIdAvailable, isEmailCodeSent, isEmailVerified, isVerifying,
                   cooldown, sending, verifying, answers, submission>>

\* An answer about another ID than the one typed last is not applied.
UserIdChecked(id) ==
    /\ \E available \in BOOLEAN :
          /\ foundAvailable' = IF available THEN foundAvailable \cup {id}
                                            ELSE foundAvailable \ {id}
          /\ isUserIdAvailable' = IF currentUserId = id THEN available ELSE isUserIdAvailable
    /\ checking' = checking \ {id}
    /\ UNCHANGED <<form, refs, isEmailCodeSent, isEmailVerified, isVerifying, cooldown,
                   sending, verifying, proved, submission>>

SendCode ==
    /\ isUserIdAvailable /\ ~isEmailVerified /\ ~cooldown
    /\ sending = {} /\ form.email # ""
    /\ sending' = {form.email}
    /\ UNCHANGED <<form, refs, isUserIdAvailable, isEmailCodeSent, isEmailVerified, isVerifying,
                   cooldown, checking, verifying, answers, submission>>

CodeSent(email) ==
    /\ \/ /\ currentEmail = email
          /\ isEmailCodeSent' = TRUE /\ cooldown' = TRUE
       \/ UNCHANGED <<isEmailCodeSent, cooldown>>
    /\ sending' = sending \ {email}
    /\ UNCHANGED <<form, refs, isUserIdAvailable, isEmailVerified, isVerifying, checking,
                   verifying, answers, submission>>

CooldownEnds ==
    /\ cooldown /\ cooldown' = FALSE
    /\ UNCHANGED <<form, refs, isUserIdAvailable, isEmailCodeSent, isEmailVerified, isVerifying,
                   asked, answers, submission>>

\* resetEmailVerification enables the button again, so several can be under way.
VerifyCode ==
    /\ isEmailCodeSent /\ ~isEmailVerified /\ ~isVerifying
    /\ Cardinality(verifying) < MaxVerifying
    /\ isVerifying' = TRUE
    /\ verifying' = verifying \cup {form.email}
    /\ UNCHANGED <<form, refs, isUserIdAvailable, isEmailCodeSent, isEmailVerified, cooldown,
                   checking, sending, answers, submission>>

\* The server knows no code of an empty address.
CodeVerified(email) ==
    /\ email # ""
    /\ proved' = proved \cup {email}
    /\ isEmailVerified' = (isEmailVerified \/ currentEmail = email)
    /\ isVerifying' = FALSE
    /\ verifying' = verifying \ {email}
    /\ UNCHANGED <<form, refs, isUserIdAvailable, isEmailCodeSent, cooldown, checking, sending,
                   foundAvailable, submission>>

CodeRefused(email) ==
    /\ isVerifying' = FALSE
    /\ verifying' = verifying \ {email}
    /\ UNCHANGED <<form, refs, isUserIdAvailable, isEmailCodeSent, isEmailVerified, cooldown,
                   checking, sending, answers, submission>>

\* The button wants both checks and a complete form.
Submit ==
    /\ submission = EmptyForm
    /\ isUserIdAvailable /\ isEmailVerified
    /\ form.userId # "" /\ form.email # ""
    /\ submission' = form
    /\ UNCHANGED <<form, refs, isUserIdAvailable, isEmailCodeSent, isEmailVerified, isVerifying,
                   cooldown, asked, answers>>

\* Accepted: the form is emptied, whatever it holds by now, but not the refs. The server
\* has used up the code.
Submitted ==
    /\ submission # EmptyForm /\ submission' = EmptyForm
    /\ form' = EmptyForm /\ isUserIdAvailable' = FALSE
    /\ ResetsVerification
    /\ proved' = proved \ {submission.email}
    /\ foundAvailable' = foundAvailable \ {submission.userId}
    /\ UNCHANGED <<refs, asked>>

SubmitFails ==
    /\ submission # EmptyForm /\ submission' = EmptyForm
    /\ UNCHANGED <<form, refs, isUserIdAvailable, isEmailCodeSent, isEmailVerified, isVerifying,
                   cooldown, asked, answers>>

SignupPageNext ==
    \/ TypeUserId \/ TypeEmail \/ CheckUserId \/ SendCode \/ CooldownEnds \/ VerifyCode
    \/ \E id \in checking : UserIdChecked(id)
    \/ \E email \in sending : CodeSent(email)
    \/ \E email \in verifying : CodeVerified(email) \/ CodeRefused(email)
    \/ Submit \/ Submitted \/ SubmitFails

SignupPageSpec == SignupPageInit /\ [][SignupPageNext]_signupPageVars

\* The form is edited while its checks are under way and answers come late, but what is
\* submitted has been checked: the server's last word on this user ID is that it is
\* available, and it has seen a code of this very address that is not used up.
SubmitsWhatWasChecked ==
    submission' \notin {submission, EmptyForm} =>
        /\ submission'.userId \in foundAvailable
        /\ submission'.email \in proved
=============================================================================
