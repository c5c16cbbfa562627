------------------------------ MODULE ResetPage ------------------------------
(***************************************************************************)
(* The page on which somebody who forgot a password gets another: an       *)
(* address, the code mailed to it, and the new password, one step after    *)
(* the other.  Requests are answered late; what is typed meanwhile is not  *)
(* locked.  The server is in PasswordReset: here an answer succeeds or     *)
(* fails.                                                                  *)
(***************************************************************************)
EXTENDS Naturals, FiniteSets

CONSTANTS Boxes,        \* mail addresses
          Wait,         \* DEFAULT_RESEND_COOLDOWN_SECONDS
          MaxMailed     \* bound on the codes asked for

ASSUME ResetPageAssumption == {Wait, MaxMailed} \subseteq Nat \ {0}

VARIABLES step,            \* "email", "code", "reset" or "done"
          box, filled,     \* the address typed; whether six digits are in the code field
          equal,           \* the two passwords are long enough and the same
          wait,            \* resendCooldown
          sendsTo, verifies, resetting,    \* the requests under way, by what was sent
          proof,           \* resetToken, as the address whose code was verified
          mailed,          \* the addresses that codes were asked for, in number
          changed,         \* the address whose password was changed, or none
          retyped          \* the address was edited while its code was asked for

resetPageVars == <<step, box, filled, equal, wait, sendsTo, verifies, resetting, proof, mailed,
                   changed, retyped>>

NoBox == "none"
typing == <<box, filled, equal, retyped>>
underWay == <<sendsTo, verifies, resetting>>

ResetPageInit ==
    /\ step = "email" /\ box = NoBox /\ filled = FALSE /\ equal = FALSE /\ wait = 0
    /\ sendsTo = {} /\ verifies = {} /\ resetting = {}
    /\ proof = NoBox /\ mailed = [b \in Boxes |-> 0] /\ changed = NoBox /\ retyped = FALSE

\* The field stays enabled while the code is asked for.
TypeAddress ==
    /\ step = "email"
    /\ \E b \in Boxes \ {box} : box' = b
    /\ retyped' = (retyped \/ sendsTo # {})
    /\ UNCHANGED <<step, filled, equal, wait, underWay, proof, mailed, changed>>

TypeCode ==
    /\ step = "code" /\ filled' = ~filled
    /\ UNCHANGED <<step, box, equal, wait, underWay, proof, mailed, changed, retyped>>

TypePasswords ==
    /\ step = "reset" /\ equal' = ~equal
    /\ UNCHANGED <<step, box, filled, wait, underWay, proof, mailed, changed, retyped>>

\* handleSendCode, or handleResendCode, whose button waits.
SendCodeTo ==
    /\ sendsTo = {} /\ box # NoBox
    /\ \/ step = "email"
       \/ step = "code" /\ wait = 0
    /\ mailed[box] < MaxMailed
    /\ mailed' = [mailed EXCEPT ![box] = @ + 1]
    /\ sendsTo' = {[to |-> box, from |-> step]}
    /\ UNCHANGED <<step, typing, wait, verifies, resetting, proof, changed>>

\* Only the first form goes on to the next step.
CodeIsSent ==
    /\ \E send \in sendsTo :
          /\ sendsTo' = sendsTo \ {send}
          /\ \/ step' = (IF send.from = "email" THEN "code" ELSE step) /\ wait' = Wait
             \/ UNCHANGED <<step, wait>>
    /\ UNCHANGED <<typing, verifies, resetting, proof, mailed, changed>>

WaitPasses ==
    /\ wait > 0 /\ wait' = wait - 1
    /\ UNCHANGED <<step, typing, underWay, proof, mailed, changed>>

\* handleVerifyCode, also while another code is on its way.
VerifyCodeTyped ==
    /\ step = "code" /\ filled /\ verifies = {}
    /\ verifies' = {box}
    /\ UNCHANGED <<step, typing, wait, sendsTo, resetting, proof, mailed, changed>>

CodeIsVerified ==
    /\ \E b \in verifies :
          /\ verifies' = {}
          /\ \/ step' = "reset" /\ proof' = b /\ mailed[b] > 0
             \/ UNCHANGED <<step, proof>>
    /\ UNCHANGED <<typing, wait, sendsTo, resetting, mailed, changed>>

\* handleResetPassword
ResetsPassword ==
    /\ step = "reset" /\ equal /\ resetting = {}
    /\ resetting' = {proof}
    /\ UNCHANGED <<step, typing, wait, sendsTo, verifies, proof, mailed, changed>>

PasswordIsReset ==
    /\ \E b \in resetting :
          /\ resetting' = {}
          /\ \/ step' = "done" /\ changed' = b
             \/ UNCHANGED <<step, changed>>
    /\ UNCHANGED <<typing, wait, sendsTo, verifies, proof, mailed>>

ResetPageNext ==
    \/ TypeAddress \/ TypeCode \/ TypePasswords \/ SendCodeTo \/ CodeIsSent \/ WaitPasses
    \/ VerifyCodeTyped \/ CodeIsVerified \/ ResetsPassword \/ PasswordIsReset

ResetPageSpec == ResetPageInit /\ [][ResetPageNext]_resetPageVars

\* The page never goes back a step, whatever answer comes last.
GoesForward ==
    <<step, step'>> \in {<<"email", "code">>, <<"code", "reset">>, <<"reset", "done">>}

\* The password the page changes is that of the address it shows, whose code was verified;
\* and the address it asks a code of is one that a code was mailed to, unless it was edited
\* while the code was asked for.
ResetsTheAddressShown ==
    /\ changed \in {NoBox, box}
    /\ step \in {"reset", "done"} => proof = box
    /\ step = "code" => retyped \/ mailed[box] > 0
=============================================================================
