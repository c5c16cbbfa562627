--------------------------- MODULE PasswordReset ---------------------------
(***************************************************************************)
(* The password reset of the auth service: a code is mailed to the address *)
(* of an account, verifying it mints a reset token, and the token changes  *)
(* the password once.  One account, its owner; the token is a JWT, which   *)
(* nothing revokes before it lapses.                                       *)
(***************************************************************************)
EXTENDS EmailCodes

CONSTANT ResetTokenTtl    \* ticks a reset token is valid, 15 min in the code

ASSUME ResetAssumption == ResetTokenTtl \in Nat \ {0} /\ ResetTokenTtl <= VerifiedWindow

VARIABLES ownerActive,   \* users.is_active of the account
          tokens,        \* the reset tokens minted: [row, until]
          resets         \* the rows the password was changed by, oldest first

resetVars == <<codeVars, ownerActive, tokens, resets>>

ResetInit == CodesInit /\ ownerActive = TRUE /\ tokens = {} /\ resets = <<>>

\* requestPasswordResetCode: cleans the table, then looks for an active account. Whatever
\* happens, the answer is the same.
BeginRequestReset(c) ==
    /\ calls[c] = Idle
    /\ codes' = KeptCodes
    /\ \E form \in Forms :
          calls' = [calls EXCEPT ![c] = IF ownerActive
              THEN [Idle EXCEPT !.step = "store code", !.now = clock, !.form = form]
              ELSE Idle]
    /\ UNCHANGED <<clock, guesses, ownerActive, tokens, resets>>

ResetCode(c) ==
    /\ StoreCode(c) \/ MailCode(c) \/ BeginVerifyCode(c) \/ ClaimAttempt(c)
    /\ UNCHANGED <<ownerActive, tokens, resets>>

\* The handler that consumes the code mints the token.
MintResetToken(c) ==
    /\ ConsumeCode(c)
    /\ tokens' = tokens \cup
         {[row |-> r.id, until |-> clock + ResetTokenTtl] : r \in Consumable(calls[c].row)}
    /\ UNCHANGED <<ownerActive, resets>>

\* confirmPasswordReset: a valid token whose verified row is still there.
BeginConfirmReset(c) ==
    /\ calls[c] = Idle
    /\ \E t \in tokens :
          /\ clock < t.until
          /\ \E r \in codes : r.id = t.row /\ r.consumedAt # 0
          /\ calls' = [calls EXCEPT ![c] = [Idle EXCEPT !.step = "read owner", !.row = t.row]]
    /\ UNCHANGED <<clock, codes, guesses, ownerActive, tokens, resets>>

ReadOwner(c) ==
    /\ calls[c].step = "read owner"
    /\ IF ownerActive THEN GoesOn(c, "change password") ELSE Answered(c)
    /\ UNCHANGED <<clock, codes, guesses, ownerActive, tokens, resets>>

\* The transaction deletes the row first: whoever deletes it changes the password.
DeletesRow(c) == \E r \in codes : r.id = calls[c].row

ConfirmReset(c) ==
    /\ calls[c].step = "change password"
    /\ codes' = {r \in codes : r.id # calls[c].row}
    /\ resets' = IF DeletesRow(c) THEN Append(resets, calls[c].row) ELSE resets
    /\ Answered(c)
    /\ UNCHANGED <<clock, guesses, ownerActive, tokens>>

\* An administrator takes the account out of use, or back.
SetOwnerActive ==
    /\ ownerActive' = ~ownerActive
    /\ UNCHANGED <<codeVars, tokens, resets>>

\* The maintenance that the server runs every hour cleans the rows of both purposes.
CleanCodes ==
    /\ codes' = KeptCodes
    /\ UNCHANGED <<clock, calls, guesses, ownerActive, tokens, resets>>

ResetTick == Tick /\ UNCHANGED <<ownerActive, tokens, resets>>

ResetNext ==
    \/ \E c \in Callers :
          \/ BeginRequestReset(c) \/ ResetCode(c) \/ MintResetToken(c)
          \/ BeginConfirmReset(c) \/ ReadOwner(c) \/ ConfirmReset(c)
    \/ SetOwnerActive \/ CleanCodes \/ ResetTick

ResetSpec == ResetInit /\ [][ResetNext]_resetVars

\* However the confirmations of one token interleave, its code changes the password once.
ResetCodesAreSpentOnce == \A i, j \in 1..Len(resets) : resets[i] = resets[j] => i = j
=============================================================================
