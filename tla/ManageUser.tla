----------------------------- MODULE ManageUser -----------------------------
(***************************************************************************)
(* The modal in which a super administrator manages an account on the      *)
(* settings page: its detail is loaded when the modal opens, six requests  *)
(* can be sent from it, and their answers change the modal that is open by *)
(* then.  Field contents and messages are left out; the list is in module  *)
(* Listings.                                                               *)
(***************************************************************************)
EXTENDS Naturals, FiniteSets

CONSTANTS Users, Own,     \* the accounts; the one of the administrator
          MaxDetails      \* bound

ASSUME ManageAssumption == Own \in Users /\ MaxDetails \in Nat \ {0}

VARIABLES modal,      \* isManageModalOpen
          target,     \* selectedUserId
          detail,     \* the user of selectedUser and of the forms, NoUser for null
          loading,    \* isDetailLoading
          latest,     \* detailRequestId
          details,    \* the requests for a detail under way: [id, user, save]
          confirm,    \* the confirmation dialog that is open, "none" for none
          busy,       \* the other requests under way: [op, user, step]
          verified,   \* isCurrentPasswordVerified
          crossed     \* a decision has closed a modal that was saving

manageVars == <<modal, target, detail, loading, latest, details, confirm, busy, verified, crossed>>

NoUser == "no user"

ManageInit ==
    /\ modal = FALSE /\ target = NoUser /\ detail = NoUser /\ loading = FALSE
    /\ latest = 0 /\ details = {}
    /\ confirm = "none" /\ busy = {} /\ verified = FALSE /\ crossed = FALSE

Ops == {r.op : r \in busy}
Deciding == {"activate", "deactivate"}
CanManage == ~loading /\ detail # NoUser /\ detail = target

\* loadUserDetail
LoadDetail(user, save) ==
    /\ latest < MaxDetails
    /\ latest' = latest + 1
    /\ details' = details \cup {[id |-> latest + 1, user |-> user, save |-> save]}
    /\ detail' = NoUser /\ loading' = TRUE

\* The cleanup of the effect makes the answers under way late.
HidesModal ==
    /\ modal' = FALSE
    /\ latest' = IF modal THEN latest + 1 ELSE latest

\* openManageModal, and the effect that follows.
OpenModal ==
    /\ ~modal
    /\ \E user \in Users : target' = user /\ LoadDetail(user, FALSE)
    /\ modal' = TRUE
    /\ UNCHANGED <<confirm, busy, verified, crossed>>

\* The save that asked for a detail is over when it comes, even when it is not shown.
SaveIsOver(load) == busy' = IF load.save THEN {r \in busy : r.op # "update"} ELSE busy

\* Mutant: any answer fills the modal.
DetailAnsweredLate(load) ==
    /\ details' = details \ {load}
    /\ SaveIsOver(load)
    /\ detail' \in {load.user, NoUser} /\ loading' = FALSE
    /\ verified' = (verified /\ detail' = NoUser)
    /\ UNCHANGED <<modal, target, latest, confirm, crossed>>

DetailAnswered(load) ==
    /\ details' = details \ {load}
    /\ SaveIsOver(load)
    /\ IF load.id = latest
       THEN /\ detail' \in {load.user, NoUser} /\ loading' = FALSE
            /\ verified' = (verified /\ detail' = NoUser)
       ELSE UNCHANGED <<detail, loading, verified>>
    /\ UNCHANGED <<modal, target, latest, confirm, crossed>>

\* closeManageModal
CloseModal ==
    /\ modal /\ Ops \subseteq {"verify"}
    /\ HidesModal
    /\ confirm' = "none" /\ verified' = FALSE
    /\ UNCHANGED <<target, detail, loading, details, busy, crossed>>

\* handleEscapeKey closes a dialog that is not busy, otherwise the modal, which need not
\* be idle: only three of its requests are asked about.
PressEscape ==
    /\ \/ /\ confirm # "none" /\ confirm \notin Ops
          /\ confirm' = "none"
          /\ UNCHANGED <<modal, latest>>
       \/ /\ confirm = "none" \/ confirm \in Ops
          /\ modal /\ Ops \cap {"update", "change", "reset"} = {}
          /\ HidesModal
          /\ UNCHANGED confirm
    /\ UNCHANGED <<target, detail, loading, details, busy, verified, crossed>>

(* --- what the modal and the dialog offer ----------------------------------- *)

\* The modal shows an account once its detail is there. The dialog, which names the account
\* of the detail, covers all but the form of the own account.
AccountShown == modal /\ CanManage
DialogCovers == confirm # "none" /\ detail # NoUser

\* Its forms: of any account, of the own one, and of another one; the button that activates
\* or deactivates another account.
EditForm == AccountShown /\ ~DialogCovers
OwnPasswordForm == AccountShown /\ target = Own
ResetForm == AccountShown /\ ~DialogCovers /\ target # Own
DecisionButton == AccountShown /\ ~DialogCovers /\ target # Own /\ Ops \cap Deciding = {}

\* openActivateConfirmModal, openDeactivateConfirmModal
AskToConfirm ==
    /\ DecisionButton
    /\ confirm' \in Deciding
    /\ UNCHANGED <<modal, target, detail, loading, latest, details, busy, verified, crossed>>

\* closeActivateConfirmModal, closeDeactivateConfirmModal
CloseDialog ==
    /\ DialogCovers /\ Ops \cap Deciding = {}
    /\ confirm' = "none"
    /\ UNCHANGED <<modal, target, detail, loading, latest, details, busy, verified, crossed>>

Send(op) ==
    /\ op \notin Ops
    /\ busy' = busy \cup {[op |-> op, user |-> target, step |-> "sent"]}
    /\ UNCHANGED <<modal, target, detail, loading, latest, details, confirm, crossed>>

\* handleActivateUser, handleDeactivateUser: the dialog outlives its modal.
Decide == CanManage /\ DialogCovers /\ Send(confirm) /\ UNCHANGED verified

\* handleUpdateUser, handleResetUserPassword
UpdateUser == EditForm /\ Send("update") /\ UNCHANGED verified
ResetPassword == ResetForm /\ Send("reset") /\ UNCHANGED verified

\* handleVerifyCurrentPassword, handleUpdatePassword
VerifyPassword == OwnPasswordForm /\ ~verified /\ Send("verify") /\ UNCHANGED verified
ChangePassword == OwnPasswordForm /\ verified /\ Send("change") /\ UNCHANGED verified

PasswordVerified(r) ==
    /\ r.op = "verify" /\ busy' = busy \ {r}
    /\ verified' \in BOOLEAN
    /\ UNCHANGED <<modal, target, detail, loading, latest, details, confirm, crossed>>

\* A request fails, or was one after which nothing else happens.
Settles(r) ==
    /\ r.step = "sent" /\ r.op # "verify"
    /\ busy' = busy \ {r}
    /\ verified' \in {verified} \cup (IF r.op = "change" THEN {FALSE} ELSE {})
    /\ UNCHANGED <<modal, target, detail, loading, latest, details, confirm, crossed>>

\* Updated: the list is loaded, and then the detail of the account that was updated.
Updated(r) ==
    /\ r.op = "update"
    /\ \/ /\ r.step = "sent"
          /\ busy' = (busy \ {r}) \cup {[r EXCEPT !.step = "list"]}
          /\ UNCHANGED <<detail, loading, latest, details>>
       \/ /\ r.step = "list"
          /\ busy' = (busy \ {r}) \cup {[r EXCEPT !.step = "detail"]}
          /\ LoadDetail(r.user, TRUE)
    /\ UNCHANGED <<modal, target, confirm, verified, crossed>>

\* Activated or deactivated: the dialog and the modal close, then the list is loaded.
UserDecided(r) ==
    /\ r.op \in Deciding
    /\ \/ /\ r.step = "sent"
          /\ busy' = (busy \ {r}) \cup {[r EXCEPT !.step = "list"]}
          /\ confirm' = IF confirm = r.op THEN "none" ELSE confirm
          /\ HidesModal
          /\ crossed' = (crossed \/ "update" \in Ops)
       \/ /\ r.step = "list"
          /\ busy' = busy \ {r}
          /\ UNCHANGED <<modal, latest, confirm, crossed>>
    /\ UNCHANGED <<target, detail, loading, details, verified>>

ManageNext ==
    \/ OpenModal \/ CloseModal \/ PressEscape \/ AskToConfirm \/ CloseDialog \/ Decide
    \/ UpdateUser \/ ResetPassword \/ VerifyPassword \/ ChangePassword
    \/ \E load \in details : DetailAnswered(load)
    \/ \E r \in busy : PasswordVerified(r) \/ Settles(r) \/ Updated(r) \/ UserDecided(r)

ManageSpec == ManageInit /\ [][ManageNext]_manageVars

\* Modals are opened and closed while details, saves and decisions are under way, and no
\* late answer fills the modal with another account than the one it was opened for. It can
\* after a decision has closed a modal that was still saving: what was saved is then
\* loaded into the modal that is open by that time.
DetailIsOfTheUserOpened ==
    (modal /\ ~loading /\ ~crossed) => detail \in {target, NoUser}
=============================================================================
