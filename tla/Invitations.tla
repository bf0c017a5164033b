----------------------------- MODULE Invitations -----------------------------
(***************************************************************************)
(* The invitations of one address to one organisation, and the account     *)
(* that an invitation leads to.  Nothing here runs in a transaction: each  *)
(* handler finds, checks and then writes by id, one call after the other.  *)
(* The checks on the inviter and on the role change nothing and are left   *)
(* out: they only refuse.  Mail is left out too: it is sent last, and a    *)
(* failure of it is answered with success.                                 *)
(*                                                                         *)
(* Names are told apart from those of Sessions, so that a module may       *)
(* extend both.                                                            *)
(***************************************************************************)
EXTENDS Slots, Naturals, Sequences

CONSTANT MaxInv   \* bound on the invitations that are ever made

ASSUME MaxInvNat == MaxInv \in Nat

VARIABLES
    org,     \* does the organisation exist?
    user,    \* does an account with the address exist in it?
    inv,     \* the invitations, in the order in which they were made
    at,      \* for each slot, the invitation its request found, or 0
    alone    \* history: have requests only run one after the other so far?

inviteVars == <<org, user, inv, pc, at, alone>>

---------------------------------------------------------------------------
Statuses == { "PENDING", "ACCEPTED", "EXPIRED", "CANCELLED" }

\* expired: expires_at is past.  History: an account was made through the
\* invitation (used), the request that did failed right after (lost), it was
\* accepted or cancelled at some time (closed).
Invitation ==
    [status : Statuses, expired : BOOLEAN, used : BOOLEAN, lost : BOOLEAN, closed : BOOLEAN]

InviteCalls == { "idle", "createOrg", "findUser", "findLatest", "create", "replace",
           "expire", "account", "accept", "cancel", "addUser" }

InviteTypeOK ==
    /\ org \in BOOLEAN
    /\ user \in BOOLEAN
    /\ inv \in Seq(Invitation)
    /\ Len(inv) <= MaxInv
    /\ user \/ inv # <<>> => org
    /\ pc \in [Requests -> InviteCalls]
    /\ at \in [Requests -> 0 .. MaxInv]
    /\ \A q \in Requests :
          pc[q] \in { "replace", "expire", "account", "accept", "cancel" } => at[q] \in DOMAIN inv
    /\ alone \in BOOLEAN

---------------------------------------------------------------------------
\* Arriving, with the call that finds what the request is about; going on to
\* the next call; being done

Arrive(q, call, i) ==
    /\ pc[q] = "idle"
    /\ pc' = [pc EXCEPT ![q] = call]
    /\ at' = [at EXCEPT ![q] = i]
    /\ alone' = (alone /\ \A p \in Requests : pc[p] = "idle")
    /\ UNCHANGED <<org, user, inv>>

GoOn(q, call) ==
    /\ pc' = [pc EXCEPT ![q] = call]
    /\ at' = [at EXCEPT ![q] = IF call = "idle" THEN 0 ELSE @]
    /\ UNCHANGED alone

Marked(row, s) ==
    [row EXCEPT !.status = s, !.closed = @ \/ s \in { "ACCEPTED", "CANCELLED" }]

\* An update of the status by id, whatever it has become.
SetStatus(q, s) == inv' = [inv EXCEPT ![at[q]] = Marked(@, s)]

---------------------------------------------------------------------------
\* sendInvitation

\* A super administrator may name an organisation that is to be made.
SendBegin(q) == Arrive(q, IF org THEN "findUser" ELSE "createOrg", 0)

CreateOrg(q) ==
    /\ pc[q] = "createOrg" /\ ~org
    /\ org' = TRUE
    /\ GoOn(q, "findUser")
    /\ UNCHANGED <<user, inv>>

FindUser(q) ==
    /\ pc[q] = "findUser" /\ ~user
    /\ GoOn(q, "findLatest")
    /\ UNCHANGED <<org, user, inv>>

FindAny(q) ==
    /\ pc[q] = "findLatest"
    /\ GoOn(q, "create")
    /\ UNCHANGED <<org, user, inv>>

\* Only the latest invitation is looked at.
FindLatest(q) ==
    /\ pc[q] = "findLatest"
    /\ inv # <<>> => inv[Len(inv)].status # "PENDING"
    /\ GoOn(q, "create")
    /\ UNCHANGED <<org, user, inv>>

Create(q) ==
    /\ pc[q] = "create" /\ Len(inv) < MaxInv
    /\ inv' = Append(inv, [status |-> "PENDING", expired |-> FALSE, used |-> FALSE,
                           lost |-> FALSE, closed |-> FALSE])
    /\ GoOn(q, "idle")
    /\ UNCHANGED <<org, user>>

---------------------------------------------------------------------------
\* resendInvitation, which goes on to Create, and cancelInvitation

ResendBegin(q) ==
    \E i \in DOMAIN inv : inv[i].status = "PENDING" /\ Arrive(q, "replace", i)

Replace(q) ==
    /\ pc[q] = "replace"
    /\ SetStatus(q, "CANCELLED")
    /\ GoOn(q, "create")
    /\ UNCHANGED <<org, user>>

CancelBeginAny(q) == \E i \in DOMAIN inv : Arrive(q, "cancel", i)

CancelBegin(q) ==
    \E i \in DOMAIN inv : inv[i].status # "ACCEPTED" /\ Arrive(q, "cancel", i)

Cancel(q) ==
    /\ pc[q] = "cancel"
    /\ SetStatus(q, "CANCELLED")
    /\ GoOn(q, "idle")
    /\ UNCHANGED <<org, user>>

---------------------------------------------------------------------------
\* validateInvitationToken and completeInvitation.  Both look at expires_at
\* before they look at the status, and mark what is past.

ExpireBegin(q) ==
    \E i \in DOMAIN inv : inv[i].expired /\ Arrive(q, "expire", i)

Expire(q) ==
    /\ pc[q] = "expire"
    /\ SetStatus(q, "EXPIRED")
    /\ GoOn(q, "idle")
    /\ UNCHANGED <<org, user>>

CompleteBeginLate(q) ==
    \E i \in DOMAIN inv :
        inv[i].status \notin { "ACCEPTED", "CANCELLED" } /\ Arrive(q, "account", i)

CompleteBegin(q) ==
    \E i \in DOMAIN inv :
        /\ ~inv[i].expired
        /\ inv[i].status \notin { "ACCEPTED", "CANCELLED" }
        /\ Arrive(q, "account", i)

\* The address is unique in the organisation.
CreateAccount(q) ==
    /\ pc[q] = "account" /\ ~user
    /\ user' = TRUE
    /\ inv' = [inv EXCEPT ![at[q]].used = TRUE]
    /\ GoOn(q, "accept")
    /\ UNCHANGED org

Accept(q) ==
    /\ pc[q] = "accept"
    /\ SetStatus(q, "ACCEPTED")
    /\ GoOn(q, "idle")
    /\ UNCHANGED <<org, user>>

---------------------------------------------------------------------------
\* UsersService: an administrator makes an account with the address, or gives
\* it to one; deletes it, or takes the address from it.

AddUserBegin(q) == org /\ ~user /\ Arrive(q, "addUser", 0)

AddUser(q) ==
    /\ pc[q] = "addUser" /\ ~user
    /\ user' = TRUE
    /\ GoOn(q, "idle")
    /\ UNCHANGED <<org, inv>>

RemoveUser ==
    /\ user
    /\ user' = FALSE
    /\ UNCHANGED <<org, inv, pc, at, alone>>

---------------------------------------------------------------------------
\* 48 hours pass, for one invitation at a time.
LinkExpires ==
    \E i \in DOMAIN inv :
        /\ inv' = [inv EXCEPT ![i].expired = TRUE]
        /\ UNCHANGED <<org, user, pc, at, alone>>

\* A check that refuses, a call that fails, a restart.
BreakOff(q) ==
    /\ pc[q] # "idle"
    /\ inv' = IF pc[q] = "accept" THEN [inv EXCEPT ![at[q]].lost = TRUE] ELSE inv
    /\ GoOn(q, "idle")
    /\ UNCHANGED <<org, user>>

---------------------------------------------------------------------------
InviteStep(q) ==
    \/ SendBegin(q) \/ CreateOrg(q) \/ FindUser(q) \/ FindLatest(q) \/ Create(q)
    \/ ResendBegin(q) \/ Replace(q)
    \/ CancelBegin(q) \/ Cancel(q)
    \/ ExpireBegin(q) \/ Expire(q)
    \/ CompleteBegin(q) \/ CreateAccount(q) \/ Accept(q)
    \/ AddUserBegin(q) \/ AddUser(q)
    \/ BreakOff(q)

InviteInit ==
    /\ org \in BOOLEAN
    /\ user = FALSE
    /\ inv = <<>>
    /\ pc = [q \in Requests |-> "idle"]
    /\ at = [q \in Requests |-> 0]
    /\ alone = TRUE

InviteNext ==
    \/ \E q \in Requests : InviteStep(q)
    \/ RemoveUser \/ LinkExpires

InviteSpec == InviteInit /\ [][InviteNext]_inviteVars

---------------------------------------------------------------------------
\* Properties

\* An invitation that was accepted or cancelled is closed for good: whatever a
\* late update makes of its status, nobody may begin to use it again.
ClosedStaysClosed ==
    [][\A q \in Requests :
          pc[q] = "idle" /\ pc'[q] = "account" => ~inv[at'[q]].closed]_inviteVars

\* The schema leaves it to the code that at most one invitation is pending.
OnePending ==
    \A i, j \in DOMAIN inv :
        inv[i].status = "PENDING" /\ inv[j].status = "PENDING" => i = j

\* It is so while requests do not overlap, whichever of them fail halfway.
OnePendingAlone == alone => OnePending

\* An invitation that led to an account stays accepted: cancelInvitation refuses
\* it, and resendInvitation too.  It holds while requests do not overlap, once
\* the request that made the account has come to its end, and until the link
\* expires: opening it then makes EXPIRED of it, which may be cancelled.
AcceptanceKeptAlone ==
    alone =>
      \A i \in DOMAIN inv :
          \/ ~inv[i].used \/ inv[i].lost
          \/ inv[i].status = "ACCEPTED"
          \/ inv[i].expired /\ inv[i].status # "PENDING"
          \/ \E q \in Requests : pc[q] = "accept" /\ at[q] = i

=============================================================================
