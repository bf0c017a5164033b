------------------------------ MODULE Sessions ------------------------------
(***************************************************************************)
(* The refresh tokens of one user: AuthService with AuthController.  The   *)
(* browsers of the user keep the token in a cookie that their tabs share.  *)
(* A request holds a slot of Requests from its arrival to the moment its   *)
(* response is handled; each database call is one step, and nothing here   *)
(* runs in a transaction.                                                  *)
(*                                                                         *)
(* A token is known by the order in which it was issued.  Access tokens,   *)
(* signatures and hashes are left out: a client presents only tokens the   *)
(* server gave it.  Other clients behave like these (mobile ones keep the  *)
(* token themselves and send it in the body).                              *)
(***************************************************************************)
EXTENDS Slots, Naturals, FiniteSets

CONSTANTS
    Clients,   \* the browsers the user is logged in with
    Nobody,    \* the client of a free slot
    MaxToken   \* bound: refresh tokens issued

ASSUME ClientAssumption == Nobody \notin Clients
ASSUME TokenAssumption == MaxToken \in Nat

VARIABLES
    token,    \* refresh_tokens, by order of issue
    issued,   \* how many were issued
    account,  \* users: is_active, and whether a reset_token is valid
    cookie,   \* each client's refresh token, 0 for none
    req       \* for each slot, the local variables of its request

vars == <<token, issued, account, cookie, pc, req>>

---------------------------------------------------------------------------
Tokens == 1..MaxToken

\* recent: revoked in the last 30 seconds.  from is no column: the token that
\* was rotated into this one, 0 after a login.
Token == [state : { "none", "live", "revoked", "deleted" }, recent : BOOLEAN,
          expired : BOOLEAN, replacedBy : 0..MaxToken, from : 0..MaxToken]

NoToken == [state |-> "none", recent |-> FALSE, expired |-> FALSE,
            replacedBy |-> 0, from |-> 0]

Calls == { "idle", "issue", "find", "replacement", "revokeAll", "revoke",
           "logout", "setPassword", "deleteAll", "answer" }

Request == [kind : { "none", "login", "refresh", "logout", "reset" },
            client : Clients \cup {Nobody}, old : 0..MaxToken, new : 0..MaxToken]

NoRequest == [kind |-> "none", client |-> Nobody, old |-> 0, new |-> 0]

TypeOK ==
    /\ token \in [Tokens -> Token]
    /\ issued \in 0..MaxToken
    /\ account \in [active : BOOLEAN, reset : BOOLEAN]
    /\ cookie \in [Clients -> 0..MaxToken]
    /\ pc \in [Requests -> Calls]
    /\ req \in [Requests -> Request]

---------------------------------------------------------------------------
Start(q, r, call) ==
    /\ pc[q] = "idle"
    /\ req' = [req EXCEPT ![q] = r]
    /\ pc' = [pc EXCEPT ![q] = call]

Goto(q, call) ==
    /\ pc' = [pc EXCEPT ![q] = call]
    /\ UNCHANGED req

\* The answer is an error, which leaves the cookie alone.
Finish(q) ==
    /\ pc' = [pc EXCEPT ![q] = "idle"]
    /\ req' = [req EXCEPT ![q] = NoRequest]

\* updateMany({revokedAt: null}): a revoked row keeps its date and its link.
Revoked(t) == IF t.state = "live" THEN [t EXCEPT !.state = "revoked", !.recent = TRUE] ELSE t

---------------------------------------------------------------------------
\* Logging in: validateUser, then issueRefreshToken

LoginBegin(q) ==
    /\ account.active
    /\ \E c \in Clients :
         Start(q, [NoRequest EXCEPT !.kind = "login", !.client = c], "issue")
    /\ UNCHANGED <<token, issued, account, cookie>>

\* refreshToken.create: the last call of a login, the third of a rotation.
Issue(q) ==
    /\ pc[q] = "issue"
    /\ issued < MaxToken
    /\ issued' = issued + 1
    /\ token' = [token EXCEPT ![issued + 1] =
                    [NoToken EXCEPT !.state = "live", !.from = req[q].old]]
    /\ req' = [req EXCEPT ![q].new = issued + 1]
    /\ pc' = [pc EXCEPT ![q] = IF req[q].kind = "login" THEN "answer" ELSE "revoke"]
    /\ UNCHANGED <<account, cookie>>

---------------------------------------------------------------------------
\* Rotating a refresh token

\* The JWT of an expired token does not verify, and no call is made.
RefreshBegin(q) ==
    /\ \E c \in Clients :
         /\ cookie[c] # 0
         /\ ~token[cookie[c]].expired
         /\ Start(q, [NoRequest EXCEPT !.kind = "refresh", !.client = c, !.old = cookie[c]],
                  "find")
    /\ UNCHANGED <<token, issued, account, cookie>>

\* refreshToken.findUnique with the user.  A token revoked less than 30
\* seconds ago in favour of another is tolerated; the account need not be
\* active then.
FindToken(q) ==
    LET t == token[req[q].old]
    IN /\ pc[q] = "find"
       /\ \/ /\ t.state = "revoked" /\ t.recent /\ t.replacedBy # 0
             /\ req' = [req EXCEPT ![q].new = t.replacedBy]
             /\ pc' = [pc EXCEPT ![q] = "replacement"]
          \/ /\ t.state = "revoked" /\ ~(t.recent /\ t.replacedBy # 0)
             /\ Goto(q, "revokeAll")
          \/ /\ t.state = "live" /\ ~t.expired /\ account.active
             /\ Goto(q, "issue")
          \/ /\ t.state = "deleted" \/ (t.state = "live" /\ (t.expired \/ ~account.active))
             /\ Finish(q)
       /\ UNCHANGED <<token, issued, account, cookie>>

\* A replacement that is alive: the old token is the answer once more.
FindReplacement(q) ==
    LET t == token[req[q].new]
    IN /\ pc[q] = "replacement"
       /\ IF t.state = "live" /\ ~t.expired
          THEN /\ req' = [req EXCEPT ![q].new = req[q].old]
               /\ pc' = [pc EXCEPT ![q] = "answer"]
          ELSE /\ req' = [req EXCEPT ![q].new = 0]
               /\ pc' = [pc EXCEPT ![q] = "revokeAll"]
       /\ UNCHANGED <<token, issued, account, cookie>>

\* revokeAllUserSessions, and 401.
RevokeAll(q) ==
    /\ pc[q] = "revokeAll"
    /\ token' = [j \in Tokens |-> Revoked(token[j])]
    /\ Finish(q)
    /\ UNCHANGED <<issued, account, cookie>>

\* The old token once revoked in favour of the new one.  Having been revoked
\* before makes no difference.
Rotated(t, new) ==
    [t EXCEPT !.state = "revoked", !.recent = TRUE, !.replacedBy = new]

RevokeLenient(q) ==
    LET old == req[q].old
    IN /\ pc[q] = "revoke"
       /\ token' = IF token[old].state = "deleted" THEN token
                   ELSE [token EXCEPT ![old] = Rotated(@, req[q].new)]
       /\ Goto(q, "answer")
       /\ UNCHANGED <<issued, account, cookie>>

RevokeSwapped(q) ==
    LET new == req[q].new
    IN /\ pc[q] = "revoke"
       /\ IF token[req[q].old].state = "deleted"
          THEN Finish(q) /\ UNCHANGED token
          ELSE /\ token' = [token EXCEPT ![new] = Rotated(@, req[q].old)]
               /\ Goto(q, "answer")
       /\ UNCHANGED <<issued, account, cookie>>

\* refreshToken.update of the old token, which fails when it was deleted
\* since: 401, and nobody gets the token issued.
Revoke(q) ==
    LET old == req[q].old
    IN /\ pc[q] = "revoke"
       /\ IF token[old].state = "deleted"
          THEN Finish(q) /\ UNCHANGED token
          ELSE /\ token' = [token EXCEPT ![old] = Rotated(@, req[q].new)]
               /\ Goto(q, "answer")
       /\ UNCHANGED <<issued, account, cookie>>

---------------------------------------------------------------------------
\* Logging out

LogoutBegin(q) ==
    /\ \E c \in Clients :
         Start(q, [NoRequest EXCEPT !.kind = "logout", !.client = c, !.old = cookie[c]],
               IF cookie[c] = 0 \/ token[cookie[c]].expired THEN "answer" ELSE "logout")
    /\ UNCHANGED <<token, issued, account, cookie>>

Logout(q) ==
    /\ pc[q] = "logout"
    /\ token' = [token EXCEPT ![req[q].old] = Revoked(@)]
    /\ Goto(q, "answer")
    /\ UNCHANGED <<issued, account, cookie>>

\* The response reaches the browser: Set-Cookie with the new token, or the
\* cookie cleared.
Answer(q) ==
    /\ pc[q] = "answer"
    /\ cookie' = [cookie EXCEPT ![req[q].client] = req[q].new]
    /\ Finish(q)
    /\ UNCHANGED <<token, issued, account>>

---------------------------------------------------------------------------
\* Resetting the password

\* requestPasswordReset: the update that stores the token.  The active user it
\* looked for is found again by its key.
RequestReset(q) ==
    /\ pc[q] = "idle"
    /\ account.active
    /\ account' = [account EXCEPT !.reset = TRUE]
    /\ UNCHANGED <<token, issued, cookie, pc, req>>

\* validatePasswordResetToken; the password is hashed next.
ResetBegin(q) ==
    /\ account.active /\ account.reset
    /\ Start(q, [NoRequest EXCEPT !.kind = "reset"], "setPassword")
    /\ UNCHANGED <<token, issued, account, cookie>>

SetPassword(q) ==
    /\ pc[q] = "setPassword"
    /\ account' = [account EXCEPT !.reset = FALSE]
    /\ Goto(q, "deleteAll")
    /\ UNCHANGED <<token, issued, cookie>>

\* refreshToken.deleteMany of the user.
DeleteAll(q) ==
    /\ pc[q] = "deleteAll"
    /\ token' = [j \in Tokens |-> IF token[j].state = "none" THEN token[j]
                                  ELSE [NoToken EXCEPT !.state = "deleted",
                                                       !.from = token[j].from]]
    /\ Finish(q)
    /\ UNCHANGED <<issued, account, cookie>>

---------------------------------------------------------------------------
\* The rest of the world

\* UsersService.update with is_active.
SetActive ==
    /\ \E active \in BOOLEAN : account' = [account EXCEPT !.active = active]
    /\ UNCHANGED <<token, issued, cookie, pc, req>>

\* 30 seconds, or 30 days, have passed.
Elapse(j) ==
    /\ \/ /\ token[j].recent
          /\ token' = [token EXCEPT ![j].recent = FALSE]
       \/ /\ token[j].state \in { "live", "revoked" }
          /\ token' = [token EXCEPT ![j].expired = TRUE]
    /\ UNCHANGED <<issued, account, cookie, pc, req>>

\* The password reset token is valid for one hour.
ResetExpires ==
    /\ account.reset
    /\ account' = [account EXCEPT !.reset = FALSE]
    /\ UNCHANGED <<token, issued, cookie, pc, req>>

\* The request dies between two calls, or its answer is lost.
Abort(q) ==
    /\ pc[q] # "idle"
    /\ Finish(q)
    /\ UNCHANGED <<token, issued, account, cookie>>

---------------------------------------------------------------------------
Step(q) ==
    \/ LoginBegin(q) \/ Issue(q)
    \/ RefreshBegin(q) \/ FindToken(q) \/ FindReplacement(q)
    \/ RevokeAll(q) \/ Revoke(q)
    \/ LogoutBegin(q) \/ Logout(q) \/ Answer(q)
    \/ RequestReset(q) \/ ResetBegin(q) \/ SetPassword(q) \/ DeleteAll(q)
    \/ Abort(q)

Init ==
    /\ token = [j \in Tokens |-> NoToken]
    /\ issued = 0
    /\ account = [active |-> TRUE, reset |-> FALSE]
    /\ cookie = [c \in Clients |-> 0]
    /\ pc = [q \in Requests |-> "idle"]
    /\ req = [q \in Requests |-> NoRequest]

Next ==
    \/ \E q \in Requests : Step(q)
    \/ SetActive
    \/ ResetExpires
    \/ \E j \in Tokens : Elapse(j)

Spec == Init /\ [][Next]_vars

---------------------------------------------------------------------------
\* Properties

\* The tokens a client has, or is about to get.
Held(j) ==
    \/ \E c \in Clients : cookie[c] = j
    \/ \E q \in Requests : pc[q] = "answer" /\ req[q].kind # "logout" /\ req[q].new = j

\* A client gets the successor of a token only when that token is revoked,
\* whatever ran between the calls of the rotation.  So resetting the password
\* ends the sessions that rotate meanwhile: of a token that resetPassword
\* deleted, nobody gets a live successor.
RotationRetiresOldToken ==
    \A j \in Tokens :
        Held(j) /\ token[j].state = "live" /\ token[j].from # 0
            => token[token[j].from].state = "revoked"

\* replacedById, which decides whether a reused token is tolerated, always
\* leads to a token that was issued for this one and later.
ReplacementsFit ==
    \A j \in Tokens :
        token[j].replacedBy # 0 =>
            /\ token[j].replacedBy \in j + 1 .. issued
            /\ token[token[j].replacedBy].from = j

=============================================================================
