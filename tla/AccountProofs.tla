--------------------------- MODULE AccountProofs ---------------------------
(***************************************************************************)
(* How an account comes about and stays in use.  First what Sessions       *)
(* guarantees for any clients, slots and bound on the tokens; then what    *)
(* Invitations guarantees for any slots and bound on the invitations: type *)
(* correctness, that closed invitations stay closed, and what holds while  *)
(* requests do not overlap.                                                *)
(***************************************************************************)
EXTENDS Sessions, Invitations, SequenceTheorems, TLAPS

---------------------------------------------------------------------------
\* The invariant of Sessions

\* What the local variables of a request satisfy before the call it makes next.
Fit(call, r) ==
    /\ r.old <= issued /\ r.new <= issued
    /\ call \in { "find", "replacement", "revoke", "logout" } => r.old # 0
    /\ call = "issue" /\ r.kind # "login" => r.old # 0
    /\ r.kind = "login" => r.old = 0
    /\ call = "replacement" => token[r.old].state \in { "revoked", "deleted" }
    /\ call = "revoke" => r.new # 0 /\ token[r.new].from = r.old
    /\ r.kind = "logout" => r.new = 0 /\ call \in { "idle", "logout", "answer" }
    /\ call = "logout" => r.kind = "logout"

\* Numbers follow the order of issue, and a token comes after the one it replaces.
Ordered ==
    /\ \A j \in Tokens : j <= issued <=> token[j].state # "none"
    /\ \A j \in Tokens : token[j].from < j
    /\ \A c \in Clients : cookie[c] <= issued

Fits == \A q \in Requests : Fit(pc[q], req[q])

\* The inductive invariant.  The two properties need each other's ground: that
\* requests know what they found, and that numbers only grow.
IInv ==
    /\ TypeOK
    /\ Ordered
    /\ Fits
    /\ RotationRetiresOldToken
    /\ ReplacementsFit

\* No token is forgotten or made live again.
Grows ==
    /\ issued <= issued'
    /\ \A j \in Tokens :
         j <= issued =>
            /\ token'[j].from = token[j].from
            /\ token[j].state \in { "revoked", "deleted" }
                 => token'[j].state \in { "revoked", "deleted" }

Quiet == UNCHANGED <<token, issued>>

\* What the types say of a row, and of the numbers a request or a cookie keeps.
LEMMA Rows ==
  ASSUME TypeOK, NEW j \in Tokens
  PROVE  /\ token[j] \in Token
         /\ token[j].state \in { "none", "live", "revoked", "deleted" }
         /\ token[j].from \in 0..MaxToken /\ token[j].replacedBy \in 0..MaxToken
         /\ j \in Nat /\ j >= 1 /\ j <= MaxToken
  BY TokenAssumption DEF TypeOK, Token, Tokens

LEMMA Numbers ==
  ASSUME TypeOK
  PROVE  /\ issued \in Nat /\ issued <= MaxToken
         /\ \A q \in Requests :
              /\ req[q] \in Request
              /\ req[q].old \in 0..MaxToken /\ req[q].new \in 0..MaxToken
              /\ req[q].old # 0 => req[q].old \in Tokens
              /\ req[q].new # 0 => req[q].new \in Tokens
         /\ \A c \in Clients : /\ cookie[c] \in 0..MaxToken
                               /\ cookie[c] # 0 => cookie[c] \in Tokens
  BY TokenAssumption DEF TypeOK, Request, Tokens

\* Rows as they are revoked.
LEMMA RowKinds ==
  ASSUME NEW t \in Token, NEW n \in 0..MaxToken
  PROVE  /\ Revoked(t) \in Token
         /\ Revoked(t).state = IF t.state = "live" THEN "revoked" ELSE t.state
         /\ Revoked(t).from = t.from /\ Revoked(t).replacedBy = t.replacedBy
         /\ Rotated(t, n) \in Token
         /\ Rotated(t, n).state = "revoked" /\ Rotated(t, n).from = t.from
         /\ Rotated(t, n).replacedBy = n
<1>1. Rotated(t, n) \in Token /\ Rotated(t, n).state = "revoked"
      /\ Rotated(t, n).from = t.from /\ Rotated(t, n).replacedBy = n
  BY DEF Rotated, Token
<1>2. CASE t.state = "live"
  BY <1>1, <1>2 DEF Revoked, Token
<1>3. CASE t.state # "live"
  BY <1>1, <1>3 DEF Revoked, Token
<1> QED
  BY <1>2, <1>3

\* A request that does not move finds its tokens as they were.
LEMMA OthersFit ==
  ASSUME TypeOK, Grows, issued' \in Nat, NEW p \in Requests, Fit(pc[p], req[p]),
         pc'[p] = pc[p], req'[p] = req[p]
  PROVE  Fit(pc[p], req[p])'
<1>1. req[p].old <= issued' /\ req[p].new <= issued'
  BY Numbers DEF Fit, Grows
<1>2. ASSUME pc[p] = "replacement"
      PROVE  token'[req[p].old].state \in { "revoked", "deleted" }
  BY <1>2, Numbers DEF Fit, Grows
<1>3. ASSUME pc[p] = "revoke"
      PROVE  token'[req[p].new].from = req[p].old
  BY <1>3, Numbers DEF Fit, Grows
<1> QED
  BY <1>1, <1>2, <1>3 DEF Fit

\* One request moves.
Moves(q, call, r) ==
    /\ pc' = [pc EXCEPT ![q] = call]
    /\ req' = [req EXCEPT ![q] = r]

LEMMA MoveStep ==
  ASSUME TypeOK, Fits, Grows, issued' \in Nat,
         NEW q \in Requests, NEW call \in Calls, NEW r \in Request,
         Moves(q, call, r), Fit(pc[q], req[q])'
  PROVE  Fits' /\ pc' \in [Requests -> Calls] /\ req' \in [Requests -> Request]
<1>1. \A p \in Requests : p # q => pc'[p] = pc[p] /\ req'[p] = req[p]
  BY DEF Moves, TypeOK
<1>2. \A p \in Requests : Fit(pc[p], req[p])'
  BY <1>1, OthersFit DEF Fits
<1> QED
  BY <1>2 DEF Fits, Moves, TypeOK

\* Steps that make no token and delete none: at most they revoke live ones.
Softens ==
    /\ token' \in [Tokens -> Token]
    /\ issued' = issued
    /\ \A j \in Tokens :
         /\ token'[j].from = token[j].from
         /\ token'[j].replacedBy = token[j].replacedBy
         /\ \/ token'[j].state = token[j].state
            \/ token[j].state = "live" /\ token'[j].state = "revoked"

LEMMA QuietSoftens ==
  ASSUME TypeOK, Quiet
  PROVE  Softens
  BY DEF TypeOK, Quiet, Softens

LEMMA SoftGrows ==
  ASSUME TypeOK, Softens
  PROVE  Grows /\ issued' \in Nat
  BY Numbers DEF Softens, Grows

\* The links stay as they are, and a token held now is revoked as it was.
LEMMA SoftStep ==
  ASSUME IInv, Softens,
         \A j \in Tokens : Held(j)' /\ token[j].state = "live" /\ token[j].from # 0
            => Held(j)
  PROVE  RotationRetiresOldToken' /\ ReplacementsFit'
<1>1. ASSUME NEW j \in Tokens, Held(j)', token'[j].state = "live", token'[j].from # 0
      PROVE  token'[token'[j].from].state = "revoked"
  <2>1. token[j].state = "live" /\ token[j].from # 0 /\ token'[j].from = token[j].from
    BY <1>1 DEF Softens
  <2>2. token[j].from \in Tokens
    BY <2>1, Rows DEF IInv, Tokens
  <2>3. token[token[j].from].state = "revoked"
    BY <1>1, <2>1 DEF IInv, RotationRetiresOldToken
  <2> QED
    BY <2>1, <2>2, <2>3 DEF Softens
<1>2. ASSUME NEW j \in Tokens, token'[j].replacedBy # 0
      PROVE  /\ token'[j].replacedBy \in j + 1 .. issued'
             /\ token'[token'[j].replacedBy].from = j
  <2>1. token'[j].replacedBy = token[j].replacedBy /\ issued' = issued
    BY DEF Softens
  <2>2. token[j].replacedBy \in j + 1 .. issued /\ token[token[j].replacedBy].from = j
    BY <1>2, <2>1 DEF IInv, ReplacementsFit
  <2>3. token[j].replacedBy \in Tokens
    BY <1>2, <2>1, Rows DEF IInv, Tokens
  <2> QED
    BY <2>1, <2>2, <2>3 DEF Softens
<1> QED
  BY <1>1, <1>2 DEF RotationRetiresOldToken, ReplacementsFit

---------------------------------------------------------------------------
\* The local variables of a request that arrives, or learns of a token

Kinds == { "none", "login", "refresh", "logout", "reset" }

LEMMA KindUpdate ==
  ASSUME NEW t \in Request, NEW k \in Kinds
  PROVE  LET r == [t EXCEPT !.kind = k]
         IN r \in Request /\ r.kind = k /\ r.old = t.old /\ r.new = t.new
  BY DEF Request, Kinds

LEMMA ClientUpdate ==
  ASSUME NEW t \in Request, NEW c \in Clients
  PROVE  LET r == [t EXCEPT !.client = c]
         IN r \in Request /\ r.kind = t.kind /\ r.old = t.old /\ r.new = t.new
  BY DEF Request

LEMMA OldUpdate ==
  ASSUME NEW t \in Request, NEW n \in 0..MaxToken
  PROVE  LET r == [t EXCEPT !.old = n]
         IN r \in Request /\ r.kind = t.kind /\ r.old = n /\ r.new = t.new
  BY DEF Request

LEMMA NewUpdate ==
  ASSUME NEW t \in Request, NEW n \in 0..MaxToken
  PROVE  LET r == [t EXCEPT !.new = n]
         IN r \in Request /\ r.kind = t.kind /\ r.old = t.old /\ r.new = n
  BY DEF Request

LEMMA NoRequestTyped ==
  NoRequest \in Request /\ NoRequest.kind = "none" /\ NoRequest.old = 0 /\ NoRequest.new = 0
  BY TokenAssumption DEF NoRequest, Request

LEMMA Arriving ==
  ASSUME NEW k \in Kinds, NEW c \in Clients
  PROVE  LET r == [NoRequest EXCEPT !.kind = k, !.client = c]
         IN r \in Request /\ r.kind = k /\ r.old = 0 /\ r.new = 0
<1> DEFINE a == [NoRequest EXCEPT !.kind = k]
<1>1. a \in Request /\ a.kind = k /\ a.old = 0 /\ a.new = 0
  BY NoRequestTyped, KindUpdate
<1> HIDE DEF a
<1>2. LET r == [a EXCEPT !.client = c]
      IN r \in Request /\ r.kind = k /\ r.old = 0 /\ r.new = 0
  BY <1>1, ClientUpdate
<1> QED
  BY <1>2 DEF a

Arrival(k, c, o) == [NoRequest EXCEPT !.kind = k, !.client = c, !.old = o]

LEMMA ArrivingWith ==
  ASSUME NEW k \in Kinds, NEW c \in Clients,
         NEW o \in 0..MaxToken
  PROVE  /\ Arrival(k, c, o) \in Request
         /\ Arrival(k, c, o).kind = k /\ Arrival(k, c, o).old = o /\ Arrival(k, c, o).new = 0
<1> DEFINE b == [NoRequest EXCEPT !.kind = k, !.client = c]
<1>1. b \in Request /\ b.kind = k /\ b.new = 0
  BY Arriving
<1> HIDE DEF b
<1>2. LET r == [b EXCEPT !.old = o]
      IN r \in Request /\ r.kind = k /\ r.old = o /\ r.new = 0
  BY <1>1, OldUpdate
<1> QED
  BY <1>2 DEF b, Arrival

\* A finished request fits, whatever the tokens are.
LEMMA FinishFits ==
  ASSUME TypeOK, NEW q \in Requests, Finish(q), issued' \in Nat
  PROVE  /\ Moves(q, "idle", NoRequest)
         /\ Fit(pc[q], req[q])'
         /\ "idle" \in Calls /\ NoRequest \in Request
<1>1. pc'[q] = "idle" /\ req'[q] = NoRequest
  BY DEF Finish, TypeOK
<1>2. req'[q].old = 0 /\ req'[q].new = 0 /\ req'[q].kind = "none" /\ 0 <= issued'
  BY <1>1 DEF NoRequest
<1>3. Fit(pc[q], req[q])'
  BY <1>1, <1>2 DEF Fit
<1> QED
  BY <1>3, NoRequestTyped DEF Finish, Moves, Calls

Account == [active : BOOLEAN, reset : BOOLEAN]

---------------------------------------------------------------------------
\* The invariant and the steps that make no token

LEMMA SoftOrdered ==
  ASSUME IInv, Softens, \A c \in Clients : cookie'[c] <= issued
  PROVE  Ordered'
<1>1. \A j \in Tokens : j <= issued' <=> token'[j].state # "none"
  BY DEF IInv, Ordered, Softens
<1>2. \A j \in Tokens : token'[j].from < j
  BY DEF IInv, Ordered, Softens
<1> QED
  BY <1>1, <1>2 DEF Ordered, Softens

LEMMA SoftKeeps ==
  ASSUME IInv, Softens, NEW q \in Requests, NEW call \in Calls, NEW r \in Request,
         Moves(q, call, r), Fit(pc[q], req[q])', account' \in Account,
         cookie' \in [Clients -> 0..MaxToken], \A c \in Clients : cookie'[c] <= issued,
         \A j \in Tokens : Held(j)' /\ token[j].state = "live" /\ token[j].from # 0
            => Held(j)
  PROVE  IInv'
<1>1. Fits' /\ pc' \in [Requests -> Calls] /\ req' \in [Requests -> Request]
  BY SoftGrows, MoveStep DEF IInv
<1>2. TypeOK'
  BY <1>1 DEF IInv, TypeOK, Softens, Account
<1> QED
  BY <1>1, <1>2, SoftStep, SoftOrdered DEF IInv

\* With the cookies unchanged and the answer not yet ready, nobody comes to
\* hold a token.
LEMMA NotHeldYet ==
  ASSUME TypeOK, NEW q \in Requests, NEW call \in Calls, NEW r \in Request,
         call # "answer" \/ r.kind = "logout", Moves(q, call, r), UNCHANGED cookie, NEW j \in Tokens, Held(j)'
  PROVE  Held(j)
<1>1. CASE \E c \in Clients : cookie'[c] = j
  BY <1>1 DEF Held
<1>2. CASE \E p \in Requests : pc'[p] = "answer" /\ req'[p].kind # "logout" /\ req'[p].new = j
  <2>1. PICK p \in Requests : pc'[p] = "answer" /\ req'[p].kind # "logout" /\ req'[p].new = j
    BY <1>2
  <2>2. p # q
    BY <2>1 DEF Moves, TypeOK
  <2>3. pc[p] = "answer" /\ req[p].kind # "logout" /\ req[p].new = j
    BY <2>1, <2>2 DEF Moves, TypeOK
  <2> QED
    BY <2>3 DEF Held
<1> QED
  BY <1>1, <1>2 DEF Held

LEMMA SoftMove ==
  ASSUME IInv, Softens, NEW q \in Requests, NEW call \in Calls, NEW r \in Request,
         call # "answer" \/ r.kind = "logout", Moves(q, call, r), Fit(pc[q], req[q])',
         account' \in Account, UNCHANGED cookie
  PROVE  IInv'
<1>1. cookie' \in [Clients -> 0..MaxToken] /\ \A c \in Clients : cookie'[c] <= issued
  BY DEF IInv, TypeOK, Ordered
<1> QED
  BY <1>1, NotHeldYet, SoftKeeps DEF IInv

LEMMA QuietMove ==
  ASSUME IInv, Quiet, NEW q \in Requests, NEW call \in Calls, NEW r \in Request,
         call # "answer" \/ r.kind = "logout", Moves(q, call, r), Fit(pc[q], req[q])',
         account' \in Account, UNCHANGED cookie
  PROVE  IInv'
  BY QuietSoftens, SoftMove DEF IInv

LEMMA AccountTyped ==
  ASSUME TypeOK
  PROVE  /\ account \in Account
         /\ \A b \in BOOLEAN : /\ [account EXCEPT !.active = b] \in Account
                               /\ [account EXCEPT !.reset = b] \in Account
  BY DEF TypeOK, Account

LEMMA MovesThere ==
  ASSUME TypeOK, NEW q \in Requests, NEW call, NEW r, Moves(q, call, r)
  PROVE  pc'[q] = call /\ req'[q] = r
  BY DEF TypeOK, Moves

\* Action by action.
LEMMA LoginBeginKeeps ==
  ASSUME IInv, NEW q \in Requests, LoginBegin(q)
  PROVE  IInv'
<1>1. PICK c \in Clients :
        Moves(q, "issue", [NoRequest EXCEPT !.kind = "login", !.client = c])
  BY DEF LoginBegin, Start, Moves
<1> DEFINE r == [NoRequest EXCEPT !.kind = "login", !.client = c]
<1>2. r \in Request /\ r.old = 0 /\ r.new = 0 /\ r.kind = "login"
  BY Arriving DEF Kinds
<1>3. Moves(q, "issue", r)
  BY <1>1
<1> HIDE DEF r
<1>4. pc'[q] = "issue" /\ req'[q] = r /\ Quiet /\ UNCHANGED <<account, cookie>>
  BY <1>3, MovesThere DEF IInv, LoginBegin, Quiet
<1>5. Fit(pc[q], req[q])'
  BY <1>2, <1>4, Numbers DEF IInv, Fit, Quiet
<1> QED
  BY <1>2, <1>3, <1>4, <1>5, QuietMove, AccountTyped DEF IInv, Calls

LEMMA RefreshBeginKeeps ==
  ASSUME IInv, NEW q \in Requests, RefreshBegin(q)
  PROVE  IInv'
<1>1. PICK c \in Clients :
        /\ cookie[c] # 0
        /\ Moves(q, "find", [NoRequest EXCEPT !.kind = "refresh", !.client = c, !.old = cookie[c]])
  BY DEF RefreshBegin, Start, Moves
<1> DEFINE r == Arrival("refresh", c, cookie[c])
<1>2. r \in Request /\ r.old = cookie[c] /\ r.new = 0 /\ r.kind = "refresh"
  <2>1. cookie[c] \in 0..MaxToken
    BY Numbers DEF IInv
  <2>2. "refresh" \in Kinds /\ "logout" \in Kinds
    BY DEF Kinds
  <2> QED
    BY <2>1, <2>2, ArrivingWith
<1>3. Moves(q, "find", r)
  BY <1>1 DEF Arrival
<1> HIDE DEF r
<1>4. pc'[q] = "find" /\ req'[q] = r /\ Quiet /\ UNCHANGED <<account, cookie>>
  BY <1>3, MovesThere DEF IInv, RefreshBegin, Quiet
<1>5. Fit(pc[q], req[q])'
  BY <1>1, <1>2, <1>4, Numbers DEF IInv, Ordered, Fit, Quiet
<1> QED
  BY <1>2, <1>3, <1>4, <1>5, QuietMove, AccountTyped DEF IInv, Calls

LEMMA LogoutBeginKeeps ==
  ASSUME IInv, NEW q \in Requests, LogoutBegin(q)
  PROVE  IInv'
<1>1. PICK c \in Clients :
        Start(q, [NoRequest EXCEPT !.kind = "logout", !.client = c, !.old = cookie[c]],
              IF cookie[c] = 0 \/ token[cookie[c]].expired THEN "answer" ELSE "logout")
  BY DEF LogoutBegin
<1> DEFINE r == Arrival("logout", c, cookie[c])
<1>0. r \in Request /\ r.old = cookie[c] /\ r.new = 0 /\ r.kind = "logout"
  <2>1. cookie[c] \in 0..MaxToken
    BY Numbers DEF IInv
  <2>2. "refresh" \in Kinds /\ "logout" \in Kinds
    BY DEF Kinds
  <2> QED
    BY <2>1, <2>2, ArrivingWith
<1>2. PICK call \in { "answer", "logout" } :
        Moves(q, call, r) /\ (call = "logout" => cookie[c] # 0)
  BY <1>1 DEF Start, Moves, Arrival
<1> HIDE DEF r
<1>3. r \in Request
  BY <1>0
<1>4. pc'[q] = call /\ req'[q] = r /\ Quiet /\ UNCHANGED <<account, cookie>>
  BY <1>2, MovesThere DEF IInv, LogoutBegin, Quiet
<1>5. Fit(pc[q], req[q])'
  BY <1>0, <1>2, <1>4, Numbers DEF IInv, Ordered, Fit, Quiet
<1>6. r.kind = "logout" /\ call \in Calls
  BY <1>0 DEF Calls
<1> QED
  BY <1>2, <1>3, <1>4, <1>5, <1>6, QuietMove, AccountTyped DEF IInv

\* Finishing without an answer.
LEMMA FinishKeeps ==
  ASSUME IInv, NEW q \in Requests, Finish(q), Softens, UNCHANGED <<account, cookie>>
  PROVE  IInv'
<1>1. issued' \in Nat
  BY SoftGrows DEF IInv
<1>2. Moves(q, "idle", NoRequest) /\ Fit(pc[q], req[q])' /\ "idle" \in Calls /\ NoRequest \in Request
  BY <1>1, FinishFits DEF IInv
<1>3. account' \in Account
  BY AccountTyped DEF IInv
<1> QED
  BY <1>2, <1>3, SoftMove

LEMMA FindTokenKeeps ==
  ASSUME IInv, NEW q \in Requests, FindToken(q)
  PROVE  IInv'
<1> DEFINE t == token[req[q].old]
<1>0. pc[q] = "find" /\ Quiet /\ UNCHANGED <<account, cookie>> /\ account' \in Account
  BY AccountTyped DEF FindToken, Quiet, IInv
<1>1. req[q] \in Request /\ req[q].old \in Tokens /\ Fit("find", req[q]) /\ t \in Token
  BY <1>0, Numbers, Rows DEF IInv, Fits, Fit
<1>2. CASE /\ t.state = "revoked" /\ t.replacedBy # 0
           /\ req' = [req EXCEPT ![q].new = t.replacedBy]
           /\ pc' = [pc EXCEPT ![q] = "replacement"]
  <2> DEFINE r == [req[q] EXCEPT !.new = t.replacedBy]
  <2>1. r \in Request /\ r.old = req[q].old /\ r.new = t.replacedBy /\ r.kind = req[q].kind
    BY <1>1, NewUpdate DEF Token
  <2>2. Moves(q, "replacement", r)
    BY <1>2 DEF Moves
  <2> HIDE DEF r
  <2>3. pc'[q] = "replacement" /\ req'[q] = r
    BY <2>2, MovesThere DEF IInv
  <2>4. t.replacedBy <= issued
    BY <1>1, <1>2, Numbers, Rows DEF IInv, ReplacementsFit
  <2>5. r.kind # "logout" /\ r.kind # "login"
    BY <1>0, <2>1, <1>1 DEF Fit
  <2>6. Fit(pc[q], req[q])'
    BY <1>0, <1>1, <1>2, <2>1, <2>3, <2>4, <2>5 DEF Fit, Quiet
  <2> QED
    BY <1>0, <2>1, <2>2, <2>6, QuietMove DEF Calls
<1>3. ASSUME NEW call \in { "revokeAll", "issue" }, Goto(q, call)
      PROVE  IInv'
  <2>1. Moves(q, call, req[q])
    BY <1>3 DEF Goto, Moves, IInv, TypeOK
  <2>2. pc'[q] = call /\ req'[q] = req[q]
    BY <2>1, MovesThere DEF IInv
  <2>3. Fit(pc[q], req[q])'
    BY <1>0, <1>1, <2>2 DEF Fit, Quiet
  <2> QED
    BY <1>0, <1>1, <2>1, <2>3, QuietMove DEF Calls
<1>4. CASE Finish(q)
  BY <1>0, <1>4, QuietSoftens, FinishKeeps DEF IInv
<1> QED
  BY <1>2, <1>3, <1>4 DEF FindToken

LEMMA FindReplacementKeeps ==
  ASSUME IInv, NEW q \in Requests, FindReplacement(q)
  PROVE  IInv'
<1>0. /\ pc[q] = "replacement" /\ Quiet /\ UNCHANGED <<account, cookie>>
      /\ account' \in Account /\ Softens
  BY AccountTyped, QuietSoftens DEF FindReplacement, Quiet, IInv
<1>1. req[q] \in Request /\ req[q].old \in Tokens /\ Fit("replacement", req[q])
  BY <1>0, Numbers DEF IInv, Fits, Fit
<1>2. PICK call \in { "answer", "revokeAll" }, n \in { 0, req[q].old } :
         Moves(q, call, [req[q] EXCEPT !.new = n])
  BY DEF FindReplacement, Moves
<1> DEFINE r == [req[q] EXCEPT !.new = n]
<1>3. r \in Request /\ r.old = req[q].old /\ r.new = n /\ r.kind = req[q].kind
  BY <1>1, <1>2, NewUpdate, TokenAssumption DEF Tokens
<1>4. Moves(q, call, r) /\ call \in Calls
  BY <1>2 DEF Calls
<1> HIDE DEF r
<1>5. pc'[q] = call /\ req'[q] = r
  BY <1>4, MovesThere DEF IInv
<1>6. r.kind # "logout" /\ r.kind # "login"
  BY <1>1, <1>3 DEF Fit, Tokens
<1>7. Fit(pc[q], req[q])'
  BY <1>0, <1>1, <1>2, <1>3, <1>5, <1>6, Numbers DEF Fit, Quiet, Tokens, IInv
<1>8. cookie' \in [Clients -> 0..MaxToken] /\ \A d \in Clients : cookie'[d] <= issued
  BY <1>0 DEF IInv, TypeOK, Ordered
<1>9. ASSUME NEW j \in Tokens, Held(j)', token[j].state = "live"
      PROVE  Held(j)
  <2>1. CASE \E d \in Clients : cookie'[d] = j
    BY <1>0, <2>1 DEF Held
  <2>2. CASE \E p \in Requests : pc'[p] = "answer" /\ req'[p].kind # "logout" /\ req'[p].new = j
    <3>1. PICK p \in Requests : pc'[p] = "answer" /\ req'[p].kind # "logout" /\ req'[p].new = j
      BY <2>2
    <3>2. p # q
      BY <1>1, <1>2, <1>3, <1>5, <1>9, <3>1 DEF Fit, Tokens
    <3>3. pc[p] = "answer" /\ req[p].kind # "logout" /\ req[p].new = j
      BY <1>4, <3>1, <3>2 DEF Moves, IInv, TypeOK
    <3> QED
      BY <3>3 DEF Held
  <2> QED
    BY <1>9, <2>1, <2>2 DEF Held
<1> QED
  BY <1>0, <1>3, <1>4, <1>7, <1>8, <1>9, SoftKeeps

LEMMA AnswerKeeps ==
  ASSUME IInv, NEW q \in Requests, Answer(q)
  PROVE  IInv'
<1>0. /\ pc[q] = "answer" /\ Quiet /\ Finish(q) /\ UNCHANGED account
      /\ cookie' = [cookie EXCEPT ![req[q].client] = req[q].new]
  BY DEF Answer, Quiet
<1>1. account' \in Account /\ Softens /\ issued' \in Nat
  BY <1>0, AccountTyped, QuietSoftens, SoftGrows DEF IInv
<1>2. Moves(q, "idle", NoRequest) /\ Fit(pc[q], req[q])' /\ "idle" \in Calls /\ NoRequest \in Request
  BY <1>0, <1>1, FinishFits DEF IInv
<1>3. Fit("answer", req[q]) /\ req[q].new \in 0..MaxToken
  BY <1>0, Numbers DEF IInv, Fits
<1>4. cookie' \in [Clients -> 0..MaxToken] /\ \A d \in Clients : cookie'[d] <= issued
  BY <1>0, <1>3 DEF IInv, TypeOK, Ordered, Fit
<1>5. ASSUME NEW j \in Tokens, Held(j)'
      PROVE  Held(j)
  <2>1. CASE \E d \in Clients : cookie'[d] = j
    <3>1. PICK d \in Clients : cookie'[d] = j
      BY <2>1
    <3>2. CASE d = req[q].client
      <4>1. req[q].new = j /\ req[q].kind # "logout"
        BY <1>0, <1>3, <3>1, <3>2 DEF IInv, TypeOK, Fit, Tokens
      <4> QED
        BY <1>0, <4>1 DEF Held
    <3>3. CASE d # req[q].client
      BY <1>0, <3>1, <3>3 DEF IInv, TypeOK, Held
    <3> QED
      BY <3>2, <3>3
  <2>2. CASE \E p \in Requests : pc'[p] = "answer" /\ req'[p].kind # "logout" /\ req'[p].new = j
    <3>1. PICK p \in Requests : pc'[p] = "answer" /\ req'[p].kind # "logout" /\ req'[p].new = j
      BY <2>2
    <3>2. p # q
      BY <1>2, <3>1 DEF Moves, IInv, TypeOK
    <3>3. pc[p] = "answer" /\ req[p].kind # "logout" /\ req[p].new = j
      BY <1>2, <3>1, <3>2 DEF Moves, IInv, TypeOK
    <3> QED
      BY <3>3 DEF Held
  <2> QED
    BY <1>5, <2>1, <2>2 DEF Held
<1> QED
  BY <1>1, <1>2, <1>4, <1>5, SoftKeeps

\* Steps of the rest of the world.
LEMMA WorldKeeps ==
  ASSUME IInv, Softens, UNCHANGED <<cookie, pc, req>>, account' \in Account
  PROVE  IInv'
<1>1. Fits'
  <2>1. \A p \in Requests : Fit(pc[p], req[p])'
    BY SoftGrows, OthersFit DEF IInv, Fits
  <2> QED
    BY <2>1 DEF Fits
<1>2. TypeOK'
  BY DEF IInv, TypeOK, Softens, Account
<1>3. Ordered'
  BY SoftOrdered DEF IInv, Ordered
<1>4. RotationRetiresOldToken' /\ ReplacementsFit'
  BY SoftStep DEF Held
<1> QED
  BY <1>1, <1>2, <1>3, <1>4 DEF IInv

LEMMA RequestResetKeeps ==
  ASSUME IInv, NEW q \in Requests, RequestReset(q)
  PROVE  IInv'
<1>1. Quiet /\ UNCHANGED <<cookie, pc, req>> /\ account' \in Account
  BY AccountTyped DEF RequestReset, Quiet, IInv
<1> QED
  BY <1>1, QuietSoftens, WorldKeeps DEF IInv

LEMMA ElapseKeeps ==
  ASSUME IInv, NEW i \in Tokens, Elapse(i)
  PROVE  IInv'
<1>1. token[i] \in Token
  BY Rows DEF IInv
<1>2. PICK t \in Token :
        /\ token' = [token EXCEPT ![i] = t]
        /\ t.from = token[i].from /\ t.replacedBy = token[i].replacedBy
        /\ t.state = token[i].state
  <2> DEFINE unmarked == [token[i] EXCEPT !.recent = FALSE]
             old == [token[i] EXCEPT !.expired = TRUE]
  <2>1. /\ unmarked \in Token /\ unmarked.from = token[i].from
        /\ unmarked.replacedBy = token[i].replacedBy /\ unmarked.state = token[i].state
    BY <1>1 DEF Token
  <2>2. /\ old \in Token /\ old.from = token[i].from
        /\ old.replacedBy = token[i].replacedBy /\ old.state = token[i].state
    BY <1>1 DEF Token
  <2>3. token' = [token EXCEPT ![i] = unmarked] \/ token' = [token EXCEPT ![i] = old]
    BY DEF Elapse
  <2> HIDE DEF unmarked, old
  <2> QED
    BY <2>1, <2>2, <2>3
<1>3. Softens
  BY <1>2 DEF Elapse, Softens, IInv, TypeOK
<1> QED
  BY <1>3, AccountTyped, WorldKeeps DEF Elapse, IInv

LEMMA ResetBeginKeeps ==
  ASSUME IInv, NEW q \in Requests, ResetBegin(q)
  PROVE  IInv'
<1> DEFINE r == [NoRequest EXCEPT !.kind = "reset"]
<1>1. r \in Request /\ r.old = 0 /\ r.new = 0 /\ r.kind = "reset"
  BY NoRequestTyped, KindUpdate DEF Kinds
<1>2. Moves(q, "setPassword", r)
  BY DEF ResetBegin, Start, Moves
<1> HIDE DEF r
<1>3. pc'[q] = "setPassword" /\ req'[q] = r /\ Quiet /\ UNCHANGED <<account, cookie>>
  BY <1>2, MovesThere DEF IInv, ResetBegin, Quiet
<1>4. Fit(pc[q], req[q])'
  BY <1>1, <1>3, Numbers DEF IInv, Fit, Quiet
<1> QED
  BY <1>1, <1>2, <1>3, <1>4, QuietMove, AccountTyped DEF IInv, Calls

\* A request that only goes on: its local variables stay.
LEMMA GotoMoves ==
  ASSUME TypeOK, NEW q \in Requests, NEW call, Goto(q, call)
  PROVE  /\ Moves(q, call, req[q]) /\ req[q] \in Request
         /\ pc'[q] = call /\ req'[q] = req[q]
  BY DEF Goto, Moves, TypeOK

LEMMA SetPasswordKeeps ==
  ASSUME IInv, NEW q \in Requests, SetPassword(q)
  PROVE  IInv'
<1>1. /\ pc[q] = "setPassword" /\ Quiet /\ UNCHANGED cookie /\ account' \in Account
      /\ Goto(q, "deleteAll")
  BY AccountTyped DEF SetPassword, Quiet, IInv
<1>2. /\ Moves(q, "deleteAll", req[q]) /\ req[q] \in Request
      /\ pc'[q] = "deleteAll" /\ req'[q] = req[q]
  BY <1>1, GotoMoves DEF IInv
<1>3. Fit("setPassword", req[q])
  BY <1>1 DEF IInv, Fits
<1>4. Fit(pc[q], req[q])'
  BY <1>1, <1>2, <1>3 DEF Fit, Quiet
<1> QED
  BY <1>1, <1>2, <1>4, QuietMove DEF Calls

LEMMA RevokeAllKeeps ==
  ASSUME IInv, NEW q \in Requests, RevokeAll(q)
  PROVE  IInv'
<1>1. \A j \in Tokens : token'[j] = Revoked(token[j]) /\ token[j] \in Token
  BY Rows DEF RevokeAll, IInv
<1>2. token' \in [Tokens -> Token]
  BY <1>1, RowKinds, TokenAssumption DEF RevokeAll
<1>3. Softens
  BY <1>1, <1>2, RowKinds, TokenAssumption DEF RevokeAll, Softens
<1> QED
  BY <1>3, FinishKeeps DEF RevokeAll

LEMMA LogoutKeeps ==
  ASSUME IInv, NEW q \in Requests, Logout(q)
  PROVE  IInv'
<1>1. /\ pc[q] = "logout" /\ Goto(q, "answer") /\ UNCHANGED <<issued, account, cookie>>
      /\ token' = [token EXCEPT ![req[q].old] = Revoked(@)]
  BY DEF Logout
<1>2. Fit("logout", req[q]) /\ req[q].old \in Tokens /\ token[req[q].old] \in Token
  BY <1>1, Numbers, Rows DEF IInv, Fits, Fit
<1>3. Softens
  <2>1. Revoked(token[req[q].old]) \in Token
    BY <1>2, RowKinds, TokenAssumption
  <2> QED
    BY <1>1, <1>2, <2>1, RowKinds, TokenAssumption DEF Softens, IInv, TypeOK
<1>4. /\ Moves(q, "answer", req[q]) /\ req[q] \in Request
      /\ pc'[q] = "answer" /\ req'[q] = req[q]
  BY <1>1, GotoMoves DEF IInv
<1>5. req[q].kind = "logout"
  BY <1>1 DEF IInv, Fits, Fit
<1>6. Fit(pc[q], req[q])'
  BY <1>1, <1>2, <1>4, <1>5, Numbers DEF Fit, IInv
<1> QED
  BY <1>1, <1>3, <1>4, <1>5, <1>6, SoftMove, AccountTyped DEF IInv, Calls

LEMMA AbortKeeps ==
  ASSUME IInv, NEW q \in Requests, Abort(q)
  PROVE  IInv'
<1>1. Finish(q) /\ Quiet /\ UNCHANGED <<account, cookie>>
  BY DEF Abort, Quiet
<1> QED
  BY <1>1, FinishKeeps, QuietSoftens DEF IInv

---------------------------------------------------------------------------
\* The steps that make, link or delete tokens

LEMMA NoTokenTyped ==
  NoToken \in Token /\ NoToken.state = "none" /\ NoToken.from = 0 /\ NoToken.replacedBy = 0
  BY TokenAssumption DEF NoToken, Token

\* A row as it is inserted, or as nothing but its history is left of it.
LEMMA BareToken ==
  ASSUME NEW o \in 0..MaxToken, NEW s \in { "live", "deleted" }
  PROVE  LET t == [NoToken EXCEPT !.state = s, !.from = o]
         IN t \in Token /\ t.state = s /\ t.from = o /\ t.replacedBy = 0
<1> DEFINE a == [NoToken EXCEPT !.state = s]
<1>1. a \in Token /\ a.state = s /\ a.replacedBy = 0
  BY NoTokenTyped DEF Token
<1> HIDE DEF a
<1>2. LET t == [a EXCEPT !.from = o]
      IN t \in Token /\ t.state = s /\ t.from = o /\ t.replacedBy = 0
  BY <1>1 DEF Token
<1> QED
  BY <1>2 DEF a

LEMMA IssueKeeps ==
  ASSUME IInv, NEW q \in Requests, Issue(q)
  PROVE  IInv'
<1> DEFINE n == issued + 1
           t == [NoToken EXCEPT !.state = "live", !.from = req[q].old]
           r == [req[q] EXCEPT !.new = n]
           call == IF req[q].kind = "login" THEN "answer" ELSE "revoke"
<1>1. /\ pc[q] = "issue" /\ n \in Tokens /\ issued' = n /\ issued \in Nat
      /\ UNCHANGED <<account, cookie>> /\ Fit("issue", req[q]) /\ req[q] \in Request
      /\ req[q].old \in 0..MaxToken
  BY Numbers, TokenAssumption DEF Issue, IInv, Fits, Tokens
<1>2. token' = [token EXCEPT ![n] = t] /\ Moves(q, call, r)
  BY DEF Issue, Moves
<1>3. r \in Request /\ r.old = req[q].old /\ r.new = n /\ r.kind = req[q].kind
  BY <1>1, NewUpdate DEF Tokens
<1>4. /\ t \in Token /\ t.state = "live" /\ t.from = req[q].old /\ t.replacedBy = 0
  BY <1>1, BareToken
<1>5. call \in Calls /\ call \in { "answer", "revoke" }
      /\ (call = "answer" <=> r.kind = "login")
  BY <1>3 DEF Calls
<1> HIDE DEF t, r, call
<1>6. /\ token' \in [Tokens -> Token] /\ token'[n] = t
      /\ \A j \in Tokens : j # n => token'[j] = token[j]
  BY <1>1, <1>2, <1>4 DEF IInv, TypeOK
<1>7. pc'[q] = call /\ req'[q] = r
  BY <1>2, MovesThere DEF IInv
<1>8. \A j \in Tokens : j <= issued => j # n
  BY <1>1 DEF Tokens
<1>9. Grows /\ issued' \in Nat
  BY <1>1, <1>6, <1>8, Numbers DEF Grows, IInv
<1>10. Fit(pc[q], req[q])'
  BY <1>1, <1>3, <1>4, <1>5, <1>6, <1>7, Numbers DEF Fit, IInv
<1>11. Fits' /\ pc' \in [Requests -> Calls] /\ req' \in [Requests -> Request]
  BY <1>2, <1>3, <1>5, <1>9, <1>10, MoveStep DEF IInv
<1>12. TypeOK'
  BY <1>1, <1>6, <1>11, TokenAssumption DEF TypeOK, IInv, Tokens
<1>13. Ordered'
  <2>1. \A j \in Tokens : j <= issued' <=> token'[j].state # "none"
    BY <1>1, <1>4, <1>6, Rows DEF IInv, Ordered, Tokens
  <2>2. \A j \in Tokens : token'[j].from < j
    BY <1>1, <1>4, <1>6, Rows DEF IInv, Ordered, Fit
  <2>3. \A c \in Clients : cookie'[c] <= issued'
    BY <1>1, Numbers DEF IInv, Ordered
  <2> QED
    BY <2>1, <2>2, <2>3 DEF Ordered
\* Nobody holds the number that is given out now.
<1>14. ASSUME NEW j \in Tokens, Held(j)', token'[j].state = "live", token'[j].from # 0
       PROVE  token'[token'[j].from].state = "revoked"
  <2>1. \A c \in Clients : cookie[c] # n
    BY <1>1, Numbers DEF IInv, Ordered
  <2>2. \A p \in Requests : p # q => req'[p] = req[p] /\ pc'[p] = pc[p] /\ req[p].new # n
    BY <1>1, <1>2, Numbers DEF IInv, Fits, Fit, Moves, TypeOK
  <2>3. CASE j = n
    <3>1. r.kind = "login"
      BY <1>1, <1>5, <1>7, <1>14, <2>1, <2>2, <2>3 DEF Held
    <3> QED
      BY <1>1, <1>3, <1>4, <1>6, <1>14, <2>3, <3>1 DEF Fit
  <2>4. CASE j # n
    <3>1. Held(j)
      BY <1>1, <1>3, <1>7, <1>14, <2>2, <2>4 DEF Held
    <3>2. token[j].state = "live" /\ token[j].from # 0 /\ token'[j].from = token[j].from
      BY <1>6, <1>14, <2>4
    <3>3. token[j].from \in Tokens /\ token[j].from <= issued
      BY <3>2, <1>1, Rows DEF IInv, Ordered, Tokens
    <3>4. token[token[j].from].state = "revoked"
      BY <3>1, <3>2 DEF IInv, RotationRetiresOldToken
    <3> QED
      BY <1>6, <1>8, <3>2, <3>3, <3>4
  <2> QED
    BY <2>3, <2>4
<1>15. ASSUME NEW j \in Tokens, token'[j].replacedBy # 0
       PROVE  /\ token'[j].replacedBy \in j + 1 .. issued'
              /\ token'[token'[j].replacedBy].from = j
  <2>1. j # n
    BY <1>4, <1>6, <1>15
  <2>2. token'[j] = token[j]
    BY <1>6, <2>1
  <2>3. token[j].replacedBy \in j + 1 .. issued /\ token[token[j].replacedBy].from = j
    BY <1>15, <2>2 DEF IInv, ReplacementsFit
  <2>4. token[j].replacedBy \in Tokens /\ token[j].replacedBy <= issued
    BY <1>1, <1>15, <2>2, <2>3, Rows DEF IInv, Tokens
  <2>5. token'[token[j].replacedBy] = token[token[j].replacedBy]
    BY <1>6, <1>8, <2>4
  <2>6. token[j].replacedBy \in j + 1 .. issued'
    BY <1>1, <2>3, Rows DEF IInv
  <2> QED
    BY <2>2, <2>3, <2>5, <2>6
<1> QED
  BY <1>11, <1>12, <1>13, <1>14, <1>15 DEF IInv, RotationRetiresOldToken, ReplacementsFit

LEMMA RevokeKeeps ==
  ASSUME IInv, NEW q \in Requests, Revoke(q)
  PROVE  IInv'
<1> DEFINE old == req[q].old
           new == req[q].new
<1>1. /\ pc[q] = "revoke" /\ UNCHANGED <<issued, account, cookie>>
      /\ Fit("revoke", req[q]) /\ req[q] \in Request
      /\ old \in Tokens /\ new \in Tokens /\ old <= issued /\ new <= issued
      /\ token[new].from = old /\ token[old] \in Token
  BY Numbers, Rows DEF Revoke, IInv, Fits, Fit
<1>2. CASE token[old].state = "deleted"
  <2>1. Finish(q) /\ Quiet
    BY <1>1, <1>2 DEF Revoke, Quiet
  <2> QED
    BY <1>1, <2>1, FinishKeeps, QuietSoftens DEF IInv
<1>3. CASE token[old].state # "deleted"
  <2> DEFINE t == Rotated(token[old], new)
  <2>1. token' = [token EXCEPT ![old] = t] /\ Goto(q, "answer")
    BY <1>3 DEF Revoke
  <2>2. t \in Token /\ t.state = "revoked" /\ t.from = token[old].from /\ t.replacedBy = new
    BY <1>1, RowKinds, Numbers DEF IInv
  <2> HIDE DEF t
  <2>3. /\ token' \in [Tokens -> Token] /\ token'[old] = t
        /\ \A j \in Tokens : j # old => token'[j] = token[j]
        /\ \A j \in Tokens : token'[j].from = token[j].from
    BY <1>1, <2>1, <2>2 DEF IInv, TypeOK
  <2>4. /\ Moves(q, "answer", req[q]) /\ pc'[q] = "answer" /\ req'[q] = req[q]
    BY <2>1, GotoMoves DEF IInv
  <2>5. Grows /\ issued' \in Nat
    BY <1>1, <2>2, <2>3, Numbers DEF Grows, IInv
  <2>6. req[q].kind # "logout" /\ req[q].kind # "login"
    BY <1>1 DEF Fit, Tokens
  <2>7. Fit(pc[q], req[q])'
    BY <1>1, <2>4, <2>6 DEF Fit
  <2>8. Fits' /\ pc' \in [Requests -> Calls] /\ req' \in [Requests -> Request]
    BY <1>1, <2>4, <2>5, <2>7, MoveStep DEF IInv, Calls
  <2>9. TypeOK'
    BY <1>1, <2>3, <2>8 DEF TypeOK, IInv
  <2>10. Ordered'
    <3>1. \A j \in Tokens : j <= issued' <=> token'[j].state # "none"
      BY <1>1, <2>2, <2>3 DEF IInv, Ordered
    <3>2. \A j \in Tokens : token'[j].from < j
      BY <2>3 DEF IInv, Ordered
    <3> QED
      BY <1>1, <3>1, <3>2 DEF IInv, Ordered
  <2>11. ASSUME NEW j \in Tokens, Held(j)', token'[j].state = "live", token'[j].from # 0
         PROVE  token'[token'[j].from].state = "revoked"
    <3>1. j # old /\ token'[j] = token[j]
      BY <2>2, <2>3, <2>11
    <3>2. CASE j = new
      BY <1>1, <2>2, <2>3, <3>2
    <3>3. CASE j # new
      <4>1. Held(j)
        <5>1. \A p \in Requests : p # q => req'[p] = req[p] /\ pc'[p] = pc[p]
          BY <2>4 DEF Moves, IInv, TypeOK
        <5> QED
          BY <1>1, <2>4, <2>11, <3>3, <5>1 DEF Held
      <4>2. token[token[j].from].state = "revoked"
        BY <2>11, <3>1, <4>1 DEF IInv, RotationRetiresOldToken
      <4>3. token[j].from \in Tokens
        BY <2>11, <3>1, Rows DEF IInv, Tokens
      <4> QED
        BY <2>2, <2>3, <3>1, <4>2, <4>3
    <3> QED
      BY <3>2, <3>3
  <2>12. ASSUME NEW j \in Tokens, token'[j].replacedBy # 0
         PROVE  /\ token'[j].replacedBy \in j + 1 .. issued'
                /\ token'[token'[j].replacedBy].from = j
    <3>1. CASE j = old
      <4>1. old < new
        BY <1>1 DEF IInv, Ordered
      <4>2. new \in old + 1 .. issued'
        BY <1>1, <4>1, Numbers DEF IInv, Tokens
      <4> QED
        BY <1>1, <2>2, <2>3, <3>1, <4>2
    <3>2. CASE j # old
      <4>1. token'[j] = token[j]
        BY <2>3, <3>2
      <4>2. token[j].replacedBy \in j + 1 .. issued /\ token[token[j].replacedBy].from = j
        BY <2>12, <4>1 DEF IInv, ReplacementsFit
      <4>3. token[j].replacedBy \in Tokens
        BY <2>12, <4>1, Rows DEF IInv, Tokens
      <4> QED
        BY <1>1, <2>3, <4>1, <4>2, <4>3
    <3> QED
      BY <3>1, <3>2
  <2> QED
    BY <2>8, <2>9, <2>10, <2>11, <2>12 DEF IInv, RotationRetiresOldToken, ReplacementsFit
<1> QED
  BY <1>2, <1>3

LEMMA DeleteAllKeeps ==
  ASSUME IInv, NEW q \in Requests, DeleteAll(q)
  PROVE  IInv'
<1>1. /\ pc[q] = "deleteAll" /\ UNCHANGED <<issued, account, cookie>> /\ Finish(q)
      /\ issued' \in Nat
  BY Numbers DEF DeleteAll, IInv
<1>2. ASSUME NEW j \in Tokens
      PROVE  /\ token'[j] \in Token /\ token'[j].from = token[j].from
             /\ token[j].state = "none" => token'[j] = token[j]
             /\ token[j].state # "none" =>
                  token'[j].state = "deleted" /\ token'[j].replacedBy = 0
  <2>1. token[j] \in Token /\ token[j].from \in 0..MaxToken
    BY Rows DEF IInv
  <2> DEFINE t == [NoToken EXCEPT !.state = "deleted", !.from = token[j].from]
  <2>2. t \in Token /\ t.state = "deleted" /\ t.from = token[j].from /\ t.replacedBy = 0
    BY <2>1, BareToken
  <2>3. token'[j] = IF token[j].state = "none" THEN token[j] ELSE t
    BY DEF DeleteAll
  <2> HIDE DEF t
  <2> QED
    BY <2>1, <2>2, <2>3
<1>3. token' \in [Tokens -> Token]
  BY <1>2 DEF DeleteAll
<1>4. Grows
  BY <1>1, <1>2, Numbers DEF Grows, IInv
<1>5. Moves(q, "idle", NoRequest) /\ Fit(pc[q], req[q])' /\ "idle" \in Calls /\ NoRequest \in Request
  BY <1>1, FinishFits DEF IInv
<1>6. Fits' /\ pc' \in [Requests -> Calls] /\ req' \in [Requests -> Request]
  BY <1>1, <1>4, <1>5, MoveStep DEF IInv
<1>7. TypeOK'
  BY <1>1, <1>3, <1>6 DEF TypeOK, IInv
<1>8. Ordered'
  <2>1. \A j \in Tokens : j <= issued' <=> token'[j].state # "none"
    BY <1>1, <1>2 DEF IInv, Ordered
  <2>2. \A j \in Tokens : token'[j].from < j
    BY <1>2 DEF IInv, Ordered
  <2> QED
    BY <1>1, <2>1, <2>2 DEF IInv, Ordered
<1>9. RotationRetiresOldToken'
  <2>1. \A j \in Tokens : token'[j].state # "live"
    BY <1>2
  <2> QED
    BY <2>1 DEF RotationRetiresOldToken
<1>10. ReplacementsFit'
  <2>1. ASSUME NEW j \in Tokens, token'[j].replacedBy # 0
        PROVE  FALSE
    <3>1. token[j].state = "none" /\ token[j].replacedBy # 0
      BY <1>2, <2>1
    <3>2. token[j].replacedBy \in j + 1 .. issued /\ ~(j <= issued)
      BY <3>1 DEF IInv, Ordered, ReplacementsFit
    <3> QED
      BY <3>2, Numbers, Rows DEF IInv
  <2> QED
    BY <2>1 DEF ReplacementsFit
<1> QED
  BY <1>6, <1>7, <1>8, <1>9, <1>10 DEF IInv

---------------------------------------------------------------------------
\* The theorems about Sessions

LEMMA InitFits == Init => IInv
<1> SUFFICES ASSUME Init PROVE IInv
  OBVIOUS
<1>1. NoToken \in Token /\ NoToken.state = "none" /\ NoToken.from = 0 /\ NoToken.replacedBy = 0
  BY NoTokenTyped
<1>2. TypeOK
  BY <1>1, NoRequestTyped, TokenAssumption DEF Init, TypeOK, Calls
<1>3. Ordered
  BY <1>1, Rows, <1>2 DEF Init, Ordered
<1>4. Fits
  <2>1. ASSUME NEW q \in Requests
        PROVE  Fit(pc[q], req[q])
    <3>1. pc[q] = "idle" /\ req[q] = NoRequest /\ issued = 0
      BY DEF Init
    <3>2. req[q].kind = "none" /\ req[q].old = 0 /\ req[q].new = 0
      BY <3>1, NoRequestTyped
    <3> QED
      BY <3>1, <3>2 DEF Fit
  <2> QED
    BY <2>1 DEF Fits
<1>5. RotationRetiresOldToken /\ ReplacementsFit
  BY <1>1 DEF Init, RotationRetiresOldToken, ReplacementsFit
<1> QED
  BY <1>2, <1>3, <1>4, <1>5 DEF IInv

LEMMA NextKeeps == IInv /\ [Next]_vars => IInv'
<1> SUFFICES ASSUME IInv, [Next]_vars PROVE IInv'
  OBVIOUS
<1>1. ASSUME NEW q \in Requests, Step(q)
      PROVE  IInv'
  BY <1>1, LoginBeginKeeps, IssueKeeps, RefreshBeginKeeps, FindTokenKeeps, FindReplacementKeeps,
     RevokeAllKeeps, RevokeKeeps, LogoutBeginKeeps, LogoutKeeps, AnswerKeeps, RequestResetKeeps,
     ResetBeginKeeps, SetPasswordKeeps, DeleteAllKeeps, AbortKeeps DEF Step
<1>2. CASE SetActive \/ ResetExpires
  <2>1. Quiet /\ UNCHANGED <<cookie, pc, req>> /\ account' \in Account
    BY <1>2, AccountTyped DEF SetActive, ResetExpires, Quiet, IInv
  <2> QED
    BY <2>1, QuietSoftens, WorldKeeps DEF IInv
<1>3. ASSUME NEW j \in Tokens, Elapse(j)
      PROVE  IInv'
  BY <1>3, ElapseKeeps
<1>4. CASE UNCHANGED vars
  <2>1. Quiet /\ UNCHANGED <<cookie, pc, req>> /\ account' \in Account
    BY <1>4, AccountTyped DEF vars, Quiet, IInv
  <2> QED
    BY <2>1, QuietSoftens, WorldKeeps DEF IInv
<1> QED
  BY <1>1, <1>2, <1>3, <1>4 DEF Next

LEMMA Inductive == Spec => []IInv
  BY InitFits, NextKeeps, PTL DEF Spec

\* Every reachable state of tokens, cookies and requests is well typed: whatever
\* a request remembers of a token is the number of a token that may exist.
THEOREM TypeCorrect == Spec => []TypeOK
<1>1. IInv => TypeOK
  BY DEF IInv
<1> QED
  BY <1>1, Inductive, PTL

\* However rotations, logouts, revocations and password resets overlap and
\* whichever of them die half-way, a client that got a live successor of a token
\* by refreshing has had the old one revoked.
THEOREM RotationsRetire == Spec => []RotationRetiresOldToken
<1>1. IInv => RotationRetiresOldToken
  BY DEF IInv
<1> QED
  BY <1>1, Inductive, PTL

\* replacedById always leads to a later token that was issued for this one.
THEOREM ReplacementsLead == Spec => []ReplacementsFit
<1>1. IInv => ReplacementsFit
  BY DEF IInv
<1> QED
  BY <1>1, Inductive, PTL

---------------------------------------------------------------------------
\* Invitations

\* The steps, by what they do to the invitations.  A status is set at one
\* invitation; the others keep everything.

\* Requests that arrive at an invitation, or at none.
Arrives(q) ==
    \/ SendBegin(q) \/ ResendBegin(q) \/ CancelBegin(q) \/ ExpireBegin(q)
    \/ CompleteBegin(q) \/ AddUserBegin(q)

\* Steps that leave the invitations alone.
Passes(q) == CreateOrg(q) \/ FindUser(q) \/ FindLatest(q) \/ AddUser(q)

\* Steps that set a status.
Marks(q) == Replace(q) \/ Cancel(q) \/ Expire(q) \/ Accept(q)

LEMMA Steps ==
    InviteNext <=> \/ \E q \in Requests : \/ Arrives(q) \/ Passes(q) \/ Marks(q)
                                    \/ Create(q) \/ CreateAccount(q) \/ BreakOff(q)
             \/ RemoveUser \/ LinkExpires
  BY DEF InviteNext, InviteStep, Arrives, Passes, Marks

New == [status |-> "PENDING", expired |-> FALSE, used |-> FALSE, lost |-> FALSE, closed |-> FALSE]

\* Replacing one invitation.
LEMMA Replaced ==
  ASSUME inv \in Seq(Invitation), NEW i \in DOMAIN inv, NEW row \in Invitation
  PROVE  /\ [inv EXCEPT ![i] = row] \in Seq(Invitation)
         /\ Len([inv EXCEPT ![i] = row]) = Len(inv)
         /\ DOMAIN [inv EXCEPT ![i] = row] = DOMAIN inv
         /\ [inv EXCEPT ![i] = row][i] = row
         /\ \A j \in DOMAIN inv : j # i => [inv EXCEPT ![i] = row][j] = inv[j]
         /\ [inv EXCEPT ![i] = row] # <<>>
  BY ExceptSeq

LEMMA ArrivesStep ==
  ASSUME InviteTypeOK, NEW q \in Requests, Arrives(q)
  PROVE  \E call \in InviteCalls, i \in 0 .. MaxInv :
            /\ Arrive(q, call, i)
            /\ call # "create" /\ call # "accept" /\ call # "idle"
            /\ call \in { "replace", "expire", "account", "cancel" } => i \in DOMAIN inv
            /\ call = "replace" => inv[i].status = "PENDING"
            /\ call = "cancel" => inv[i].status # "ACCEPTED"
            /\ call = "expire" => inv[i].expired
            /\ call = "account" => /\ ~inv[i].expired
                                   /\ inv[i].status \notin { "ACCEPTED", "CANCELLED" }
<1>0. DOMAIN inv \subseteq 0 .. MaxInv /\ 0 \in 0 .. MaxInv
  BY MaxInvNat DEF InviteTypeOK
<1>1. CASE SendBegin(q)
  BY <1>0, <1>1 DEF SendBegin, InviteCalls
<1>2. CASE ResendBegin(q)
  BY <1>0, <1>2 DEF ResendBegin, InviteCalls
<1>3. CASE CancelBegin(q)
  BY <1>0, <1>3 DEF CancelBegin, InviteCalls
<1>4. CASE ExpireBegin(q)
  BY <1>0, <1>4 DEF ExpireBegin, InviteCalls
<1>5. CASE CompleteBegin(q)
  BY <1>0, <1>5 DEF CompleteBegin, InviteCalls
<1>6. CASE AddUserBegin(q)
  BY <1>0, <1>6 DEF AddUserBegin, InviteCalls
<1> QED
  BY <1>1, <1>2, <1>3, <1>4, <1>5, <1>6 DEF Arrives

\* Setting the status at an invitation.
LEMMA SetStatusStep ==
  ASSUME InviteTypeOK, NEW q \in Requests, at[q] \in DOMAIN inv, NEW s \in Statuses, SetStatus(q, s)
  PROVE  /\ inv' \in Seq(Invitation) /\ Len(inv') = Len(inv) /\ DOMAIN inv' = DOMAIN inv
         /\ inv' # <<>>
         /\ inv'[at[q]].status = s
         /\ inv'[at[q]].expired = inv[at[q]].expired
         /\ inv'[at[q]].used = inv[at[q]].used
         /\ inv'[at[q]].lost = inv[at[q]].lost
         /\ inv'[at[q]].closed = (inv[at[q]].closed \/ s \in { "ACCEPTED", "CANCELLED" })
         /\ \A j \in DOMAIN inv : j # at[q] => inv'[j] = inv[j]
<1>1. inv[at[q]] \in Invitation
  BY LenProperties DEF InviteTypeOK
<1>2. /\ Marked(inv[at[q]], s) \in Invitation
      /\ Marked(inv[at[q]], s).status = s
      /\ Marked(inv[at[q]], s).expired = inv[at[q]].expired
      /\ Marked(inv[at[q]], s).used = inv[at[q]].used
      /\ Marked(inv[at[q]], s).lost = inv[at[q]].lost
      /\ Marked(inv[at[q]], s).closed
            = (inv[at[q]].closed \/ s \in { "ACCEPTED", "CANCELLED" })
  BY <1>1 DEF Invitation, Marked
<1>3. inv' = [inv EXCEPT ![at[q]] = Marked(inv[at[q]], s)]
  BY DEF SetStatus
<1> QED
  BY <1>2, <1>3, Replaced DEF InviteTypeOK

\* The steps that leave every status alone: what they do to history and time.
LEMMA RowStep ==
  ASSUME InviteTypeOK, NEW i \in DOMAIN inv, NEW row \in Invitation,
         inv' = [inv EXCEPT ![i] = row]
  PROVE  /\ inv' \in Seq(Invitation) /\ Len(inv') = Len(inv) /\ DOMAIN inv' = DOMAIN inv
         /\ inv' # <<>>
         /\ inv'[i] = row
         /\ \A j \in DOMAIN inv : j # i => inv'[j] = inv[j]
  BY Replaced DEF InviteTypeOK

\* A step that changes one column of one invitation, neither status nor closed.
Touches(i) ==
    /\ inv' \in Seq(Invitation) /\ Len(inv') = Len(inv) /\ DOMAIN inv' = DOMAIN inv
    /\ inv' # <<>>
    /\ inv'[i].status = inv[i].status
    /\ inv'[i].closed = inv[i].closed
    /\ inv[i].expired => inv'[i].expired
    /\ \A j \in DOMAIN inv : j # i => inv'[j] = inv[j]

LEMMA TouchStep ==
  ASSUME InviteTypeOK, NEW i \in DOMAIN inv
  PROVE  /\ inv' = [inv EXCEPT ![i].used = TRUE] =>
               Touches(i) /\ inv'[i].used /\ inv'[i].lost = inv[i].lost
         /\ inv' = [inv EXCEPT ![i].lost = TRUE] =>
               Touches(i) /\ inv'[i].used = inv[i].used /\ inv'[i].lost
         /\ inv' = [inv EXCEPT ![i].expired = TRUE] =>
               /\ Touches(i) /\ inv'[i].used = inv[i].used /\ inv'[i].lost = inv[i].lost
               /\ inv'[i].expired
<1>1. inv[i] \in Invitation
  BY LenProperties DEF InviteTypeOK
<1>2. ASSUME inv' = [inv EXCEPT ![i].used = TRUE]
      PROVE  Touches(i) /\ inv'[i].used /\ inv'[i].lost = inv[i].lost
  <2>1. [inv[i] EXCEPT !.used = TRUE] \in Invitation
    BY <1>1 DEF Invitation
  <2>2. inv' = [inv EXCEPT ![i] = [inv[i] EXCEPT !.used = TRUE]]
    BY <1>2
  <2> QED
    BY <1>1, <2>1, <2>2, RowStep DEF Touches, Invitation
<1>3. ASSUME inv' = [inv EXCEPT ![i].lost = TRUE]
      PROVE  Touches(i) /\ inv'[i].used = inv[i].used /\ inv'[i].lost
  <2>1. [inv[i] EXCEPT !.lost = TRUE] \in Invitation
    BY <1>1 DEF Invitation
  <2>2. inv' = [inv EXCEPT ![i] = [inv[i] EXCEPT !.lost = TRUE]]
    BY <1>3
  <2> QED
    BY <1>1, <2>1, <2>2, RowStep DEF Touches, Invitation
<1>4. ASSUME inv' = [inv EXCEPT ![i].expired = TRUE]
      PROVE  /\ Touches(i) /\ inv'[i].used = inv[i].used /\ inv'[i].lost = inv[i].lost
             /\ inv'[i].expired
  <2>1. [inv[i] EXCEPT !.expired = TRUE] \in Invitation
    BY <1>1 DEF Invitation
  <2>2. inv' = [inv EXCEPT ![i] = [inv[i] EXCEPT !.expired = TRUE]]
    BY <1>4
  <2> QED
    BY <1>1, <2>1, <2>2, RowStep DEF Touches, Invitation
<1> QED
  BY <1>2, <1>3, <1>4

LEMMA CreateStep ==
  ASSUME InviteTypeOK, NEW q \in Requests, Create(q)
  PROVE  /\ inv' \in Seq(Invitation) /\ Len(inv') = Len(inv) + 1
         /\ DOMAIN inv' = DOMAIN inv \cup { Len(inv') }
         /\ \A j \in DOMAIN inv : j # Len(inv') /\ inv'[j] = inv[j]
         /\ inv'[Len(inv')] = New
         /\ inv' # <<>>
<1>1. New \in Invitation
  BY DEF New, Invitation, Statuses
<1>2. inv' = Append(inv, New)
  BY DEF Create, New
<1> QED
  BY <1>1, <1>2, AppendProperties, LenProperties DEF InviteTypeOK

---------------------------------------------------------------------------
\* Types

\* Who is past the look-up of the organisation found one, or made it.
OrgFound ==
    \A q \in Requests : pc[q] \in { "findUser", "findLatest", "create", "addUser" } => org

TypeInv == InviteTypeOK /\ OrgFound

LEMMA InitTyped == InviteInit => TypeInv
<1> SUFFICES ASSUME InviteInit PROVE TypeInv
  OBVIOUS
<1>1. inv \in Seq(Invitation) /\ Len(inv) = 0
  BY EmptySeq DEF InviteInit
<1>2. pc \in [Requests -> InviteCalls] /\ at \in [Requests -> 0 .. MaxInv]
  BY MaxInvNat DEF InviteInit, InviteCalls
<1>3. \A q \in Requests : pc[q] = "idle"
  BY DEF InviteInit
<1>4. Len(inv) <= MaxInv
  BY <1>1, MaxInvNat
<1>5. /\ org \in BOOLEAN /\ user \in BOOLEAN /\ alone \in BOOLEAN
      /\ user \/ inv # <<>> => org
  BY DEF InviteInit
<1> QED
  BY <1>1, <1>2, <1>3, <1>4, <1>5 DEF TypeInv, InviteTypeOK, OrgFound

LEMMA ArrivesTyped ==
  ASSUME TypeInv, NEW q \in Requests, Arrives(q)
  PROVE  TypeInv'
<1>1. PICK call \in InviteCalls, i \in 0 .. MaxInv :
        /\ Arrive(q, call, i)
        /\ call \in { "replace", "expire", "account", "cancel" } => i \in DOMAIN inv
        /\ call # "accept" /\ call # "create"
  BY ArrivesStep DEF TypeInv
<1>2. call \in { "findUser", "findLatest", "addUser" } => org
  <2>1. CASE SendBegin(q)
    BY <1>1, <2>1 DEF SendBegin, Arrive, TypeInv, InviteTypeOK
  <2>2. CASE AddUserBegin(q)
    BY <2>2 DEF AddUserBegin
  <2>3. CASE ~SendBegin(q) /\ ~AddUserBegin(q)
    <3>1. pc'[q] \in { "replace", "cancel", "expire", "account" }
      BY <2>3 DEF Arrives, ResendBegin, CancelBegin, ExpireBegin, CompleteBegin, Arrive,
                  TypeInv, InviteTypeOK
    <3> QED
      BY <1>1, <3>1 DEF Arrive, TypeInv, InviteTypeOK
  <2> QED
    BY <2>1, <2>2, <2>3
<1>3. /\ pc' = [pc EXCEPT ![q] = call] /\ at' = [at EXCEPT ![q] = i]
      /\ alone' \in BOOLEAN /\ UNCHANGED <<org, user, inv>>
  BY <1>1 DEF Arrive, TypeInv, InviteTypeOK
<1> QED
  BY <1>1, <1>2, <1>3 DEF TypeInv, InviteTypeOK, OrgFound

\* Going on, with the invitations typed and none of them lost.
LEMMA GotoTyped ==
  ASSUME TypeInv, NEW q \in Requests, NEW call \in InviteCalls, GoOn(q, call),
         inv' \in Seq(Invitation), Len(inv') <= MaxInv, DOMAIN inv \subseteq DOMAIN inv',
         org' \in BOOLEAN, user' \in BOOLEAN, org => org', user' \/ inv' # <<>> => org',
         call \in { "replace", "expire", "account", "accept", "cancel" } => at[q] \in DOMAIN inv,
         call \in { "findUser", "findLatest", "create", "addUser" } => org'
  PROVE  TypeInv'
<1>1. /\ pc' = [pc EXCEPT ![q] = call] /\ alone' = alone
      /\ at' = [at EXCEPT ![q] = IF call = "idle" THEN 0 ELSE at[q]]
  BY DEF GoOn
<1>2. pc' \in [Requests -> InviteCalls] /\ at' \in [Requests -> 0 .. MaxInv]
  BY <1>1, MaxInvNat DEF TypeInv, InviteTypeOK
<1>3. \A p \in Requests : pc'[p] \in { "replace", "expire", "account", "accept", "cancel" }
                            => at'[p] \in DOMAIN inv'
  BY <1>1 DEF TypeInv, InviteTypeOK
<1>4. OrgFound'
  BY <1>1 DEF TypeInv, InviteTypeOK, OrgFound
<1> QED
  BY <1>1, <1>2, <1>3, <1>4 DEF TypeInv, InviteTypeOK

\* Which status is set, and when.
Sets(q, s) ==
    \/ s = "CANCELLED" /\ pc[q] = "replace" /\ GoOn(q, "create")
    \/ s = "CANCELLED" /\ pc[q] = "cancel" /\ GoOn(q, "idle")
    \/ s = "EXPIRED" /\ pc[q] = "expire" /\ GoOn(q, "idle")
    \/ s = "ACCEPTED" /\ pc[q] = "accept" /\ GoOn(q, "idle")

LEMMA MarksStep ==
  ASSUME InviteTypeOK, NEW q \in Requests, Marks(q)
  PROVE  \E s \in Statuses :
            at[q] \in DOMAIN inv /\ SetStatus(q, s) /\ Sets(q, s) /\ UNCHANGED <<org, user>>
<1>0. /\ pc[q] \in { "replace", "cancel", "expire", "accept" } => at[q] \in DOMAIN inv
      /\ {"CANCELLED", "EXPIRED", "ACCEPTED"} \subseteq Statuses
  BY DEF InviteTypeOK, Statuses
<1>1. CASE Replace(q)
  BY <1>0, <1>1 DEF Replace, Sets
<1>2. CASE Cancel(q)
  BY <1>0, <1>2 DEF Cancel, Sets
<1>3. CASE Expire(q)
  BY <1>0, <1>3 DEF Expire, Sets
<1>4. CASE Accept(q)
  BY <1>0, <1>4 DEF Accept, Sets
<1> QED
  BY <1>1, <1>2, <1>3, <1>4 DEF Marks

LEMMA NextTyped == TypeInv /\ [InviteNext]_inviteVars => TypeInv'
<1> SUFFICES ASSUME TypeInv, [InviteNext]_inviteVars PROVE TypeInv'
  OBVIOUS
<1>0. /\ InviteTypeOK /\ inv \in Seq(Invitation) /\ Len(inv) \in Nat /\ Len(inv) <= MaxInv
      /\ {"idle", "create", "findUser", "findLatest", "accept"} \subseteq InviteCalls
      /\ inv # <<>> <=> Len(inv) > 0
      /\ DOMAIN inv = 1 .. Len(inv)
  BY LenProperties, EmptySeq DEF TypeInv, InviteTypeOK, InviteCalls
<1>1. ASSUME NEW q \in Requests, Arrives(q) PROVE TypeInv'
  BY <1>1, ArrivesTyped
<1>2. ASSUME NEW q \in Requests, Passes(q) PROVE TypeInv'
  <2>1. CASE CreateOrg(q)
    BY <1>0, <2>1, GotoTyped DEF CreateOrg, TypeInv, InviteTypeOK
  <2>2. CASE FindUser(q)
    BY <1>0, <2>2, GotoTyped DEF FindUser, TypeInv, InviteTypeOK, OrgFound
  <2>3. CASE FindLatest(q)
    BY <1>0, <2>3, GotoTyped DEF FindLatest, TypeInv, InviteTypeOK, OrgFound
  <2>4. CASE AddUser(q)
    BY <1>0, <2>4, GotoTyped DEF AddUser, TypeInv, InviteTypeOK, OrgFound
  <2> QED
    BY <1>2, <2>1, <2>2, <2>3, <2>4 DEF Passes
<1>3. ASSUME NEW q \in Requests, Marks(q) PROVE TypeInv'
  <2>1. PICK s \in Statuses :
          /\ at[q] \in DOMAIN inv /\ SetStatus(q, s) /\ UNCHANGED <<org, user>>
          /\ (GoOn(q, "create") \/ GoOn(q, "idle"))
    BY <1>0, <1>3, MarksStep DEF Sets
  <2>2. inv' \in Seq(Invitation) /\ Len(inv') = Len(inv) /\ DOMAIN inv' = DOMAIN inv
    BY <1>0, <2>1, SetStatusStep
  <2>3. org
    BY <1>0, <2>1 DEF InviteTypeOK
  <2> QED
    BY <1>0, <2>1, <2>2, <2>3, GotoTyped DEF InviteTypeOK
<1>4. ASSUME NEW q \in Requests, Create(q) PROVE TypeInv'
  <2>1. inv' \in Seq(Invitation) /\ Len(inv') = Len(inv) + 1 /\ DOMAIN inv \subseteq DOMAIN inv'
    BY <1>0, <1>4, CreateStep
  <2>2. Len(inv') <= MaxInv
    BY <1>0, <1>4, <2>1, MaxInvNat DEF Create
  <2>3. org /\ GoOn(q, "idle") /\ UNCHANGED <<org, user>>
    BY <1>4 DEF Create, TypeInv, OrgFound
  <2> QED
    BY <1>0, <2>1, <2>2, <2>3, GotoTyped DEF InviteTypeOK
<1>5. ASSUME NEW q \in Requests, CreateAccount(q) PROVE TypeInv'
  <2>1. at[q] \in DOMAIN inv
    BY <1>0, <1>5 DEF CreateAccount, InviteTypeOK
  <2>2. Touches(at[q])
    BY <1>0, <1>5, <2>1, TouchStep DEF CreateAccount
  <2>3. org /\ org' = org /\ user' = TRUE /\ GoOn(q, "accept")
    BY <1>0, <1>5, <2>1 DEF CreateAccount, InviteTypeOK
  <2> QED
    BY <1>0, <2>1, <2>2, <2>3, GotoTyped DEF InviteTypeOK, Touches
<1>6. ASSUME NEW q \in Requests, BreakOff(q) PROVE TypeInv'
  <2>1. inv' = inv \/ (at[q] \in DOMAIN inv /\ Touches(at[q]))
    BY <1>0, <1>6, TouchStep DEF BreakOff, InviteTypeOK
  <2>2. GoOn(q, "idle") /\ UNCHANGED <<org, user>>
    BY <1>6 DEF BreakOff
  <2>3. /\ inv' \in Seq(Invitation) /\ Len(inv') = Len(inv) /\ DOMAIN inv' = DOMAIN inv
        /\ inv' # <<>> => org
    BY <1>0, <2>1 DEF InviteTypeOK, Touches
  <2> QED
    BY <1>0, <2>2, <2>3, GotoTyped DEF InviteTypeOK
<1>7. CASE RemoveUser
  BY <1>7 DEF RemoveUser, TypeInv, InviteTypeOK, OrgFound
<1>8. CASE LinkExpires
  <2>1. PICK i \in DOMAIN inv : Touches(i) /\ UNCHANGED <<org, user, pc, at, alone>>
    BY <1>0, <1>8, TouchStep DEF LinkExpires
  <2> QED
    BY <1>0, <2>1 DEF TypeInv, InviteTypeOK, OrgFound, Touches
<1>9. CASE UNCHANGED inviteVars
  BY <1>9 DEF inviteVars, TypeInv, InviteTypeOK, OrgFound
<1> QED
  BY <1>1, <1>2, <1>3, <1>4, <1>5, <1>6, <1>7, <1>8, <1>9, Steps

\* The states of Invitations are well typed; nobody is invited to, or has an
\* account in, an organisation that does not exist.
THEOREM InvitationsTypeCorrect == InviteSpec => []InviteTypeOK
<1>1. TypeInv => InviteTypeOK
  BY DEF TypeInv
<1> QED
  BY <1>1, InitTyped, NextTyped, PTL DEF InviteSpec

---------------------------------------------------------------------------
\* Closed for good

\* EXPIRED hides what an invitation was before, but is only written once the
\* invitation has expired, which never passes.
ClosedInv ==
    /\ \A i \in DOMAIN inv :
          inv[i].closed => inv[i].expired \/ inv[i].status \in { "ACCEPTED", "CANCELLED" }
    /\ \A q \in Requests : pc[q] = "expire" => inv[at[q]].expired

\* An arrival changes one slot.
LEMMA ArriveRest ==
  ASSUME InviteTypeOK, NEW q \in Requests, NEW call, NEW i, Arrive(q, call, i)
  PROVE  /\ pc[q] = "idle" /\ pc'[q] = call /\ at'[q] = i
         /\ \A p \in Requests \ {q} : pc'[p] = pc[p] /\ at'[p] = at[p]
         /\ UNCHANGED <<org, user, inv>>
         /\ alone' => alone /\ \A p \in Requests : pc[p] = "idle"
  BY DEF Arrive, InviteTypeOK

LEMMA GotoRest ==
  ASSUME InviteTypeOK, NEW q \in Requests, NEW call, GoOn(q, call)
  PROVE  /\ pc'[q] = call /\ (call # "idle" => at'[q] = at[q])
         /\ \A p \in Requests \ {q} : pc'[p] = pc[p] /\ at'[p] = at[p]
         /\ alone' = alone
  BY DEF GoOn, InviteTypeOK

LEMMA PassesStep ==
  ASSUME NEW q \in Requests, Passes(q)
  PROVE  /\ inv' = inv /\ pc[q] # "idle"
         /\ \E call \in { "idle", "findUser", "findLatest", "create" } :
               /\ GoOn(q, call)
               /\ call = "create" /\ inv # <<>> => inv[Len(inv)].status # "PENDING"
<1>1. CASE CreateOrg(q)
  BY <1>1 DEF CreateOrg
<1>2. CASE FindUser(q)
  BY <1>2 DEF FindUser
<1>3. CASE FindLatest(q)
  BY <1>3 DEF FindLatest
<1>4. CASE AddUser(q)
  BY <1>4 DEF AddUser
<1> QED
  BY <1>1, <1>2, <1>3, <1>4 DEF Passes

LEMMA ClosedInvStep == TypeInv /\ ClosedInv /\ [InviteNext]_inviteVars => ClosedInv'
<1> SUFFICES ASSUME TypeInv, ClosedInv, [InviteNext]_inviteVars PROVE ClosedInv'
  OBVIOUS
<1>0. /\ InviteTypeOK /\ inv \in Seq(Invitation)
      /\ \A q \in Requests : pc[q] = "expire" => at[q] \in DOMAIN inv
  BY DEF TypeInv, InviteTypeOK
<1>1. ASSUME NEW q \in Requests, Arrives(q) PROVE ClosedInv'
  <2>1. PICK call \in InviteCalls, i \in 0 .. MaxInv :
          Arrive(q, call, i) /\ (call = "expire" => inv[i].expired)
    BY <1>0, <1>1, ArrivesStep
  <2> QED
    BY <1>0, <2>1, ArriveRest DEF ClosedInv
<1>2. ASSUME NEW q \in Requests, Passes(q) PROVE ClosedInv'
  BY <1>0, <1>2, PassesStep, GotoRest DEF ClosedInv
<1>3. ASSUME NEW q \in Requests, Marks(q) PROVE ClosedInv'
  <2>1. PICK s \in Statuses : at[q] \in DOMAIN inv /\ SetStatus(q, s) /\ Sets(q, s)
    BY <1>0, <1>3, MarksStep
  <2>2. s = "EXPIRED" => inv[at[q]].expired
    BY <2>1 DEF Sets, ClosedInv
  <2>3. s \in { "CANCELLED", "ACCEPTED", "EXPIRED" }
    BY <2>1 DEF Sets
  <2>4. PICK call \in { "create", "idle" } : GoOn(q, call)
    BY <2>1 DEF Sets
  <2>5. \A i \in DOMAIN inv : inv'[i].expired = inv[i].expired
    BY <1>0, <2>1, SetStatusStep
  <2>6. \A i \in DOMAIN inv' : inv'[i].closed =>
            inv'[i].expired \/ inv'[i].status \in { "ACCEPTED", "CANCELLED" }
    BY <1>0, <2>1, <2>2, <2>3, SetStatusStep DEF ClosedInv
  <2> QED
    BY <1>0, <2>4, <2>5, <2>6, GotoRest DEF ClosedInv
<1>4. ASSUME NEW q \in Requests, Create(q) PROVE ClosedInv'
  <2>1. GoOn(q, "idle")
    BY <1>4 DEF Create
  <2> QED
    BY <1>0, <1>4, <2>1, CreateStep, GotoRest DEF ClosedInv, New
<1>5. ASSUME NEW i \in DOMAIN inv, Touches(i),
             \A p \in Requests : pc'[p] = "expire" => pc[p] = "expire" /\ at'[p] = at[p]
      PROVE  ClosedInv'
  BY <1>0, <1>5 DEF Touches, ClosedInv
<1>6. ASSUME NEW q \in Requests, CreateAccount(q) \/ BreakOff(q) PROVE ClosedInv'
  <2>1. \A p \in Requests : pc'[p] = "expire" => pc[p] = "expire" /\ at'[p] = at[p]
    BY <1>0, <1>6, GotoRest DEF CreateAccount, BreakOff
  <2>2. inv' = inv \/ (at[q] \in DOMAIN inv /\ Touches(at[q]))
    BY <1>0, <1>6, TouchStep DEF CreateAccount, BreakOff, InviteTypeOK
  <2> QED
    BY <1>5, <2>1, <2>2 DEF ClosedInv
<1>7. CASE LinkExpires
  <2>1. PICK i \in DOMAIN inv : Touches(i) /\ UNCHANGED <<pc, at>>
    BY <1>0, <1>7, TouchStep DEF LinkExpires
  <2> QED
    BY <1>5, <2>1
<1>8. CASE RemoveUser \/ UNCHANGED inviteVars
  BY <1>8 DEF RemoveUser, inviteVars, ClosedInv
<1> QED
  BY <1>1, <1>2, <1>3, <1>4, <1>6, <1>7, <1>8, Steps

\* completeInvitation never begins with an invitation that was accepted or
\* cancelled before, whichever late update wrote its status last.
THEOREM ClosedForGood == InviteSpec => ClosedStaysClosed
<1>1. InviteInit => TypeInv /\ ClosedInv
  BY InitTyped DEF InviteInit, ClosedInv
<1>2. (TypeInv /\ ClosedInv) /\ [InviteNext]_inviteVars => (TypeInv /\ ClosedInv)'
  BY NextTyped, ClosedInvStep
<1>3. TypeInv /\ ClosedInv /\ [InviteNext]_inviteVars =>
        [\A q \in Requests :
            pc[q] = "idle" /\ pc'[q] = "account" => ~inv[at'[q]].closed]_inviteVars
  <2> SUFFICES ASSUME TypeInv, ClosedInv, InviteNext, NEW q \in Requests,
                      pc[q] = "idle", pc'[q] = "account"
               PROVE  ~inv[at'[q]].closed
    BY DEF inviteVars
  <2>0. InviteTypeOK
    BY DEF TypeInv
  <2>1. \A p \in Requests : ~Passes(p) /\ ~Marks(p) /\ ~Create(p) /\ ~CreateAccount(p) /\ ~BreakOff(p)
    BY <2>0 DEF Passes, CreateOrg, FindUser, FindLatest, AddUser, Marks, Replace, Cancel,
                Expire, Accept, Create, CreateAccount, BreakOff, GoOn, InviteTypeOK
  <2>2. ~RemoveUser /\ ~LinkExpires
    BY DEF RemoveUser, LinkExpires
  <2>3. PICK p \in Requests : Arrives(p)
    BY <2>1, <2>2, Steps
  <2>4. PICK call \in InviteCalls, i \in 0 .. MaxInv :
          /\ Arrive(p, call, i)
          /\ call = "account" => /\ i \in DOMAIN inv /\ ~inv[i].expired
                                 /\ inv[i].status \notin { "ACCEPTED", "CANCELLED" }
    BY <2>0, <2>3, ArrivesStep
  <2>5. p = q /\ call = "account" /\ at'[q] = i
    BY <2>0, <2>4, ArriveRest
  <2> QED
    BY <2>4, <2>5 DEF ClosedInv
<1> QED
  BY <1>1, <1>2, <1>3, PTL DEF InviteSpec, ClosedStaysClosed

---------------------------------------------------------------------------
\* One after the other

\* The pending invitation is the latest one, which is the only one that
\* sendInvitation looks at; what a request found is still so when it writes.
AloneInv ==
    /\ \A p, q \in Requests : pc[p] # "idle" /\ pc[q] # "idle" => p = q
    /\ \A i \in DOMAIN inv : inv[i].status = "PENDING" => i = Len(inv)
    /\ \A q \in Requests :
          /\ pc[q] = "create" => \A i \in DOMAIN inv : inv[i].status # "PENDING"
          /\ pc[q] = "replace" => inv[at[q]].status = "PENDING"
          /\ pc[q] = "cancel" => inv[at[q]].status # "ACCEPTED"
          /\ pc[q] = "expire" => inv[at[q]].expired

\* AcceptanceKeptAlone, for one invitation.
KeptAt(i) ==
    \/ ~inv[i].used \/ inv[i].lost
    \/ inv[i].status = "ACCEPTED"
    \/ inv[i].expired /\ inv[i].status # "PENDING"
    \/ \E q \in Requests : pc[q] = "accept" /\ at[q] = i

KeptInv == \A i \in DOMAIN inv : KeptAt(i)

Serial == alone => AloneInv /\ KeptInv

\* Who is not idle is the only one.
LEMMA Others ==
  ASSUME AloneInv, NEW q \in Requests, pc[q] # "idle"
  PROVE  \A p \in Requests \ {q} : pc[p] = "idle"
  BY DEF AloneInv

LEMMA SerialArrives ==
  ASSUME TypeInv, Serial, NEW q \in Requests, Arrives(q)
  PROVE  Serial'
<1> SUFFICES ASSUME alone' PROVE AloneInv' /\ KeptInv'
  BY DEF Serial
<1>1. PICK call \in InviteCalls, i \in 0 .. MaxInv :
        /\ Arrive(q, call, i)
        /\ call # "create" /\ call # "accept" /\ call # "idle"
        /\ call = "replace" => inv[i].status = "PENDING"
        /\ call = "cancel" => inv[i].status # "ACCEPTED"
        /\ call = "expire" => inv[i].expired
  BY ArrivesStep DEF TypeInv
<1>2. /\ pc[q] = "idle" /\ pc'[q] = call /\ at'[q] = i /\ inv' = inv /\ alone
      /\ \A p \in Requests : pc[p] = "idle"
      /\ \A p \in Requests \ {q} : pc'[p] = pc[p] /\ at'[p] = at[p]
  BY <1>1, ArriveRest DEF TypeInv
<1> QED
  BY <1>1, <1>2 DEF Serial, AloneInv, KeptInv, KeptAt

LEMMA SerialPasses ==
  ASSUME TypeInv, Serial, NEW q \in Requests, Passes(q)
  PROVE  Serial'
<1> SUFFICES ASSUME alone' PROVE AloneInv' /\ KeptInv'
  BY DEF Serial
<1>0. InviteTypeOK /\ (inv = <<>> => DOMAIN inv = {})
  BY DEF TypeInv
<1>1. PICK call \in { "idle", "findUser", "findLatest", "create" } :
        /\ GoOn(q, call)
        /\ call = "create" /\ inv # <<>> => inv[Len(inv)].status # "PENDING"
  BY PassesStep
<1>2. pc[q] \notin { "idle", "accept" } /\ inv' = inv
  BY <1>0, PassesStep DEF Passes, CreateOrg, FindUser, FindLatest, AddUser
<1>3. alone /\ pc'[q] = call /\ \A p \in Requests \ {q} : pc'[p] = pc[p] /\ at'[p] = at[p]
  BY <1>0, <1>1, GotoRest
<1>4. \A p \in Requests \ {q} : pc[p] = "idle"
  BY <1>2, <1>3, Others DEF Serial
<1>5. call = "create" => \A i \in DOMAIN inv : inv[i].status # "PENDING"
  BY <1>0, <1>1, <1>3 DEF Serial, AloneInv
<1> QED
  BY <1>1, <1>2, <1>3, <1>4, <1>5 DEF Serial, AloneInv, KeptInv, KeptAt

LEMMA SerialMarks ==
  ASSUME TypeInv, Serial, NEW q \in Requests, Marks(q)
  PROVE  Serial'
<1> SUFFICES ASSUME alone' PROVE AloneInv' /\ KeptInv'
  BY DEF Serial
<1>0. InviteTypeOK
  BY DEF TypeInv
<1>1. PICK s \in Statuses : at[q] \in DOMAIN inv /\ SetStatus(q, s) /\ Sets(q, s)
  BY <1>0, MarksStep
<1>2. PICK call \in { "create", "idle" } : GoOn(q, call) /\ (call = "create" => pc[q] = "replace")
  BY <1>1 DEF Sets
<1>3. /\ alone /\ pc[q] # "idle" /\ pc'[q] = call
      /\ \A p \in Requests \ {q} : pc'[p] = pc[p] /\ at'[p] = at[p]
  BY <1>0, <1>1, <1>2, GotoRest DEF Sets
<1>4. \A p \in Requests \ {q} : pc[p] = "idle" /\ pc'[p] = "idle"
  BY <1>3, Others DEF Serial
<1>5. /\ DOMAIN inv' = DOMAIN inv /\ Len(inv') = Len(inv)
      /\ inv'[at[q]].status = s
      /\ inv'[at[q]].expired = inv[at[q]].expired
      /\ inv'[at[q]].used = inv[at[q]].used
      /\ inv'[at[q]].lost = inv[at[q]].lost
      /\ \A j \in DOMAIN inv : j # at[q] => inv'[j] = inv[j]
  BY <1>0, <1>1, SetStatusStep
<1>6. s # "PENDING"
  BY <1>1 DEF Sets
<1>7. AloneInv'
  <2>1. \A i \in DOMAIN inv' : inv'[i].status = "PENDING" => i = Len(inv')
    BY <1>3, <1>5, <1>6 DEF Serial, AloneInv
  <2>2. call = "create" => \A i \in DOMAIN inv' : inv'[i].status # "PENDING"
    <3> SUFFICES ASSUME call = "create", NEW i \in DOMAIN inv PROVE inv'[i].status # "PENDING"
      BY <1>5
    <3>1. at[q] = Len(inv)
      BY <1>1, <1>2, <1>3 DEF Serial, AloneInv
    <3> QED
      BY <3>1, <1>3, <1>5, <1>6 DEF Serial, AloneInv
  <2> QED
    BY <1>3, <1>4, <2>1, <2>2 DEF AloneInv
<1>8. ASSUME NEW i \in DOMAIN inv PROVE KeptAt(i)'
  <2>1. KeptAt(i) /\ AloneInv
    BY <1>3 DEF Serial, KeptInv
  <2>2. CASE i # at[q]
    <3>1. ~\E p \in Requests : pc[p] = "accept" /\ at[p] = i
      BY <1>4, <2>2
    <3> QED
      BY <1>5, <2>1, <2>2, <3>1 DEF KeptAt
  <2>3. CASE i = at[q]
    <3>1. CASE s = "ACCEPTED"
      BY <1>5, <2>3, <3>1 DEF KeptAt
    <3>2. CASE s = "EXPIRED"
      BY <1>1, <1>5, <1>6, <2>1, <2>3, <3>2 DEF KeptAt, AloneInv, Sets
    <3>3. CASE s = "CANCELLED"
      <4>1. pc[q] \in { "replace", "cancel" } /\ inv[i].status # "ACCEPTED"
        BY <1>1, <2>1, <2>3, <3>3 DEF Sets, AloneInv
      <4>2. ~\E p \in Requests : pc[p] = "accept" /\ at[p] = i
        BY <1>4, <4>1
      <4> QED
        BY <1>5, <1>6, <2>1, <2>3, <4>1, <4>2 DEF KeptAt
    <3> QED
      BY <1>1, <3>1, <3>2, <3>3 DEF Sets
  <2> QED
    BY <2>2, <2>3
<1> QED
  BY <1>5, <1>7, <1>8 DEF KeptInv

LEMMA SerialCreate ==
  ASSUME TypeInv, Serial, NEW q \in Requests, Create(q)
  PROVE  Serial'
<1> SUFFICES ASSUME alone' PROVE AloneInv' /\ KeptInv'
  BY DEF Serial
<1>0. InviteTypeOK
  BY DEF TypeInv
<1>1. pc[q] = "create" /\ GoOn(q, "idle")
  BY DEF Create
<1>2. alone /\ pc'[q] = "idle" /\ \A p \in Requests \ {q} : pc'[p] = pc[p]
  BY <1>0, <1>1, GotoRest
<1>3. \A p \in Requests : pc'[p] = "idle"
  BY <1>1, <1>2, Others DEF Serial
<1>4. ~\E p \in Requests : pc[p] = "accept"
  BY <1>1, <1>2, Others DEF Serial
<1>5. /\ DOMAIN inv' = DOMAIN inv \cup { Len(inv') }
      /\ \A j \in DOMAIN inv : j # Len(inv') /\ inv'[j] = inv[j]
      /\ inv'[Len(inv')] = New
  BY <1>0, CreateStep
<1>6. \A i \in DOMAIN inv : inv[i].status # "PENDING"
  BY <1>1, <1>2 DEF Serial, AloneInv
<1>7. ASSUME NEW i \in DOMAIN inv' PROVE KeptAt(i)'
  <2>1. CASE i = Len(inv')
    <3>1. inv'[i] = New /\ ~New.used
      BY <1>5, <2>1 DEF New
    <3>2. ~inv'[i].used
      BY <3>1
    <3> QED
      BY <3>2 DEF KeptAt
  <2>2. CASE i \in DOMAIN inv
    BY <1>2, <1>4, <1>5, <2>2 DEF KeptAt, Serial, KeptInv
  <2> QED
    BY <1>5, <2>1, <2>2
<1> QED
  BY <1>3, <1>5, <1>6, <1>7 DEF AloneInv, KeptInv

\* Steps that touch one invitation, and leave it kept.
LEMMA SerialTouches ==
  ASSUME TypeInv, Serial, NEW i \in DOMAIN inv, Touches(i),
         alone' => alone,
         \A p \in Requests : pc[p] = "idle" => pc'[p] = "idle",
         \A p \in Requests :
            pc'[p] \in { "create", "replace", "cancel", "expire" } => pc'[p] = pc[p] /\ at'[p] = at[p],
         alone => KeptAt(i)',
         \A p \in Requests : pc[p] = "accept" /\ at[p] # i => pc'[p] = pc[p] /\ at'[p] = at[p]
  PROVE  Serial'
<1> SUFFICES ASSUME alone' PROVE AloneInv' /\ KeptInv'
  BY DEF Serial
<1>1. AloneInv /\ KeptInv /\ KeptAt(i)'
  BY DEF Serial
<1>2. \A j \in DOMAIN inv : inv'[j].status = inv[j].status /\ (inv[j].expired => inv'[j].expired)
  BY DEF Touches
<1>3. \A p \in Requests :
        pc[p] \in { "create", "replace", "cancel", "expire" } /\ pc[p] # "create" => at[p] \in DOMAIN inv
  BY DEF TypeInv, InviteTypeOK
<1>4. AloneInv'
  BY <1>1, <1>2, <1>3 DEF AloneInv, Touches
<1>5. ASSUME NEW j \in DOMAIN inv, j # i PROVE KeptAt(j)'
  BY <1>1, <1>5 DEF KeptInv, KeptAt, Touches
<1> QED
  BY <1>1, <1>4, <1>5 DEF KeptInv, Touches

LEMMA SerialStep == TypeInv /\ Serial /\ [InviteNext]_inviteVars => Serial'
<1> SUFFICES ASSUME TypeInv, Serial, [InviteNext]_inviteVars PROVE Serial'
  OBVIOUS
<1>0. InviteTypeOK
  BY DEF TypeInv
<1>1. ASSUME NEW q \in Requests, Arrives(q) \/ Passes(q) \/ Marks(q) \/ Create(q) PROVE Serial'
  BY <1>1, SerialArrives, SerialPasses, SerialMarks, SerialCreate
<1>2. ASSUME NEW q \in Requests, CreateAccount(q) PROVE Serial'
  <2>1. PICK i \in DOMAIN inv : i = at[q]
    BY <1>0, <1>2 DEF CreateAccount, InviteTypeOK
  <2>2. Touches(i)
    BY <1>0, <1>2, <2>1, TouchStep DEF CreateAccount
  <2>3. /\ pc[q] = "account" /\ pc'[q] = "accept" /\ at'[q] = i /\ alone' = alone
        /\ \A p \in Requests \ {q} : pc'[p] = pc[p] /\ at'[p] = at[p]
    BY <1>0, <1>2, <2>1, GotoRest DEF CreateAccount
  <2>4. KeptAt(i)'
    BY <2>3 DEF KeptAt
  <2> QED
    BY <2>1, <2>2, <2>3, <2>4, SerialTouches
<1>3. ASSUME NEW q \in Requests, BreakOff(q) PROVE Serial'
  <2>1. /\ pc[q] # "idle" /\ pc'[q] = "idle" /\ alone' = alone
        /\ \A p \in Requests \ {q} : pc'[p] = pc[p] /\ at'[p] = at[p]
    BY <1>0, <1>3, GotoRest DEF BreakOff
  <2>2. CASE pc[q] = "accept"
    <3>1. PICK i \in DOMAIN inv : i = at[q]
      BY <1>0, <2>2 DEF InviteTypeOK
    <3>2. Touches(i) /\ inv'[i].lost
      BY <1>0, <1>3, <2>2, <3>1, TouchStep DEF BreakOff
    <3>3. KeptAt(i)'
      BY <3>2 DEF KeptAt
    <3> QED
      BY <2>1, <2>2, <3>1, <3>2, <3>3, SerialTouches
  <2>3. CASE pc[q] # "accept"
    <3>1. inv' = inv
      BY <1>3, <2>3 DEF BreakOff
    <3> QED
      BY <2>1, <2>3, <3>1 DEF Serial, AloneInv, KeptInv, KeptAt
  <2> QED
    BY <2>2, <2>3
<1>4. CASE LinkExpires
  <2>1. PICK i \in DOMAIN inv :
          /\ Touches(i) /\ UNCHANGED <<org, user, pc, at, alone>>
          /\ inv'[i].used = inv[i].used /\ inv'[i].lost = inv[i].lost
    BY <1>0, <1>4, TouchStep DEF LinkExpires
  <2>2. alone => KeptAt(i)'
    BY <2>1 DEF Serial, KeptInv, KeptAt, Touches
  <2> QED
    BY <2>1, <2>2, SerialTouches
<1>5. CASE RemoveUser \/ UNCHANGED inviteVars
  <2>1. UNCHANGED <<inv, pc, at, alone>>
    BY <1>5 DEF RemoveUser, inviteVars
  <2>2. AloneInv' <=> AloneInv
    BY <2>1 DEF AloneInv
  <2>3. KeptInv' <=> KeptInv
    BY <2>1 DEF KeptInv, KeptAt
  <2> QED
    BY <2>1, <2>2, <2>3 DEF Serial
<1> QED
  BY <1>1, <1>2, <1>3, <1>4, <1>5, Steps

\* Without two requests that overlap, at most one invitation is pending, though
\* any request may fail between two of its calls.
THEOREM OnePendingWhenAlone == InviteSpec => []OnePendingAlone
<1>1. InviteInit => TypeInv /\ Serial
  BY InitTyped DEF InviteInit, Serial, AloneInv, KeptInv
<1>2. (TypeInv /\ Serial) /\ [InviteNext]_inviteVars => (TypeInv /\ Serial)'
  BY NextTyped, SerialStep
<1>3. TypeInv /\ Serial => OnePendingAlone
  BY DEF Serial, AloneInv, OnePendingAlone, OnePending
<1> QED
  BY <1>1, <1>2, <1>3, PTL DEF InviteSpec

\* Without two requests that overlap, what led to an account is neither pending
\* nor cancelled before it expires.
THEOREM AcceptanceKeptWhenAlone == InviteSpec => []AcceptanceKeptAlone
<1>1. InviteInit => TypeInv /\ Serial
  BY InitTyped DEF InviteInit, Serial, AloneInv, KeptInv
<1>2. (TypeInv /\ Serial) /\ [InviteNext]_inviteVars => (TypeInv /\ Serial)'
  BY NextTyped, SerialStep
<1>3. TypeInv /\ Serial => AcceptanceKeptAlone
  BY DEF Serial, KeptInv, KeptAt, AcceptanceKeptAlone
<1> QED
  BY <1>1, <1>2, <1>3, PTL DEF InviteSpec

=============================================================================
