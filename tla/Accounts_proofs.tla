--------------------------- MODULE Accounts_proofs ---------------------------
(***************************************************************************)
(* Proofs about Accounts, sign-in beside the library it guards: a code      *)
(* opens one session, takes MaxAttempts guesses and a signed-out token       *)
(* stays out; the two together are still SignIn; a claim that clears the     *)
(* browser's store has brought all that lands into one account, and a        *)
(* schedule is replaced whole, for any number of accounts, handlers, records *)
(* and requests.                                                             *)
(*                                                                          *)
(* ClaimInv, the inductive invariant, says what a handler knows between two *)
(* statements: a claim's staged records are those of the records looked at   *)
(* that have not landed, the id of its collection is its own, and once its   *)
(* schedules committed they stay landed, whoever deletes or edits the rows.  *)
(***************************************************************************)
EXTENDS Accounts, FiniteSetTheorems, TLAPS

-----------------------------------------------------------------------------
(* Sign-in alone, for any number of addresses, handlers, requests and       *)
(* attempts: what a handler holds at each point.                            *)

Busy(r) == req[r].pc # "idle"
Unsent(r) == req[r].pc \in {"count", "put"}
Accepted(r) == req[r].pc \in {"account", "open"} /\ req[r].guess # 0
\* Serials whose request is over.
Over(t) == t \in 1 .. begun /\ \A s \in Requests : Busy(s) => req[s].n # t

\* What a handler holds at each point.
ReqInv == \A r \in Requests :
    /\ req[r].pc \in {"count", "put", "record", "mail"} => req[r].email \in Emails /\ req[r].ip \in Ips
    /\ req[r].pc \in {"read", "judge", "account", "open"} => req[r].email \in Emails
    /\ req[r].pc \in {"open", "touch"} => req[r].account \in Serials
    /\ req[r].pc \in {"lookup", "expire", "touch"} \cup Kinds => req[r].token \in Serials
    /\ req[r].guess # 0 => <<req[r].email, req[r].guess>> \in mail
\* Serial numbers are begun and belong to one handler.
SerialInv ==
    /\ \A r \in Requests : Busy(r) => req[r].n \in 1 .. begun
    /\ \A r, s \in Requests : Busy(r) /\ Busy(s) /\ r # s => req[r].n # req[s].n
    /\ \A t \in Serials : sessions[t] # None => Over(t)
    /\ \A r \in Requests : req[r].token # 0 => Over(req[r].token)
    /\ \A t \in signedOut : Over(t) /\ sessions[t] = None
\* The locked row is the one the judge read.
LockInv ==
    /\ \A r \in Requests : At(r, "judge") =>
          lock[req[r].email] = r /\ req[r].row = codes[req[r].email] /\ req[r].row # None
    /\ \A e \in Emails : lock[e] # None => At(lock[e], "judge") /\ req[lock[e]].email = e
\* A code not sent yet is nowhere; a spent one is on no row.
Nowhere(c) == /\ \A e \in Emails : codes[e] # None => codes[e].code # c
              /\ \A m \in mail : m[2] # c
              /\ \A x \in opened : x.code # c
              /\ wrong[c] = 0
CodeInv ==
    /\ \A r \in Requests : Unsent(r) => Nowhere(req[r].n)
    /\ \A c \in Serials : c > begun => Nowhere(c)
    /\ \A e, f \in Emails : codes[e] # None /\ codes[f] # None /\ codes[e].code = codes[f].code => e = f
SpentInv ==
    /\ \A r \in Requests, e \in Emails : Accepted(r) /\ codes[e] # None => codes[e].code # req[r].guess
    /\ \A x \in opened, e \in Emails : codes[e] # None => codes[e].code # x.code
    /\ \A r, s \in Requests : Accepted(r) /\ Accepted(s) /\ r # s => req[r].guess # req[s].guess
    /\ \A r \in Requests, x \in opened : Accepted(r) => x.code # req[r].guess
    /\ SessionsAreEarned
WrongInv ==
    /\ \A e \in Emails : codes[e] # None =>
          codes[e].attempts = wrong[codes[e].code] /\ codes[e].attempts < MaxAttempts
    /\ \A c \in Serials : wrong[c] <= MaxAttempts
IInv == TypeOK /\ ReqInv /\ SerialInv /\ LockInv /\ CodeInv /\ SpentInv /\ WrongInv
-----------------------------------------------------------------------------
(***************************************************************************)
(* How a step changes the handlers: r alone moves.                         *)
(***************************************************************************)
Rest(r) == /\ req' \in [Requests -> Request]
           /\ \A s \in Requests : s # r => req'[s] = req[s]
Same(r) == /\ req'[r].n = req[r].n /\ req'[r].token = req[r].token
           /\ req'[r].email = req[r].email /\ req'[r].guess = req[r].guess
           /\ req'[r].ip = req[r].ip

LEMMA IdleType == Idle \in Request
BY SignInAssumption DEF Idle, Request, PCs, Kinds, Serials, CodeRow

LEMMA GotoShape ==
  ASSUME TypeOK, NEW r \in Requests, NEW pc \in PCs, Goto(r, pc)
  PROVE  /\ Rest(r) /\ Same(r) /\ req'[r].pc = pc
         /\ req'[r].row = req[r].row /\ req'[r].account = req[r].account
<1>1. req[r] \in Request
  BY DEF TypeOK
<1>2. [req[r] EXCEPT !.pc = pc] \in Request
  BY <1>1 DEF Request
<1>3. req' = [req EXCEPT ![r] = [req[r] EXCEPT !.pc = pc]]
  BY DEF Goto
<1> QED  BY <1>1, <1>2, <1>3 DEF TypeOK, Rest, Same, Request

LEMMA FinishShape ==
  ASSUME TypeOK, NEW r \in Requests, Finish(r)
  PROVE  /\ Rest(r) /\ req'[r] = Idle
         /\ req'[r].pc = "idle" /\ req'[r].token = 0 /\ req'[r].guess = 0
<1>1. req' = [req EXCEPT ![r] = Idle]
  BY DEF Finish
<1> QED  BY <1>1, IdleType DEF TypeOK, Rest, Idle

LEMMA BeginShape ==
  ASSUME TypeOK, NEW r \in Requests, NEW pc \in PCs, NEW e \in Emails \cup {None},
         NEW i \in Ips \cup {None}, NEW g \in 0 .. MaxRequests, NEW t \in 0 .. MaxRequests,
         NEW k \in Kinds, Begin(r, pc, e, i, g, t, k)
  PROVE  /\ Rest(r) /\ req'[r].pc = pc /\ req'[r].n = begun + 1 /\ req'[r].email = e
         /\ req'[r].ip = i /\ req'[r].guess = g /\ req'[r].token = t
         /\ ~Busy(r) /\ begun' = begun + 1 /\ begun < MaxRequests
         /\ UNCHANGED <<now, codes, windows, accounts, sessions, lock, mail, wrong, opened, signedOut>>
<1> DEFINE q == [Idle EXCEPT !.pc = pc, !.n = begun + 1, !.at = now, !.email = e,
                             !.ip = i, !.guess = g, !.token = t, !.kind = k]
<1>1. begun < MaxRequests /\ begun + 1 \in 0 .. MaxRequests /\ now \in Nat
  BY SignInAssumption DEF TypeOK, Begin
<1>2. q \in Request
  BY <1>1, IdleType DEF Request
<1>3. /\ q.pc = pc /\ q.n = begun + 1 /\ q.email = e /\ q.ip = i /\ q.guess = g /\ q.token = t
  BY IdleType DEF Request
<1>4. req' = [req EXCEPT ![r] = q]
  BY DEF Begin
<1> HIDE DEF q
<1> QED  BY <1>1, <1>2, <1>3, <1>4 DEF TypeOK, Rest, Begin, Busy, At, tables, history

LEMMA BeginSerial ==
  ASSUME TypeOK, SerialInv, NEW r \in Requests, Rest(r), req'[r].n = begun + 1, ~Busy(r),
         begun' = begun + 1, begun < MaxRequests, UNCHANGED <<sessions, signedOut>>,
         req'[r].token # 0 => req'[r].token \in Serials /\ sessions[req'[r].token] # None
  PROVE  SerialInv'
<1>1. begun \in Nat /\ begun' \in Nat /\ \A s \in Requests : s # r => req'[s] = req[s]
  BY SignInAssumption DEF TypeOK, Rest
<1>2. \A t \in Serials : Over(t) => Over(t)'
  BY <1>1 DEF Over, Busy
<1>3. \A s \in Requests : (Busy(s) => req[s].n \in 1 .. begun)'
  <2> SUFFICES ASSUME NEW s \in Requests, Busy(s)' PROVE req'[s].n \in 1 .. begun'
    OBVIOUS
  <2>1. CASE s = r
    BY <2>1, <1>1
  <2>2. CASE s # r
    BY <2>2, <1>1 DEF SerialInv, Busy
  <2> QED  BY <2>1, <2>2
<1>4. \A s \in Requests : (req[s].token # 0 => Over(req[s].token))'
  <2> SUFFICES ASSUME NEW s \in Requests, req'[s].token # 0 PROVE Over(req[s].token)'
    OBVIOUS
  <2>1. CASE s = r
    BY <2>1, <1>2 DEF SerialInv, Over
  <2>2. CASE s # r
    <3>1. Over(req[s].token) /\ req[s].token \in Serials /\ req'[s].token = req[s].token
      BY <2>2, <1>1, SignInAssumption DEF SerialInv, Over, Serials, TypeOK
    <3> QED  BY <3>1, <1>2 DEF Over
  <2> QED  BY <2>1, <2>2
<1>5. \A t \in Serials : sessions'[t] # None => Over(t)'
  BY <1>2 DEF SerialInv
<1>6. \A t \in signedOut' : Over(t)' /\ sessions'[t] = None
  BY <1>2 DEF SerialInv, TypeOK
<1>7. \A s, u \in Requests : (Busy(s) /\ Busy(u) /\ s # u => req[s].n # req[u].n)'
  BY <1>1 DEF SerialInv, Busy
<1> QED  BY <1>3, <1>4, <1>5, <1>6, <1>7 DEF SerialInv

LEMMA BeginCode ==
  ASSUME TypeOK, CodeInv, NEW r \in Requests, Rest(r), req'[r].n = begun + 1,
         begun' = begun + 1, begun < MaxRequests, UNCHANGED <<codes, mail, wrong, opened>>
  PROVE  CodeInv'
<1>1. begun \in Nat /\ begun + 1 \in Serials /\ begun + 1 > begun
  BY SignInAssumption DEF TypeOK, Serials
<1>2. \A c \in Serials : Nowhere(c) => Nowhere(c)'
  BY DEF Nowhere
<1>3. \A s \in Requests : Unsent(s)' => Nowhere(req[s].n)'
  <2> SUFFICES ASSUME NEW s \in Requests, Unsent(s)' PROVE Nowhere(req[s].n)'
    OBVIOUS
  <2>1. CASE s = r
    BY <2>1, <1>1 DEF CodeInv, Nowhere
  <2>2. CASE s # r
    BY <2>2 DEF CodeInv, Nowhere, Rest, Unsent
  <2> QED  BY <2>1, <2>2
<1>4. \A c \in Serials : c > begun' => Nowhere(c)'
  BY <1>1, <1>2 DEF CodeInv, Serials
<1> QED  BY <1>3, <1>4 DEF CodeInv

(***************************************************************************)
(* A step of a handler that has begun.                                     *)
(***************************************************************************)
Ends(r) == req'[r].pc = "idle" /\ req'[r].token = 0 /\ req'[r].guess = 0
GoesOn(r) == Same(r) /\ Busy(r)

LEMMA StepSerial ==
  ASSUME TypeOK, SerialInv, NEW r \in Requests, Rest(r), Ends(r) \/ GoesOn(r),
         UNCHANGED begun
  PROVE  /\ \A t \in Serials : Over(t) => Over(t)'
         /\ (\A t \in Serials : sessions'[t] # None => Over(t)') /\
            (\A t \in signedOut' : Over(t)' /\ sessions'[t] = None) => SerialInv'
<1>1. \A t \in Serials : Over(t) => Over(t)'
  BY DEF Over, Busy, Rest, Ends, GoesOn, Same
<1>2. \A s \in Requests : (Busy(s) => req[s].n \in 1 .. begun)'
  BY DEF SerialInv, Busy, Rest, Ends, GoesOn, Same
<1>3. \A s \in Requests : (req[s].token # 0 => Over(req[s].token))'
  <2> SUFFICES ASSUME NEW s \in Requests, req'[s].token # 0 PROVE Over(req[s].token)'
    OBVIOUS
  <2>1. req'[s].token = req[s].token
    BY DEF Rest, Ends, GoesOn, Same
  <2>2. Over(req[s].token) /\ req[s].token \in Serials
    BY <2>1, SignInAssumption DEF SerialInv, Over, Serials, TypeOK
  <2> QED  BY <1>1, <2>1, <2>2 DEF Over
<1>4. \A s, u \in Requests : (Busy(s) /\ Busy(u) /\ s # u => req[s].n # req[u].n)'
  BY DEF SerialInv, Busy, Rest, Ends, GoesOn, Same
<1> QED  BY <1>1, <1>2, <1>3, <1>4 DEF SerialInv

LEMMA CalmSerial ==
  ASSUME TypeOK, SerialInv, NEW r \in Requests, Rest(r), Ends(r) \/ GoesOn(r),
         UNCHANGED <<begun, signedOut>>,
         \A t \in Serials : sessions'[t] # None => sessions[t] # None
  PROVE  SerialInv'
BY StepSerial DEF SerialInv, TypeOK

LEMMA CalmLock ==
  ASSUME TypeOK, LockInv, NEW r \in Requests, Rest(r), ~At(r, "judge"), req'[r].pc # "judge",
         UNCHANGED <<codes, lock>>
  PROVE  LockInv'
BY SignInAssumption DEF TypeOK, LockInv, At, Rest

LEMMA CalmCode ==
  ASSUME TypeOK, CodeInv, NEW r \in Requests, Rest(r), Ends(r) \/ GoesOn(r), Unsent(r)' => Unsent(r),
         UNCHANGED <<begun, codes, mail, wrong, opened>>
  PROVE  CodeInv'
<1>1. \A c \in 0 .. MaxRequests : Nowhere(c) => Nowhere(c)'
  BY DEF Nowhere
<1>2. \A s \in Requests : Unsent(s)' => Nowhere(req[s].n)'
  BY DEF CodeInv, Nowhere, Unsent, Rest, Ends, GoesOn, Same
<1> QED  BY <1>1, <1>2 DEF CodeInv, Nowhere

LEMMA CalmSpent ==
  ASSUME SpentInv, NEW r \in Requests, Rest(r), Ends(r) \/ GoesOn(r), Accepted(r)' => Accepted(r),
         UNCHANGED <<codes, mail, opened>>
  PROVE  SpentInv'
BY DEF SpentInv, SessionsAreEarned, Accepted, Rest, Ends, GoesOn, Same

LEMMA CalmReq ==
  ASSUME ReqInv, NEW r \in Requests, Rest(r), Ends(r), UNCHANGED mail
  PROVE  ReqInv'
BY DEF ReqInv, Rest, Ends, Kinds

LEMMA EmailRequestKeeps == ASSUME IInv, NEW r \in Requests, EmailRequest(r) PROVE IInv'
<1>p. PICK e \in Emails, i \in Ips : Begin(r, "count", e, i, 0, 0, "view")
  BY DEF EmailRequest
<1>t. TypeOK
  BY DEF IInv
<1>s. /\ Rest(r) /\ req'[r].pc = "count" /\ req'[r].n = begun + 1 /\ req'[r].email = e
      /\ req'[r].ip = i /\ req'[r].guess = 0 /\ req'[r].token = 0
      /\ ~Busy(r) /\ begun' = begun + 1 /\ begun < MaxRequests
      /\ UNCHANGED <<now, codes, windows, accounts, sessions, lock, mail, wrong, opened, signedOut>>
  BY <1>p, <1>t, BeginShape, SignInAssumption DEF PCs, Kinds, Serials
<1>1. TypeOK'
  BY <1>t, <1>s, SignInAssumption DEF TypeOK, Rest
<1>2. ReqInv'
  BY <1>s, <1>p DEF IInv, ReqInv, Rest, Kinds
<1>3. SerialInv'
  BY <1>s, <1>t, BeginSerial DEF IInv
<1>4. LockInv'
  BY <1>s, <1>t DEF IInv, TypeOK, LockInv, At, Rest, Busy
<1>5. CodeInv'
  BY <1>s, <1>t, BeginCode DEF IInv
<1>6. SpentInv'
  BY <1>s DEF IInv, SpentInv, SessionsAreEarned, Accepted, Rest
<1>7. WrongInv'
  BY <1>s DEF IInv, WrongInv
<1> QED  BY <1>1, <1>2, <1>3, <1>4, <1>5, <1>6, <1>7 DEF IInv

LEMMA EmailVerifyKeeps == ASSUME IInv, NEW r \in Requests, EmailVerify(r) PROVE IInv'
<1>p. PICK e \in Emails : \E h \in Guesses(e) : Begin(r, "read", e, None, h, 0, "view")
  BY DEF EmailVerify
<1>h. PICK g \in Guesses(e) : Begin(r, "read", e, None, g, 0, "view")
  BY <1>p
<1>g. g \in 0 .. MaxRequests /\ (g # 0 => <<e, g>> \in mail /\ g \in Serials)
  BY SignInAssumption DEF Guesses, Serials
<1>t. TypeOK
  BY DEF IInv
<1>s. /\ Rest(r) /\ req'[r].pc = "read" /\ req'[r].n = begun + 1 /\ req'[r].email = e
      /\ req'[r].ip = None /\ req'[r].guess = g /\ req'[r].token = 0
      /\ ~Busy(r) /\ begun' = begun + 1 /\ begun < MaxRequests
      /\ UNCHANGED <<now, codes, windows, accounts, sessions, lock, mail, wrong, opened, signedOut>>
  BY <1>h, <1>t, <1>g, BeginShape, SignInAssumption DEF PCs, Kinds, Serials
<1>1. TypeOK'
  BY <1>t, <1>s, SignInAssumption DEF TypeOK, Rest
<1>2. ReqInv'
  BY <1>s, <1>p, <1>g DEF IInv, ReqInv, Rest, Kinds
<1>3. SerialInv'
  BY <1>s, <1>t, BeginSerial DEF IInv
<1>4. LockInv'
  BY <1>s, <1>t DEF IInv, TypeOK, LockInv, At, Rest, Busy
<1>5. CodeInv'
  BY <1>s, <1>t, BeginCode DEF IInv
<1>6. SpentInv'
  BY <1>s DEF IInv, SpentInv, SessionsAreEarned, Accepted, Rest
<1>7. WrongInv'
  BY <1>s DEF IInv, WrongInv
<1> QED  BY <1>1, <1>2, <1>3, <1>4, <1>5, <1>6, <1>7 DEF IInv

LEMMA SsoKeeps == ASSUME IInv, NEW r \in Requests, Sso(r) PROVE IInv'
<1>p. PICK e \in Emails : Begin(r, "account", e, None, 0, 0, "view")
  BY DEF Sso
<1>t. TypeOK
  BY DEF IInv
<1>s. /\ Rest(r) /\ req'[r].pc = "account" /\ req'[r].n = begun + 1 /\ req'[r].email = e
      /\ req'[r].ip = None /\ req'[r].guess = 0 /\ req'[r].token = 0
      /\ ~Busy(r) /\ begun' = begun + 1 /\ begun < MaxRequests
      /\ UNCHANGED <<now, codes, windows, accounts, sessions, lock, mail, wrong, opened, signedOut>>
  BY <1>p, <1>t, BeginShape, SignInAssumption DEF PCs, Kinds, Serials
<1>1. TypeOK'
  BY <1>t, <1>s, SignInAssumption DEF TypeOK, Rest
<1>2. ReqInv'
  BY <1>s, <1>p DEF IInv, ReqInv, Rest, Kinds
<1>3. SerialInv'
  BY <1>s, <1>t, BeginSerial DEF IInv
<1>4. LockInv'
  BY <1>s, <1>t DEF IInv, TypeOK, LockInv, At, Rest, Busy
<1>5. CodeInv'
  BY <1>s, <1>t, BeginCode DEF IInv
<1>6. SpentInv'
  BY <1>s DEF IInv, SpentInv, SessionsAreEarned, Accepted, Rest
<1>7. WrongInv'
  BY <1>s DEF IInv, WrongInv
<1> QED  BY <1>1, <1>2, <1>3, <1>4, <1>5, <1>6, <1>7 DEF IInv

LEMMA SessionRequestKeeps == ASSUME IInv, NEW r \in Requests, SessionRequest(r) PROVE IInv'
<1>p. PICK t \in Serials, k \in Kinds : sessions[t] # None /\ Begin(r, "lookup", None, None, 0, t, k)
  BY DEF SessionRequest
<1>t. TypeOK
  BY DEF IInv
<1>s. /\ Rest(r) /\ req'[r].pc = "lookup" /\ req'[r].n = begun + 1 /\ req'[r].email = None
      /\ req'[r].ip = None /\ req'[r].guess = 0 /\ req'[r].token = t
      /\ ~Busy(r) /\ begun' = begun + 1 /\ begun < MaxRequests
      /\ UNCHANGED <<now, codes, windows, accounts, sessions, lock, mail, wrong, opened, signedOut>>
  BY <1>p, <1>t, BeginShape, SignInAssumption DEF PCs, Kinds, Serials
<1>1. TypeOK'
  BY <1>t, <1>s, SignInAssumption DEF TypeOK, Rest
<1>2. ReqInv'
  BY <1>s, <1>p DEF IInv, ReqInv, Rest, Kinds
<1>3. SerialInv'
  BY <1>s, <1>t, <1>p, BeginSerial DEF IInv
<1>4. LockInv'
  BY <1>s, <1>t DEF IInv, TypeOK, LockInv, At, Rest, Busy
<1>5. CodeInv'
  BY <1>s, <1>t, BeginCode DEF IInv
<1>6. SpentInv'
  BY <1>s DEF IInv, SpentInv, SessionsAreEarned, Accepted, Rest
<1>7. WrongInv'
  BY <1>s DEF IInv, WrongInv
<1> QED  BY <1>1, <1>2, <1>3, <1>4, <1>5, <1>6, <1>7 DEF IInv

LEMMA CountSendsKeeps == ASSUME IInv, NEW r \in Requests, CountSends(r) PROVE IInv'
<1>t. TypeOK /\ ReqInv /\ SerialInv /\ LockInv /\ CodeInv /\ SpentInv /\ WrongInv
  BY DEF IInv
<1>s. /\ Rest(r) /\ At(r, "count") /\ (Ends(r) \/ (GoesOn(r) /\ req'[r].pc = "put"))
      /\ UNCHANGED <<now, begun, codes, windows, accounts, sessions, lock, mail, wrong, opened, signedOut>>
  <2>1. At(r, "count") /\ (Finish(r) \/ Goto(r, "put")) /\ "put" \in PCs
    BY DEF CountSends, Step, PCs
  <2>2. CASE Finish(r)
    <3>1. Rest(r) /\ Ends(r)
      BY <1>t, <2>2, FinishShape DEF Ends
    <3>2. UNCHANGED <<now, begun, codes, windows, accounts, sessions, lock, mail, wrong, opened, signedOut>>
      BY DEF CountSends, Step, tables, history
    <3> QED  BY <2>1, <3>1, <3>2
  <2>3. CASE Goto(r, "put")
    BY <1>t, <2>1, <2>3, GotoShape DEF CountSends, Step, At, GoesOn, Busy, tables, history
  <2> QED  BY <2>1, <2>2, <2>3
<1>1. TypeOK'
  BY <1>t, <1>s DEF TypeOK, Rest
<1>2. ReqInv'
  BY <1>t, <1>s, SignInAssumption DEF ReqInv, Rest, Ends, GoesOn, Same, At, Kinds
<1>3. SerialInv'
  BY <1>t, <1>s, CalmSerial
<1>4. LockInv'
  BY <1>t, <1>s, CalmLock DEF At, Ends
<1>5. CodeInv'
  BY <1>t, <1>s, CalmCode DEF Unsent, At, Ends
<1>6. SpentInv'
  BY <1>t, <1>s, CalmSpent DEF Accepted, At, Ends
<1>7. WrongInv'
  BY <1>t, <1>s DEF WrongInv
<1> QED  BY <1>1, <1>2, <1>3, <1>4, <1>5, <1>6, <1>7 DEF IInv

LEMMA ViewKeeps == ASSUME IInv, NEW r \in Requests, View(r) PROVE IInv'
<1>t. TypeOK /\ ReqInv /\ SerialInv /\ LockInv /\ CodeInv /\ SpentInv /\ WrongInv
  BY DEF IInv
<1>s. /\ Rest(r) /\ At(r, "view") /\ Ends(r)
      /\ UNCHANGED <<now, begun, codes, windows, accounts, sessions, lock, mail, wrong, opened, signedOut>>
  BY <1>t, FinishShape, GotoShape DEF View, Step, At, PCs, Kinds, Ends, GoesOn, Busy, tables, history
<1>1. TypeOK'
  BY <1>t, <1>s DEF TypeOK, Rest
<1>2. ReqInv'
  BY <1>t, <1>s, CalmReq
<1>3. SerialInv'
  BY <1>t, <1>s, CalmSerial
<1>4. LockInv'
  BY <1>t, <1>s, CalmLock DEF At, Ends
<1>5. CodeInv'
  BY <1>t, <1>s, CalmCode DEF Unsent, At, Ends
<1>6. SpentInv'
  BY <1>t, <1>s, CalmSpent DEF Accepted, At, Ends
<1>7. WrongInv'
  BY <1>t, <1>s DEF WrongInv
<1> QED  BY <1>1, <1>2, <1>3, <1>4, <1>5, <1>6, <1>7 DEF IInv

LEMMA ExpireKeeps == ASSUME IInv, NEW r \in Requests, Expire(r) PROVE IInv'
<1>t. TypeOK /\ ReqInv /\ SerialInv /\ LockInv /\ CodeInv /\ SpentInv /\ WrongInv
  BY DEF IInv
<1>s. /\ Rest(r) /\ At(r, "expire") /\ Ends(r)
      /\ UNCHANGED <<now, begun, codes, windows, accounts, lock, mail, wrong, opened, signedOut>>
      /\ sessions' = [sessions EXCEPT ![req[r].token] = None]
  BY <1>t, FinishShape, GotoShape DEF Expire, Step, At, PCs, Kinds, Ends, GoesOn, Busy, tables, history
<1>1. TypeOK'
  BY <1>t, <1>s DEF TypeOK, Rest
<1>2. ReqInv'
  BY <1>t, <1>s, CalmReq
<1>3. SerialInv'
  BY <1>t, <1>s, CalmSerial DEF TypeOK
<1>4. LockInv'
  BY <1>t, <1>s, CalmLock DEF At, Ends
<1>5. CodeInv'
  BY <1>t, <1>s, CalmCode DEF Unsent, At, Ends
<1>6. SpentInv'
  BY <1>t, <1>s, CalmSpent DEF Accepted, At, Ends
<1>7. WrongInv'
  BY <1>t, <1>s DEF WrongInv
<1> QED  BY <1>1, <1>2, <1>3, <1>4, <1>5, <1>6, <1>7 DEF IInv

LEMMA RecordSendKeeps == ASSUME IInv, NEW r \in Requests, RecordSend(r) PROVE IInv'
<1>t. TypeOK /\ ReqInv /\ SerialInv /\ LockInv /\ CodeInv /\ SpentInv /\ WrongInv
  BY DEF IInv
<1>s. /\ Rest(r) /\ At(r, "record") /\ GoesOn(r) /\ req'[r].pc = "mail"
      /\ UNCHANGED <<now, begun, codes, accounts, sessions, lock, mail, wrong, opened, signedOut>>
  BY <1>t, FinishShape, GotoShape DEF RecordSend, Step, At, PCs, Kinds, Ends, GoesOn, Busy, tables, history
<1>w. windows' \in [Ips -> [sends : Nat, started : Nat]]
  <2>1. req[r].ip \in Ips /\ req[r].at \in Nat /\ windows[req[r].ip] \in [sends : Nat, started : Nat]
    BY <1>t, <1>s DEF ReqInv, TypeOK, At, Request
  <2> QED  BY <1>t, <2>1 DEF TypeOK, RecordSend
<1>1. TypeOK'
  BY <1>t, <1>s, <1>w DEF TypeOK, Rest
<1>2. ReqInv'
  BY <1>t, <1>s, SignInAssumption DEF ReqInv, Rest, Ends, GoesOn, Same, At, Kinds
<1>3. SerialInv'
  BY <1>t, <1>s, CalmSerial
<1>4. LockInv'
  BY <1>t, <1>s, CalmLock DEF At, Ends
<1>5. CodeInv'
  BY <1>t, <1>s, CalmCode DEF Unsent, At, Ends
<1>6. SpentInv'
  BY <1>t, <1>s, CalmSpent DEF Accepted, At, Ends
<1>7. WrongInv'
  BY <1>t, <1>s DEF WrongInv
<1> QED  BY <1>1, <1>2, <1>3, <1>4, <1>5, <1>6, <1>7 DEF IInv

LEMMA TouchSessionKeeps == ASSUME IInv, NEW r \in Requests, TouchSession(r) PROVE IInv'
<1>t. TypeOK /\ ReqInv /\ SerialInv /\ LockInv /\ CodeInv /\ SpentInv /\ WrongInv
  BY DEF IInv
<1>s. /\ Rest(r) /\ At(r, "touch") /\ GoesOn(r) /\ req'[r].pc \in Kinds
      /\ UNCHANGED <<now, begun, codes, windows, accounts, lock, mail, wrong, opened, signedOut>>
  <2>1. req[r].kind \in Kinds /\ Kinds \subseteq PCs
    BY <1>t DEF TypeOK, Request, PCs
  <2>2. Goto(r, req[r].kind) /\ At(r, "touch")
    BY DEF TouchSession, Step
  <2>3. Rest(r) /\ Same(r) /\ req'[r].pc = req[r].kind
    BY <1>t, <2>1, <2>2, GotoShape
  <2> QED  BY <2>1, <2>2, <2>3 DEF TouchSession, Step, At, GoesOn, Busy, tables, history
<1>w. /\ sessions' \in [Serials -> SessionRow \cup {None}]
      /\ \A t \in Serials : sessions'[t] # None => sessions[t] # None
  <2>1. req[r].account \in Serials /\ req[r].at \in Nat /\ req[r].at + SessionTtl \in Nat
    <3>1. req[r].account \in Serials
      BY <1>t, <1>s DEF ReqInv, At
    <3>2. req[r].at \in Nat
      BY <1>t DEF TypeOK, Request
    <3> QED  BY <3>1, <3>2, SignInAssumption
  <2>2. Touched(req[r]) \in SessionRow
    BY <2>1 DEF Touched, SessionRow
  <2> QED  BY <1>t, <2>2 DEF TypeOK, TouchSession
<1>1. TypeOK'
  BY <1>t, <1>s, <1>w DEF TypeOK, Rest
<1>2. ReqInv'
  BY <1>t, <1>s, SignInAssumption DEF ReqInv, Rest, Ends, GoesOn, Same, At, Kinds
<1>3. SerialInv'
  BY <1>t, <1>s, <1>w, CalmSerial
<1>4. LockInv'
  BY <1>t, <1>s, CalmLock DEF At, Kinds
<1>5. CodeInv'
  BY <1>t, <1>s, CalmCode DEF Unsent, Kinds
<1>6. SpentInv'
  BY <1>t, <1>s, CalmSpent DEF Accepted, Kinds
<1>7. WrongInv'
  BY <1>t, <1>s DEF WrongInv
<1> QED  BY <1>1, <1>2, <1>3, <1>4, <1>5, <1>6, <1>7 DEF IInv

LEMMA LogoutKeeps == ASSUME IInv, NEW r \in Requests, Logout(r) PROVE IInv'
<1>t. TypeOK /\ ReqInv /\ SerialInv /\ LockInv /\ CodeInv /\ SpentInv /\ WrongInv
  BY DEF IInv
<1>s. /\ Rest(r) /\ At(r, "logout") /\ Ends(r)
      /\ UNCHANGED <<now, begun, codes, windows, accounts, lock, mail, wrong, opened>>
      /\ sessions' = [sessions EXCEPT ![req[r].token] = None]
      /\ signedOut' = signedOut \cup {req[r].token}
  BY <1>t, FinishShape, GotoShape DEF Logout, Step, At, PCs, Kinds, Ends, GoesOn, Busy, tables, history
<1>w. req[r].token \in Serials /\ Over(req[r].token)
  <2>1. req[r].token \in Serials
    BY <1>t, <1>s DEF ReqInv, At, Kinds
  <2>2. req[r].token # 0
    BY <2>1, SignInAssumption DEF Serials
  <2> QED  BY <1>t, <2>1, <2>2 DEF SerialInv
<1>1. TypeOK'
  BY <1>t, <1>s, <1>w DEF TypeOK, Rest
<1>2. ReqInv'
  BY <1>t, <1>s, CalmReq
<1>3. SerialInv'
  BY <1>t, <1>s, <1>w, StepSerial DEF SerialInv, TypeOK
<1>4. LockInv'
  BY <1>t, <1>s, CalmLock DEF At, Ends
<1>5. CodeInv'
  BY <1>t, <1>s, CalmCode DEF Unsent, At, Ends
<1>6. SpentInv'
  BY <1>t, <1>s, CalmSpent DEF Accepted, At, Ends
<1>7. WrongInv'
  BY <1>t, <1>s DEF WrongInv
<1> QED  BY <1>1, <1>2, <1>3, <1>4, <1>5, <1>6, <1>7 DEF IInv

LEMMA RemoveAccountKeeps == ASSUME IInv, NEW r \in Requests, RemoveAccount(r) PROVE IInv'
<1>t. TypeOK /\ ReqInv /\ SerialInv /\ LockInv /\ CodeInv /\ SpentInv /\ WrongInv
  BY DEF IInv
<1>s. /\ Rest(r) /\ At(r, "remove") /\ Ends(r)
      /\ UNCHANGED <<now, begun, codes, windows, lock, mail, wrong, opened, signedOut>>
  BY <1>t, FinishShape, GotoShape DEF RemoveAccount, Step, At, PCs, Kinds, Ends, GoesOn, Busy, tables, history
<1>w. /\ sessions' \in [Serials -> SessionRow \cup {None}] /\ accounts' \in [Emails -> 0 .. MaxRequests]
      /\ \A t \in Serials : sessions'[t] # None => sessions[t] # None
  BY <1>t, SignInAssumption DEF RemoveAccount, TypeOK
<1>1. TypeOK'
  BY <1>t, <1>s, <1>w DEF TypeOK, Rest
<1>2. ReqInv'
  BY <1>t, <1>s, CalmReq
<1>3. SerialInv'
  BY <1>t, <1>s, <1>w, CalmSerial
<1>4. LockInv'
  BY <1>t, <1>s, CalmLock DEF At, Ends
<1>5. CodeInv'
  BY <1>t, <1>s, CalmCode DEF Unsent, At, Ends
<1>6. SpentInv'
  BY <1>t, <1>s, CalmSpent DEF Accepted, At, Ends
<1>7. WrongInv'
  BY <1>t, <1>s DEF WrongInv
<1> QED  BY <1>1, <1>2, <1>3, <1>4, <1>5, <1>6, <1>7 DEF IInv

LEMMA DropKeeps == ASSUME IInv, NEW r \in Requests, Drop(r) PROVE IInv'
<1>t. TypeOK /\ ReqInv /\ SerialInv /\ LockInv /\ CodeInv /\ SpentInv /\ WrongInv
  BY DEF IInv
<1>s. /\ Rest(r) /\ Ends(r) /\ Busy(r)
      /\ UNCHANGED <<now, begun, codes, windows, accounts, sessions, mail, wrong, opened, signedOut>>
      /\ lock' = [e \in Emails |-> IF lock[e] = r THEN None ELSE lock[e]]
  BY <1>t, FinishShape, GotoShape DEF Drop, Step, At, PCs, Kinds, Ends, GoesOn, Busy, tables, history
<1>1. TypeOK'
  BY <1>t, <1>s DEF TypeOK, Rest
<1>2. ReqInv'
  BY <1>t, <1>s, CalmReq
<1>3. SerialInv'
  BY <1>t, <1>s, CalmSerial
<1>4. LockInv'
  <2>2. \A s \in Requests : (At(s, "judge") => lock[req[s].email] = s /\ req[s].row = codes[req[s].email] /\ req[s].row # None)'
    <3> SUFFICES ASSUME NEW s \in Requests, At(s, "judge")'
                 PROVE  lock'[req'[s].email] = s /\ req'[s].row = codes'[req'[s].email] /\ req'[s].row # None
      OBVIOUS
    <3>1. s # r /\ req'[s] = req[s] /\ At(s, "judge") /\ req[s].email \in Emails
      BY <1>t, <1>s DEF Rest, Ends, At, ReqInv
    <3> QED  BY <1>t, <1>s, <3>1 DEF LockInv
  <2>3. \A e \in Emails : (lock[e] # None => At(lock[e], "judge") /\ req[lock[e]].email = e)'
    BY <1>t, <1>s, SignInAssumption DEF LockInv, TypeOK, At, Rest
  <2> QED  BY <2>2, <2>3 DEF LockInv
<1>5. CodeInv'
  BY <1>t, <1>s, CalmCode DEF Unsent, At, Ends
<1>6. SpentInv'
  BY <1>t, <1>s, CalmSpent DEF Accepted, At, Ends
<1>7. WrongInv'
  BY <1>t, <1>s DEF WrongInv
<1> QED  BY <1>1, <1>2, <1>3, <1>4, <1>5, <1>6, <1>7 DEF IInv

LEMMA SendMailKeeps == ASSUME IInv, NEW r \in Requests, SendMail(r) PROVE IInv'
<1>t. TypeOK /\ ReqInv /\ SerialInv /\ LockInv /\ CodeInv /\ SpentInv /\ WrongInv
  BY DEF IInv
<1>s. /\ Rest(r) /\ At(r, "mail") /\ Ends(r)
      /\ UNCHANGED <<now, begun, codes, windows, accounts, sessions, lock, wrong, opened, signedOut>>
      /\ mail' = mail \cup {<<req[r].email, req[r].n>>}
  BY <1>t, FinishShape, GotoShape DEF SendMail, Step, At, PCs, Kinds, Ends, GoesOn, Busy, tables, history
<1>w. req[r].email \in Emails /\ req[r].n \in Serials /\ req[r].n \in 1 .. begun /\ ~Unsent(r) /\ Busy(r)
  <2>1. Busy(r) /\ ~Unsent(r) /\ req[r].email \in Emails
    BY <1>t, <1>s DEF ReqInv, At, Unsent, Busy
  <2>2. req[r].n \in 1 .. begun /\ begun \in 0 .. MaxRequests
    BY <1>t, <2>1 DEF SerialInv, TypeOK
  <2> QED  BY <2>1, <2>2, SignInAssumption DEF Serials
<1>1. TypeOK'
  BY <1>t, <1>s, <1>w DEF TypeOK, Rest
<1>2. ReqInv'
  BY <1>t, <1>s DEF ReqInv, Rest, Ends, Kinds
<1>3. SerialInv'
  BY <1>t, <1>s, CalmSerial
<1>4. LockInv'
  BY <1>t, <1>s, CalmLock DEF At, Ends
<1>5. CodeInv'
  <2>1. \A c \in 0 .. MaxRequests : Nowhere(c) /\ c # req[r].n => Nowhere(c)'
    BY <1>s DEF Nowhere
  <2>2. \A s \in Requests : Unsent(s)' => Unsent(s) /\ s # r /\ req'[s] = req[s] /\ req[s].n # req[r].n /\ req[s].n \in 0 .. MaxRequests
    BY <1>t, <1>s, <1>w DEF Unsent, Ends, Rest, SerialInv, Busy, TypeOK, Request
  <2>3. \A s \in Requests : (Unsent(s) => Nowhere(req[s].n))'
    BY <1>t, <2>1, <2>2 DEF CodeInv, Nowhere
  <2>4. \A c \in Serials : c > begun => c # req[r].n /\ c \in 0 .. MaxRequests
    BY <1>t, <1>w, SignInAssumption DEF Serials, TypeOK
  <2> QED  BY <1>t, <1>s, <2>1, <2>3, <2>4 DEF CodeInv
<1>6. SpentInv'
  BY <1>t, <1>s DEF SpentInv, SessionsAreEarned, Accepted, Rest, Ends
<1>7. WrongInv'
  BY <1>t, <1>s DEF WrongInv
<1> QED  BY <1>1, <1>2, <1>3, <1>4, <1>5, <1>6, <1>7 DEF IInv

\* A handler that ends and touches nothing.
LEMMA EndKeeps ==
  ASSUME IInv, NEW r \in Requests, Finish(r), ~At(r, "judge"),
         UNCHANGED <<now, begun, codes, windows, accounts, sessions, lock, mail, wrong, opened, signedOut>>
  PROVE  IInv'
<1>t. TypeOK /\ ReqInv /\ SerialInv /\ LockInv /\ CodeInv /\ SpentInv /\ WrongInv
  BY DEF IInv
<1>s. Rest(r) /\ Ends(r)
  BY <1>t, FinishShape DEF Ends
<1>1. TypeOK'
  BY <1>t, <1>s DEF TypeOK, Rest
<1>2. ReqInv'
  BY <1>t, <1>s, CalmReq
<1>3. SerialInv'
  BY <1>t, <1>s, CalmSerial
<1>4. LockInv'
  BY <1>t, <1>s, CalmLock DEF Ends
<1>5. CodeInv'
  BY <1>t, <1>s, CalmCode DEF Unsent, Ends
<1>6. SpentInv'
  BY <1>t, <1>s, CalmSpent DEF Accepted, Ends
<1>7. WrongInv'
  BY <1>t DEF WrongInv
<1> QED  BY <1>1, <1>2, <1>3, <1>4, <1>5, <1>6, <1>7 DEF IInv

LEMMA NewCodeIs ==
  ASSUME NEW q \in Request, q.n \in Serials, NEW row \in CodeRow \cup {None}
  PROVE  /\ NewCode(q, row) \in CodeRow /\ NewCode(q, row) # None
         /\ NewCode(q, row).code = q.n /\ NewCode(q, row).attempts = 0
<1>1. q.at \in Nat /\ q.at + CodeTtl \in Nat
  BY SignInAssumption DEF Request
<1>2. CodeRow \subseteq [code : Nat, expires : Nat, attempts : Nat, sends : Nat, started : Nat]
  BY DEF CodeRow, Serials
<1>3. NewCode(q, row) \in CodeRow
  <2>1. CASE row # None /\ Live(row.started, q.at, AddressWindow)
    <3>1. row.sends + 1 \in Nat /\ row.started \in Nat
      BY <2>1 DEF CodeRow
    <3> QED  BY <1>1, <2>1, <3>1 DEF NewCode, CodeRow
  <2>2. CASE ~(row # None /\ Live(row.started, q.at, AddressWindow))
    BY <1>1, <2>2 DEF NewCode, CodeRow
  <2> QED  BY <2>1, <2>2
<1> QED  BY <1>2, <1>3, SignInAssumption DEF NewCode

LEMMA PutCodeKeeps == ASSUME IInv, NEW r \in Requests, PutCode(r) PROVE IInv'
<1>t. TypeOK /\ ReqInv /\ SerialInv /\ LockInv /\ CodeInv /\ SpentInv /\ WrongInv
  BY DEF IInv
<1> DEFINE e == req[r].email
             new == NewCode(req[r], codes[e])
<1>a. At(r, "put") /\ lock[e] = None /\ UNCHANGED <<now, begun, windows, accounts, sessions, lock, mail, wrong, opened, signedOut>>
  BY DEF PutCode, Step, tables, history
<1>b. CASE Finish(r) /\ codes' = codes
  BY <1>a, <1>b, EndKeeps DEF At
<1>c. CASE Goto(r, "record") /\ codes' = [codes EXCEPT ![e] = new]
  <2>s. Rest(r) /\ GoesOn(r) /\ req'[r].pc = "record"
    BY <1>t, <1>a, <1>c, GotoShape DEF PCs, At, GoesOn, Busy
  <2>w. e \in Emails /\ Unsent(r) /\ Busy(r) /\ Nowhere(req[r].n)
    BY <1>t, <1>a DEF ReqInv, CodeInv, At, Unsent, Busy
  <2>n. req[r].n \in 1 .. begun /\ req[r].n \in Serials
    BY <1>t, <2>w, SignInAssumption DEF SerialInv, TypeOK, Serials
  <2>x. new \in CodeRow /\ new # None /\ new.code = req[r].n /\ new.attempts = 0
    BY <1>t, <2>w, <2>n, NewCodeIs DEF TypeOK
  <2>y. codes'[e] = new /\ \A f \in Emails : f # e => codes'[f] = codes[f]
    BY <1>t, <1>c, <2>w DEF TypeOK
  <2>1. TypeOK'
    BY <1>t, <1>a, <1>c, <2>s, <2>x DEF TypeOK, Rest
  <2> HIDE DEF new
  <2>2. ReqInv'
    BY <1>t, <1>a, <2>s DEF ReqInv, Rest, GoesOn, Same, At, Kinds
  <2>3. SerialInv'
    BY <1>t, <1>a, <2>s, CalmSerial
  <2>4. LockInv'
    <3>1. \A s \in Requests : (At(s, "judge") => lock[req[s].email] = s /\ req[s].row = codes[req[s].email] /\ req[s].row # None)'
      <4> SUFFICES ASSUME NEW s \in Requests, At(s, "judge")'
                   PROVE  lock'[req'[s].email] = s /\ req'[s].row = codes'[req'[s].email] /\ req'[s].row # None
        OBVIOUS
      <4>1. s # r /\ req'[s] = req[s] /\ At(s, "judge") /\ req[s].email \in Emails /\ req[s].email # e
        <5>1. s # r /\ req'[s] = req[s] /\ req[s].pc = "judge"
          BY <2>s DEF Rest, At
        <5>2. lock[req[s].email] = s /\ req[s].email \in Emails
          BY <1>t, <5>1 DEF At, ReqInv, LockInv
        <5> QED  BY <1>a, <5>1, <5>2, SignInAssumption DEF At
      <4> QED  BY <1>t, <1>a, <2>y, <4>1 DEF LockInv
    <3>2. \A f \in Emails : (lock[f] # None => At(lock[f], "judge") /\ req[lock[f]].email = f)'
      BY <1>t, <1>a, <2>s DEF LockInv, TypeOK, At, Rest
    <3> QED  BY <3>1, <3>2 DEF LockInv
  <2>5. CodeInv'
    <3>1. \A c \in 0 .. MaxRequests : Nowhere(c) /\ c # req[r].n => Nowhere(c)'
      BY <1>a, <2>x, <2>y DEF Nowhere
    <3>2. \A s \in Requests : (Unsent(s) => Nowhere(req[s].n))'
      <4> SUFFICES ASSUME NEW s \in Requests, Unsent(s)' PROVE Nowhere(req[s].n)'
        OBVIOUS
      <4>1. s # r /\ req'[s] = req[s] /\ Unsent(s)
        BY <2>s DEF Rest, Unsent
      <4>2. req[s].n # req[r].n /\ req[s].n \in 0 .. MaxRequests
        BY <1>t, <2>w, <4>1 DEF SerialInv, Busy, Unsent, TypeOK, Request
      <4> QED  BY <1>t, <3>1, <4>1, <4>2 DEF CodeInv, Nowhere
    <3>3. \A c \in Serials : c > begun => c # req[r].n /\ c \in 0 .. MaxRequests
      BY <1>t, <2>n, SignInAssumption DEF Serials, TypeOK
    <3>4. \A f, g \in Emails : codes'[f] # None /\ codes'[g] # None /\ codes'[f].code = codes'[g].code => f = g
      BY <1>t, <2>w, <2>x, <2>y DEF CodeInv, Nowhere
    <3> QED  BY <1>t, <1>a, <3>1, <3>2, <3>3, <3>4 DEF CodeInv
  <2>6. SpentInv'
    <3>1. \A s \in Requests : Accepted(s)' => Accepted(s) /\ req'[s] = req[s] /\ req[s].guess # req[r].n
      BY <1>t, <2>s, <2>w DEF Accepted, Rest, ReqInv, Nowhere
    <3>2. \A x \in opened : x.code # req[r].n
      BY <2>w DEF Nowhere
    <3> QED  BY <1>t, <1>a, <2>x, <2>y, <3>1, <3>2 DEF SpentInv, SessionsAreEarned
  <2>7. WrongInv'
    BY <1>t, <1>a, <2>w, <2>x, <2>y, SignInAssumption DEF WrongInv, Nowhere
  <2> QED  BY <2>1, <2>2, <2>3, <2>4, <2>5, <2>6, <2>7 DEF IInv
<1> QED  BY <1>b, <1>c DEF PutCode

LEMMA ReadCodeKeeps == ASSUME IInv, NEW r \in Requests, ReadCode(r) PROVE IInv'
<1>t. TypeOK /\ ReqInv /\ SerialInv /\ LockInv /\ CodeInv /\ SpentInv /\ WrongInv
  BY DEF IInv
<1> DEFINE e == req[r].email
<1>a. At(r, "read") /\ lock[e] = None /\ UNCHANGED <<now, begun, codes, windows, accounts, sessions, mail, wrong, opened, signedOut>>
  BY DEF ReadCode, Step, tables, history
<1>b. CASE Finish(r) /\ lock' = lock
  BY <1>a, <1>b, EndKeeps DEF At
<1>c. CASE /\ codes[e] # None /\ req' = [req EXCEPT ![r].pc = "judge", ![r].row = codes[e]]
           /\ lock' = [lock EXCEPT ![e] = r]
  <2>w. e \in Emails /\ codes[e] \in CodeRow \cup {None} /\ req[r] \in Request
    BY <1>t, <1>a DEF ReqInv, TypeOK, At
  <2> DEFINE q == [req[r] EXCEPT !.pc = "judge", !.row = codes[e]]
  <2>q. q \in Request /\ q.pc = "judge" /\ q.row = codes[e] /\ q.n = req[r].n /\ q.token = req[r].token
        /\ q.email = req[r].email /\ q.guess = req[r].guess /\ q.ip = req[r].ip
    BY <2>w DEF Request, PCs
  <2>r. req' = [req EXCEPT ![r] = q]
    BY <1>c
  <2> HIDE DEF q
  <2>s. Rest(r) /\ GoesOn(r) /\ req'[r].pc = "judge" /\ req'[r].row = codes[e]
    BY <1>t, <1>a, <2>q, <2>r DEF TypeOK, Rest, GoesOn, Same, Busy, At
  <2>y. lock'[e] = r /\ \A f \in Emails : f # e => lock'[f] = lock[f]
    BY <1>t, <1>c, <2>w DEF TypeOK
  <2>1. TypeOK'
    BY <1>t, <1>a, <1>c, <2>s DEF TypeOK, Rest
  <2>2. ReqInv'
    BY <1>t, <1>a, <2>s DEF ReqInv, Rest, GoesOn, Same, At, Kinds
  <2>3. SerialInv'
    BY <1>t, <1>a, <2>s, CalmSerial
  <2>4. LockInv'
    <3>1. \A s \in Requests : (At(s, "judge") => lock[req[s].email] = s /\ req[s].row = codes[req[s].email] /\ req[s].row # None)'
      <4> SUFFICES ASSUME NEW s \in Requests, At(s, "judge")'
                   PROVE  lock'[req'[s].email] = s /\ req'[s].row = codes'[req'[s].email] /\ req'[s].row # None
        OBVIOUS
      <4>1. CASE s = r
        BY <1>a, <1>c, <2>s, <2>y, <4>1 DEF GoesOn, Same
      <4>2. CASE s # r
        <5>1. req'[s] = req[s] /\ At(s, "judge") /\ req[s].email \in Emails /\ req[s].email # e
          <6>1. req'[s] = req[s] /\ req[s].pc = "judge"
            BY <2>s, <4>2 DEF Rest, At
          <6>2. lock[req[s].email] = s /\ req[s].email \in Emails
            BY <1>t, <6>1 DEF At, ReqInv, LockInv
          <6> QED  BY <1>a, <6>1, <6>2, SignInAssumption DEF At
        <5> QED  BY <1>t, <1>a, <2>y, <5>1 DEF LockInv
      <4> QED  BY <4>1, <4>2
    <3>2. \A f \in Emails : (lock[f] # None => At(lock[f], "judge") /\ req[lock[f]].email = f)'
      <4> SUFFICES ASSUME NEW f \in Emails, lock'[f] # None
                   PROVE  req'[lock'[f]].pc = "judge" /\ req'[lock'[f]].email = f
        BY DEF At
      <4>1. CASE f = e
        BY <2>s, <2>y, <4>1 DEF GoesOn, Same
      <4>2. CASE f # e
        BY <1>t, <1>a, <2>s, <2>y, <4>2 DEF LockInv, TypeOK, At, Rest
      <4> QED  BY <4>1, <4>2
    <3> QED  BY <3>1, <3>2 DEF LockInv
  <2>5. CodeInv'
    BY <1>t, <1>a, <2>s, CalmCode DEF Unsent
  <2>6. SpentInv'
    BY <1>t, <1>a, <2>s, CalmSpent DEF Accepted
  <2>7. WrongInv'
    BY <1>t, <1>a DEF WrongInv
  <2> QED  BY <2>1, <2>2, <2>3, <2>4, <2>5, <2>6, <2>7 DEF IInv
<1> QED  BY <1>b, <1>c DEF ReadCode

\* A judged row is unlocked; the rows of other addresses stand.
LEMMA UnlockLock ==
  ASSUME TypeOK, ReqInv, LockInv, NEW r \in Requests, At(r, "judge"), Rest(r),
         req'[r].pc # "judge", lock' = [lock EXCEPT ![req[r].email] = None],
         \A f \in Emails : f # req[r].email => codes'[f] = codes[f]
  PROVE  LockInv'
<1>0. /\ req[r].email \in Emails /\ lock[req[r].email] = r /\ lock'[req[r].email] = None
      /\ \A f \in Emails : f # req[r].email => lock'[f] = lock[f]
  BY DEF ReqInv, LockInv, At, TypeOK
<1>1. \A s \in Requests : (At(s, "judge") => lock[req[s].email] = s /\ req[s].row = codes[req[s].email] /\ req[s].row # None)'
  <2> SUFFICES ASSUME NEW s \in Requests, At(s, "judge")'
               PROVE  lock'[req'[s].email] = s /\ req'[s].row = codes'[req'[s].email] /\ req'[s].row # None
    OBVIOUS
  <2>1. s # r /\ req'[s] = req[s] /\ At(s, "judge") /\ req[s].email \in Emails /\ req[s].email # req[r].email
    <3>1. s # r /\ req'[s] = req[s] /\ req[s].pc = "judge"
      BY DEF Rest, At
    <3>2. lock[req[s].email] = s /\ req[s].email \in Emails
      BY <3>1 DEF At, ReqInv, LockInv
    <3> QED  BY <1>0, <3>1, <3>2 DEF At
  <2> QED  BY <1>0, <2>1 DEF LockInv
<1>2. \A f \in Emails : (lock[f] # None => At(lock[f], "judge") /\ req[lock[f]].email = f)'
  <2> SUFFICES ASSUME NEW f \in Emails, lock'[f] # None
               PROVE  req'[lock'[f]].pc = "judge" /\ req'[lock'[f]].email = f
    BY DEF At
  <2>1. f # req[r].email /\ lock'[f] = lock[f] /\ lock[f] \in Requests /\ req[lock[f]].email = f
        /\ req[lock[f]].pc = "judge"
    BY <1>0 DEF LockInv, TypeOK, At
  <2> QED  BY <2>1 DEF Rest
<1> QED  BY <1>1, <1>2 DEF LockInv

\* Rows only go, and only a code that is on a row is judged wrong.
LEMMA FewerCode ==
  ASSUME TypeOK, SerialInv, CodeInv, NEW r \in Requests, Rest(r), Ends(r) \/ GoesOn(r), ~Unsent(r)',
         UNCHANGED <<begun, mail, opened>>,
         \A f \in Emails : codes'[f] # None => codes[f] # None /\ codes'[f].code = codes[f].code,
         \A c \in Serials : wrong'[c] # wrong[c] => \E f \in Emails : codes[f] # None /\ codes[f].code = c
  PROVE  CodeInv'
<1>1. \A c \in Serials : Nowhere(c) => Nowhere(c)'
  BY DEF Nowhere
<1>2. \A s \in Requests : Unsent(s)' => Nowhere(req[s].n)'
  <2> SUFFICES ASSUME NEW s \in Requests, Unsent(s)' PROVE Nowhere(req[s].n)'
    OBVIOUS
  <2>1. s # r /\ req'[s] = req[s] /\ Unsent(s)
    BY DEF Rest, Unsent
  <2>2. req[s].n \in Serials
    BY <2>1, SignInAssumption DEF SerialInv, Busy, Unsent, TypeOK, Serials
  <2> QED  BY <1>1, <2>1, <2>2 DEF CodeInv, Nowhere
<1>3. \A c \in Serials : c > begun' => Nowhere(c)'
  BY <1>1 DEF CodeInv
<1>4. \A f, g \in Emails : codes'[f] # None /\ codes'[g] # None /\ codes'[f].code = codes'[g].code => f = g
  BY DEF CodeInv
<1> QED  BY <1>2, <1>3, <1>4 DEF CodeInv

LEMMA JudgeKeeps == ASSUME IInv, NEW r \in Requests, Judge(r) PROVE IInv'
<1>t. TypeOK /\ ReqInv /\ SerialInv /\ LockInv /\ CodeInv /\ SpentInv /\ WrongInv
  BY DEF IInv
<1> DEFINE e == req[r].email
             row == req[r].row
<1>a. /\ At(r, "judge") /\ lock' = [lock EXCEPT ![e] = None]
      /\ UNCHANGED <<now, begun, windows, accounts, sessions, mail, opened, signedOut>>
  BY DEF Judge, Step
<1>w. /\ e \in Emails /\ codes[e] = row /\ row # None /\ row \in CodeRow /\ ~Unsent(r)
      /\ row.code \in Serials /\ row.attempts \in Nat /\ Busy(r)
      /\ row.attempts = wrong[row.code] /\ row.attempts < MaxAttempts
  <2>1. e \in Emails /\ codes[e] = row /\ row # None /\ ~Unsent(r) /\ Busy(r)
    BY <1>t, <1>a DEF ReqInv, LockInv, At, Unsent, Busy
  <2>2. row \in CodeRow
    BY <1>t, <2>1 DEF TypeOK
  <2>3. row.code \in Serials /\ row.attempts \in Nat
    BY <2>2 DEF CodeRow
  <2>4. row.attempts = wrong[row.code] /\ row.attempts < MaxAttempts
    BY <1>t, <2>1 DEF WrongInv
  <2> QED  BY <2>1, <2>2, <2>3, <2>4
<1>l. lock' \in [Emails -> Requests \cup {None}]
  BY <1>t, <1>a DEF TypeOK
<1>b. CASE Finish(r) /\ codes' = [codes EXCEPT ![e] = None] /\ wrong' = wrong
  <2>s. Rest(r) /\ Ends(r)
    BY <1>t, <1>b, FinishShape DEF Ends
  <2>y. codes'[e] = None /\ \A f \in Emails : f # e => codes'[f] = codes[f]
    BY <1>t, <1>b, <1>w DEF TypeOK
  <2>1. TypeOK'
    BY <1>t, <1>a, <1>b, <1>l, <2>s DEF TypeOK, Rest
  <2>2. ReqInv'
    BY <1>t, <1>a, <2>s, CalmReq
  <2>3. SerialInv'
    BY <1>t, <1>a, <2>s, CalmSerial
  <2>4. LockInv'
    BY <1>t, <1>a, <2>s, <2>y, UnlockLock DEF Ends
  <2>5. CodeInv'
    BY <1>t, <1>a, <1>b, <2>s, <2>y, FewerCode DEF Unsent, Ends
  <2>6. SpentInv'
    BY <1>t, <1>a, <2>s, <2>y DEF SpentInv, SessionsAreEarned, Accepted, Rest, Ends
  <2>7. WrongInv'
    BY <1>t, <1>b, <2>y DEF WrongInv
  <2> QED  BY <2>1, <2>2, <2>3, <2>4, <2>5, <2>6, <2>7 DEF IInv
<1>c. CASE /\ row.code = req[r].guess /\ codes' = [codes EXCEPT ![e] = None]
           /\ Goto(r, "account") /\ wrong' = wrong
  <2>s. Rest(r) /\ GoesOn(r) /\ Same(r) /\ req'[r].pc = "account"
    BY <1>t, <1>c, <1>w, GotoShape DEF PCs, GoesOn
  <2>y. codes'[e] = None /\ \A f \in Emails : f # e => codes'[f] = codes[f]
    BY <1>t, <1>c, <1>w DEF TypeOK
  <2>1. TypeOK'
    BY <1>t, <1>a, <1>c, <1>l, <2>s DEF TypeOK, Rest
  <2>2. ReqInv'
    BY <1>t, <1>a, <1>w, <2>s DEF ReqInv, Rest, Same, Kinds
  <2>3. SerialInv'
    BY <1>t, <1>a, <2>s, CalmSerial
  <2>4. LockInv'
    BY <1>t, <1>a, <2>s, <2>y, UnlockLock
  <2>5. CodeInv'
    BY <1>t, <1>a, <1>c, <2>s, <2>y, FewerCode DEF Unsent
  <2>6. SpentInv'
    <3>1. \A f \in Emails : codes'[f] # None => codes'[f] = codes[f] /\ codes[f].code # row.code
      BY <1>t, <1>w, <2>y DEF CodeInv
    <3>2. \A s \in Requests : s # r /\ Accepted(s)' => Accepted(s) /\ req'[s] = req[s] /\ req[s].guess # row.code
      BY <1>t, <1>w, <2>s DEF SpentInv, Accepted, Rest
    <3>3. req'[r].guess = row.code /\ \A x \in opened : x.code # row.code
      BY <1>t, <1>w, <1>c, <2>s DEF SpentInv, Same
    <3> QED  BY <1>t, <1>a, <3>1, <3>2, <3>3 DEF SpentInv, SessionsAreEarned
  <2>7. WrongInv'
    BY <1>t, <1>c, <2>y DEF WrongInv
  <2> QED  BY <2>1, <2>2, <2>3, <2>4, <2>5, <2>6, <2>7 DEF IInv
<1>d. CASE /\ codes' = [codes EXCEPT ![e] = IF Burnt(row.attempts + 1) THEN None
                                             ELSE [row EXCEPT !.attempts = @ + 1]]
           /\ wrong' = [wrong EXCEPT ![row.code] = @ + 1] /\ Finish(r)
  <2> DEFINE next == [row EXCEPT !.attempts = @ + 1]
  <2>s. Rest(r) /\ Ends(r)
    BY <1>t, <1>d, FinishShape DEF Ends
  <2>x. next \in CodeRow /\ next.code = row.code /\ next.attempts = row.attempts + 1
    BY <1>w DEF CodeRow
  <2>z. codes' = [codes EXCEPT ![e] = IF Burnt(row.attempts + 1) THEN None ELSE next]
    BY <1>d
  <2> HIDE DEF next
  <2>y. /\ codes'[e] # None => codes'[e] = next /\ ~Burnt(row.attempts + 1)
        /\ \A f \in Emails : f # e => codes'[f] = codes[f]
    BY <1>t, <1>w, <2>z DEF TypeOK
  <2>v. /\ wrong \in [Serials -> Nat] /\ wrong' \in [Serials -> Nat]
        /\ wrong'[row.code] = row.attempts + 1
        /\ \A c \in Serials : c # row.code => wrong'[c] = wrong[c]
    BY <1>t, <1>w, <1>d DEF TypeOK
  <2>1. TypeOK'
    BY <1>t, <1>a, <2>z, <2>v, <1>l, <2>s, <2>x DEF TypeOK, Rest
  <2>2. ReqInv'
    BY <1>t, <1>a, <2>s, CalmReq
  <2>3. SerialInv'
    BY <1>t, <1>a, <2>s, CalmSerial
  <2>4. LockInv'
    BY <1>t, <1>a, <2>s, <2>y, UnlockLock DEF Ends
  <2>c. \A f \in Emails : codes'[f] # None => codes[f] # None /\ codes'[f].code = codes[f].code
    BY <1>w, <2>x, <2>y
  <2>5. CodeInv'
    <3>1. \A c \in Serials : wrong'[c] # wrong[c] => \E f \in Emails : codes[f] # None /\ codes[f].code = c
      BY <1>w, <2>v
    <3>2. ~Unsent(r)'
      BY <2>s DEF Unsent, Ends
    <3> QED  BY <1>t, <1>a, <2>s, <2>c, <3>1, <3>2, FewerCode
  <2>6. SpentInv'
    BY <1>t, <1>a, <2>s, <2>c DEF SpentInv, SessionsAreEarned, Accepted, Rest, Ends
  <2>7. WrongInv'
    <3>1. \A f \in Emails : codes'[f] # None =>
             codes'[f].attempts = wrong'[codes'[f].code] /\ codes'[f].attempts < MaxAttempts
      <4> SUFFICES ASSUME NEW f \in Emails, codes'[f] # None
                   PROVE  codes'[f].attempts = wrong'[codes'[f].code] /\ codes'[f].attempts < MaxAttempts
        OBVIOUS
      <4>1. CASE f = e
        BY <1>w, <2>x, <2>y, <2>v, <4>1, SignInAssumption DEF Burnt
      <4>2. CASE f # e
        <5>1. codes'[f] = codes[f] /\ codes[f].code # row.code /\ codes[f].code \in Serials
          BY <1>t, <1>w, <2>y, <4>2 DEF CodeInv, TypeOK, CodeRow
        <5> QED  BY <1>t, <2>v, <5>1 DEF WrongInv
      <4> QED  BY <4>1, <4>2
    <3>2. \A c \in Serials : wrong'[c] <= MaxAttempts
      BY <1>t, <1>w, <2>v, SignInAssumption DEF WrongInv
    <3> QED  BY <3>1, <3>2 DEF WrongInv
  <2> QED  BY <2>1, <2>2, <2>3, <2>4, <2>5, <2>6, <2>7 DEF IInv
<1> QED  BY <1>b, <1>c, <1>d DEF Judge

LEMMA CreateAccountKeeps == ASSUME IInv, NEW r \in Requests, CreateAccount(r) PROVE IInv'
<1>t. TypeOK /\ ReqInv /\ SerialInv /\ LockInv /\ CodeInv /\ SpentInv /\ WrongInv
  BY DEF IInv
<1> DEFINE e == req[r].email
             a == IF accounts[e] = 0 THEN req[r].n ELSE accounts[e]
             q == [req[r] EXCEPT !.pc = "open", !.account = a]
<1>a. /\ At(r, "account") /\ UNCHANGED <<now, begun, codes, windows, sessions, lock, mail, wrong, opened, signedOut>>
      /\ accounts' = [accounts EXCEPT ![e] = a] /\ req' = [req EXCEPT ![r] = q]
  BY DEF CreateAccount, Step, history
<1>w. e \in Emails /\ req[r] \in Request /\ Busy(r)
  BY <1>t, <1>a DEF ReqInv, TypeOK, At, Busy
<1>x. a \in Serials /\ a \in 0 .. MaxRequests
  <2>1. req[r].n \in 1 .. begun /\ accounts[e] \in 0 .. MaxRequests /\ begun \in 0 .. MaxRequests
    BY <1>t, <1>w DEF SerialInv, TypeOK
  <2> QED  BY <2>1, SignInAssumption DEF Serials
<1> HIDE DEF a
<1>q. q \in Request /\ q.pc = "open" /\ q.account = a /\ q.n = req[r].n /\ q.token = req[r].token
      /\ q.email = req[r].email /\ q.guess = req[r].guess /\ q.ip = req[r].ip
  BY <1>w, <1>x DEF Request, PCs
<1> HIDE DEF q
<1>s. Rest(r) /\ Same(r) /\ GoesOn(r) /\ req'[r].pc = "open" /\ req'[r].account = a
  BY <1>t, <1>a, <1>w, <1>q DEF TypeOK, Rest, GoesOn, Same
<1>1. TypeOK'
  BY <1>t, <1>a, <1>s, <1>x DEF TypeOK, Rest
<1>2. ReqInv'
  BY <1>t, <1>a, <1>w, <1>s, <1>x DEF ReqInv, Rest, Same, Kinds
<1>3. SerialInv'
  BY <1>t, <1>a, <1>s, CalmSerial
<1>4. LockInv'
  BY <1>t, <1>a, <1>s, CalmLock DEF At
<1>5. CodeInv'
  BY <1>t, <1>a, <1>s, CalmCode DEF Unsent
<1>6. SpentInv'
  BY <1>t, <1>a, <1>s, CalmSpent DEF Accepted, At, Same
<1>7. WrongInv'
  BY <1>t, <1>a DEF WrongInv
<1> QED  BY <1>1, <1>2, <1>3, <1>4, <1>5, <1>6, <1>7 DEF IInv

LEMMA LookupKeeps == ASSUME IInv, NEW r \in Requests, Lookup(r) PROVE IInv'
<1>t. TypeOK /\ ReqInv /\ SerialInv /\ LockInv /\ CodeInv /\ SpentInv /\ WrongInv
  BY DEF IInv
<1> DEFINE row == sessions[req[r].token]
             pc == IF row.expires <= now THEN "expire"
                   ELSE IF row.seen + TouchInterval <= now THEN "touch" ELSE req[r].kind
             q == [req[r] EXCEPT !.at = now, !.account = row.account, !.pc = pc]
<1>a. At(r, "lookup") /\ UNCHANGED <<now, begun, codes, windows, accounts, sessions, lock, mail, wrong, opened, signedOut>>
  BY DEF Lookup, Step, tables, history
<1>b. CASE Finish(r)
  BY <1>a, <1>b, EndKeeps DEF At
<1>c. CASE row # None /\ req' = [req EXCEPT ![r] = q]
  <2>w. req[r].token \in Serials /\ req[r] \in Request /\ Busy(r) /\ now \in Nat
    BY <1>t, <1>a DEF ReqInv, TypeOK, At, Busy, Kinds
  <2>x. row.account \in Serials /\ row.account \in 0 .. MaxRequests
    BY <1>t, <1>c, <2>w, SignInAssumption DEF TypeOK, SessionRow, Serials
  <2>p. pc \in {"expire", "touch"} \cup Kinds /\ pc \in PCs
    BY <2>w DEF Request, PCs
  <2> HIDE DEF pc, row
  <2>q. q \in Request /\ q.pc = pc /\ q.account = row.account /\ q.n = req[r].n /\ q.token = req[r].token
        /\ q.email = req[r].email /\ q.guess = req[r].guess /\ q.ip = req[r].ip
    BY <2>w, <2>x, <2>p DEF Request
  <2> HIDE DEF q
  <2>s. Rest(r) /\ Same(r) /\ GoesOn(r) /\ req'[r].pc = pc /\ req'[r].account = row.account
    BY <1>t, <1>c, <2>w, <2>q DEF TypeOK, Rest, GoesOn, Same
  <2>n. pc \notin {"idle", "count", "put", "record", "mail", "read", "judge", "account", "open", "lookup"}
    BY <2>p DEF Kinds
  <2>1. TypeOK'
    BY <1>t, <1>a, <2>s DEF TypeOK, Rest
  <2>2. ReqInv'
    BY <1>t, <1>a, <2>w, <2>s, <2>x, <2>n DEF ReqInv, Rest, Same
  <2>3. SerialInv'
    BY <1>t, <1>a, <2>s, CalmSerial
  <2>4. LockInv'
    BY <1>t, <1>a, <2>s, <2>n, CalmLock DEF At
  <2>5. CodeInv'
    BY <1>t, <1>a, <2>s, <2>n, CalmCode DEF Unsent
  <2>6. SpentInv'
    BY <1>t, <1>a, <2>s, <2>n, CalmSpent DEF Accepted
  <2>7. WrongInv'
    BY <1>t, <1>a DEF WrongInv
  <2> QED  BY <2>1, <2>2, <2>3, <2>4, <2>5, <2>6, <2>7 DEF IInv
<1> QED  BY <1>b, <1>c DEF Lookup

LEMMA OpenSessionKeeps == ASSUME IInv, NEW r \in Requests, OpenSession(r) PROVE IInv'
<1>t. TypeOK /\ ReqInv /\ SerialInv /\ LockInv /\ CodeInv /\ SpentInv /\ WrongInv
  BY DEF IInv
<1> DEFINE q == req[r]
             new == [account |-> q.account, expires |-> now + SessionTtl, seen |-> now]
             x == [token |-> q.n, email |-> q.email, code |-> q.guess]
<1>a. At(r, "open") /\ Finish(r) /\ UNCHANGED <<now, begun, codes, windows, accounts, lock, mail, wrong, signedOut>>
  BY DEF OpenSession, Step
<1>b. CASE UNCHANGED <<sessions, opened>>
  BY <1>a, <1>b, EndKeeps DEF At
<1>c. CASE /\ sessions' = [sessions EXCEPT ![q.n] = new]
           /\ opened' = IF q.guess = 0 THEN opened ELSE opened \cup {x}
  <2>s. Rest(r) /\ Ends(r)
    BY <1>t, <1>a, FinishShape DEF Ends
  <2>w. Busy(r) /\ q.n \in 1 .. begun /\ begun \in 0 .. MaxRequests /\ q.account \in Serials /\ now \in Nat
        /\ q.email \in Emails /\ q.guess \in 0 .. MaxRequests
    BY <1>t, <1>a DEF ReqInv, SerialInv, TypeOK, At, Busy, Request
  <2>x. q.n \in Serials /\ new \in SessionRow /\ (q.guess # 0 => q.guess \in Serials)
    BY <2>w, SignInAssumption DEF SessionRow, Serials
  <2>y. /\ \A t \in Serials : t # q.n => sessions'[t] = sessions[t]
        /\ sessions' \in [Serials -> SessionRow \cup {None}]
    BY <1>t, <1>c, <2>x DEF TypeOK
  <2>g. q.guess # 0 => Accepted(r) /\ <<q.email, q.guess>> \in mail
    BY <1>t, <1>a DEF Accepted, At, ReqInv
  <2>m. x.code = q.guess /\ x.email = q.email /\ x.token = q.n
    OBVIOUS
  <2>o. \A y \in opened' : y \in opened \/ (y = x /\ q.guess # 0)
    BY <1>c
  <2>1. TypeOK'
    <3>1. opened' \subseteq [token : Serials, email : Emails, code : Serials]
      BY <1>t, <1>c, <2>w, <2>x DEF TypeOK
    <3> QED  BY <1>t, <1>a, <2>s, <2>y, <3>1 DEF TypeOK, Rest
  <2> HIDE DEF x, new
  <2>2. ReqInv'
    BY <1>t, <1>a, <2>s, CalmReq
  <2>3. SerialInv'
    <3>0. PICK n \in Serials : n = q.n
      BY <2>x
    <3>1. (\A t \in Serials : Over(t) => Over(t)') /\ ~Over(n)
      BY <1>t, <1>a, <2>s, <2>w, <3>0, StepSerial DEF Over
    <3>2. Over(n)'
      <4>1. \A s \in Requests : Busy(s)' => Busy(s) /\ s # r /\ req'[s] = req[s]
        BY <2>s DEF Busy, Rest, Ends
      <4>2. \A s \in Requests : Busy(s) /\ s # r => req[s].n # n
        BY <1>t, <2>w, <3>0 DEF SerialInv
      <4>3. n \in 1 .. begun'
        BY <1>a, <2>w, <3>0
      <4> QED  BY <4>1, <4>2, <4>3 DEF Over
    <3>3. \A t \in Serials : sessions'[t] # None => Over(t)'
      <4> SUFFICES ASSUME NEW t \in Serials, sessions'[t] # None PROVE Over(t)'
        OBVIOUS
      <4>1. CASE t = n
        BY <3>2, <4>1 DEF Over
      <4>2. CASE t # n
        BY <1>t, <2>y, <3>0, <3>1, <4>2 DEF SerialInv
      <4> QED  BY <4>1, <4>2
    <3>4. \A t \in signedOut' : Over(t)' /\ sessions'[t] = None
      BY <1>t, <1>a, <2>y, <3>0, <3>1 DEF SerialInv, TypeOK
    <3> QED  BY <1>t, <1>a, <2>s, <3>3, <3>4, StepSerial
  <2>4. LockInv'
    BY <1>t, <1>a, <2>s, CalmLock DEF At, Ends
  <2>5. CodeInv'
    <3>1. \A c \in 0 .. MaxRequests : Nowhere(c) => Nowhere(c)'
      BY <1>a, <2>g, <2>m, <2>o DEF Nowhere
    <3>2. \A s \in Requests : Unsent(s)' => Nowhere(req[s].n)'
      <4> SUFFICES ASSUME NEW s \in Requests, Unsent(s)' PROVE Nowhere(req[s].n)'
        OBVIOUS
      <4>1. req'[s] = req[s] /\ Unsent(s) /\ req[s].n \in 0 .. MaxRequests
        BY <1>t, <2>s DEF Rest, Ends, Unsent, TypeOK, Request
      <4> QED  BY <1>t, <3>1, <4>1 DEF CodeInv, Nowhere
    <3>3. \A c \in Serials : c \in 0 .. MaxRequests
      BY SignInAssumption DEF Serials
    <3> QED  BY <1>t, <1>a, <3>1, <3>2, <3>3 DEF CodeInv
  <2>6. SpentInv'
    <3>1. \A s \in Requests : Accepted(s)' => Accepted(s) /\ s # r /\ req'[s] = req[s]
      BY <2>s DEF Accepted, Rest, Ends
    <3>2. q.guess # 0 => /\ \A f \in Emails : codes[f] # None => codes[f].code # q.guess
                         /\ \A s \in Requests : s # r /\ Accepted(s) => req[s].guess # q.guess
                         /\ \A y \in opened : y.code # q.guess
      BY <1>t, <2>g DEF SpentInv
    <3>3. SessionsAreEarned'
      BY <1>t, <1>a, <2>g, <2>m, <2>o, <3>2 DEF SpentInv, SessionsAreEarned
    <3> QED  BY <1>t, <1>a, <2>m, <2>o, <3>1, <3>2, <3>3 DEF SpentInv
  <2>7. WrongInv'
    BY <1>t, <1>a DEF WrongInv
  <2> QED  BY <2>1, <2>2, <2>3, <2>4, <2>5, <2>6, <2>7 DEF IInv
<1> QED  BY <1>b, <1>c DEF OpenSession

\* Time passes, or nothing happens.
LEMMA IdleKeeps ==
  ASSUME IInv, now' \in Nat, req' = req,
         UNCHANGED <<begun, codes, windows, accounts, sessions, lock, mail, wrong, opened, signedOut>>
  PROVE  IInv'
<1>t. TypeOK /\ ReqInv /\ SerialInv /\ LockInv /\ CodeInv /\ SpentInv /\ WrongInv
  BY DEF IInv
<1>0. /\ \A s \in Requests : (Busy(s)' <=> Busy(s)) /\ (Unsent(s)' <=> Unsent(s)) /\ (Accepted(s)' <=> Accepted(s))
      /\ \A c \in 0 .. MaxRequests : Nowhere(c)' <=> Nowhere(c)
      /\ \A t \in Serials : Over(t)' <=> Over(t)
  BY DEF Busy, Unsent, Accepted, Nowhere, Over
<1>1. TypeOK'
  BY <1>t DEF TypeOK
<1>2. ReqInv'
  BY <1>t DEF ReqInv
<1>3. SerialInv'
  BY <1>t DEF SerialInv, Busy, Over
<1>4. LockInv'
  BY <1>t DEF LockInv, At
<1>5. CodeInv'
  BY <1>t DEF CodeInv, Nowhere, Unsent
<1>6. SpentInv'
  BY <1>t, <1>0 DEF SpentInv, SessionsAreEarned, Accepted
<1>7. WrongInv'
  BY <1>t DEF WrongInv
<1> QED  BY <1>1, <1>2, <1>3, <1>4, <1>5, <1>6, <1>7 DEF IInv

LEMMA InitHolds == Init => IInv
<1> SUFFICES ASSUME Init PROVE IInv
  OBVIOUS
<1>0. /\ \A r \in Requests : req[r] = Idle /\ ~Busy(r) /\ ~Unsent(r) /\ ~Accepted(r) /\ ~At(r, "judge")
      /\ \A r \in Requests : req[r].pc = "idle" /\ req[r].token = 0 /\ req[r].guess = 0
  BY DEF Init, Busy, Unsent, Accepted, At, Idle
<1>1. TypeOK
  BY IdleType, SignInAssumption DEF Init, TypeOK, Serials
<1>2. ReqInv
  BY <1>0 DEF ReqInv, Kinds
<1>3. SerialInv
  BY <1>0 DEF Init, SerialInv
<1>4. LockInv
  BY <1>0 DEF Init, LockInv
<1>5. CodeInv
  BY <1>0 DEF Init, CodeInv, Nowhere
<1>6. SpentInv
  BY <1>0 DEF Init, SpentInv, SessionsAreEarned
<1>7. WrongInv
  BY SignInAssumption DEF Init, WrongInv
<1> QED  BY <1>1, <1>2, <1>3, <1>4, <1>5, <1>6, <1>7 DEF IInv

LEMMA NextKeeps == IInv /\ [Next]_vars => IInv'
<1> SUFFICES ASSUME IInv, [Next]_vars PROVE IInv'
  OBVIOUS
<1>1. CASE Tick
  BY <1>1, IdleKeeps, SignInAssumption DEF Tick, tables, history, IInv, TypeOK
<1>2. CASE UNCHANGED vars
  BY <1>2, IdleKeeps DEF vars, IInv, TypeOK
<1>3. CASE \E r \in Requests : Handler(r)
  <2>1. PICK r \in Requests : Handler(r)
    BY <1>3
  <2> QED
    BY <2>1, EmailRequestKeeps, CountSendsKeeps, PutCodeKeeps, RecordSendKeeps, SendMailKeeps,
       EmailVerifyKeeps, ReadCodeKeeps, JudgeKeeps, SsoKeeps, CreateAccountKeeps,
       OpenSessionKeeps, SessionRequestKeeps, LookupKeeps, ExpireKeeps, TouchSessionKeeps,
       ViewKeeps, LogoutKeeps, RemoveAccountKeeps, DropKeeps
    DEF Handler
<1> QED  BY <1>1, <1>2, <1>3 DEF Next

(***************************************************************************)
(* The theorems.                                                           *)
(***************************************************************************)
\* The inductive invariant holds in every reachable state of sign-in.
THEOREM SignInInvariantHolds == Spec => []IInv
<1>1. Init => IInv
  BY InitHolds
<1>2. IInv /\ [Next]_vars => IInv'
  BY NextKeeps
<1> QED  BY <1>1, <1>2, PTL DEF Spec

\* Every row, session and handler of sign-in has its type.
THEOREM SignInTypeCorrect == Spec => []TypeOK
<1>1. IInv => TypeOK
  BY DEF IInv
<1> QED  BY <1>1, SignInInvariantHolds, PTL

\* take_login_code: a mailed code opens at most one session, for its address.
THEOREM CodesOpenOneSession == Spec => []SessionsAreEarned
<1>1. IInv => SessionsAreEarned
  BY DEF IInv, SpentInv
<1> QED  BY <1>1, SignInInvariantHolds, PTL

\* take_login_code: the row's lock holds a code to MaxAttempts wrong guesses.
THEOREM CodesTakeFewGuesses == Spec => []FiveGuesses
<1>1. IInv => FiveGuesses
  <2> SUFFICES ASSUME IInv, NEW c \in Serials
               PROVE  /\ wrong[c] <= MaxAttempts
                      /\ wrong[c] = MaxAttempts => \A e \in Emails : codes[e] # None => codes[e].code # c
    BY DEF FiveGuesses
  <2>1. wrong[c] <= MaxAttempts
    BY DEF IInv, WrongInv
  <2>2. ASSUME wrong[c] = MaxAttempts, NEW e \in Emails, codes[e] # None, codes[e].code = c PROVE FALSE
    <3>1. codes[e].attempts = MaxAttempts /\ codes[e].attempts < MaxAttempts
      BY <2>2 DEF IInv, WrongInv
    <3> QED  BY <3>1, SignInAssumption
  <2> QED  BY <2>1, <2>2
<1> QED  BY <1>1, SignInInvariantHolds, PTL

\* delete_session and touch_session: a token signed out is never a session again.
THEOREM TokensStayOut == Spec => []SignedOutStaysOut
<1>1. IInv => SignedOutStaysOut
  BY DEF IInv, SerialInv, SignedOutStaysOut
<1> QED  BY <1>1, SignInInvariantHolds, PTL
-----------------------------------------------------------------------------
(***************************************************************************)
(* The limit of an IP.  Handlers that have counted before the window was    *)
(* full are still to record; those for whom it is over will start it anew.  *)
(***************************************************************************)
Counted(r) == req[r].pc \in {"put", "record"}
Sending(i) == {r \in Requests : Counted(r) /\ req[r].ip = i /\ Live(windows[i].started, req[r].at, IpWindow)}
IpInv == /\ \A r \in Requests : Counted(r) => SendsPerIp # 0
         /\ \A i \in Ips : windows[i].sends + Cardinality(Sending(i)) < SendsPerIp + Cardinality(Requests)

LEMMA SendingIsFinite ==
  /\ Cardinality(Requests) \in Nat \ {0}
  /\ \A i \in Ips : /\ IsFiniteSet(Sending(i)) /\ Cardinality(Sending(i)) \in Nat
                    /\ Cardinality(Sending(i)) <= Cardinality(Requests)
<1>1. Cardinality(Requests) \in Nat \ {0}
  BY SignInAssumption, FS_CardinalityType, FS_EmptySet
<1>2. \A i \in Ips : /\ IsFiniteSet(Sending(i)) /\ Cardinality(Sending(i)) \in Nat
                     /\ Cardinality(Sending(i)) <= Cardinality(Requests)
  <2> SUFFICES ASSUME NEW i \in Ips
               PROVE  /\ IsFiniteSet(Sending(i)) /\ Cardinality(Sending(i)) \in Nat
                      /\ Cardinality(Sending(i)) <= Cardinality(Requests)
    OBVIOUS
  <2>1. Sending(i) \in SUBSET Requests
    BY DEF Sending
  <2>2. IsFiniteSet(Requests)
    BY SignInAssumption
  <2>3. IsFiniteSet(Sending(i)) /\ Cardinality(Sending(i)) <= Cardinality(Requests)
    BY <2>1, <2>2, FS_Subset
  <2> QED  BY <2>3, FS_CardinalityType
<1> QED  BY <1>1, <1>2

\* A step after which fewer handlers have counted keeps the bound.
LEMMA FewerSend ==
  ASSUME TypeOK, IpInv, windows' = windows, \A i \in Ips : Sending(i)' \subseteq Sending(i),
         \A s \in Requests : Counted(s)' => SendsPerIp # 0
  PROVE  IpInv'
<1> SUFFICES ASSUME NEW i \in Ips
             PROVE  (windows[i].sends + Cardinality(Sending(i)) < SendsPerIp + Cardinality(Requests))'
  BY DEF IpInv
<1>1. IsFiniteSet(Sending(i)) /\ Sending(i)' \in SUBSET Sending(i)
  BY SendingIsFinite
<1>2. Cardinality(Sending(i)') <= Cardinality(Sending(i)) /\ IsFiniteSet(Sending(i)')
  BY <1>1, FS_Subset
<1>3. Cardinality(Sending(i)') \in Nat
  BY <1>2, FS_CardinalityType
<1>4. windows[i].sends \in Nat /\ Cardinality(Sending(i)) \in Nat /\ Cardinality(Requests) \in Nat
  BY SendingIsFinite DEF TypeOK
<1> QED  BY <1>2, <1>3, <1>4, SignInAssumption DEF IpInv

\* So do all steps but a count, the upsert of the code and a record.
LEMMA OneMoves ==
  ASSUME TypeOK, IpInv, NEW r \in Requests, windows' = windows, \A s \in Requests : s # r => req'[s] = req[s],
         ~Counted(r)'
  PROVE  IpInv'
<1>1. \A s \in Requests : Counted(s)' => Counted(s) /\ req'[s] = req[s]
  BY DEF Counted
<1>2. \A i \in Ips : Sending(i)' \subseteq Sending(i)
  BY <1>1 DEF Sending
<1> QED  BY <1>1, <1>2, FewerSend DEF IpInv

\* A handler counts: in a live window it saw room, otherwise it is not one of those.
LEMMA CountSendsBounded == ASSUME TypeOK, IpInv, ReqInv, NEW r \in Requests, CountSends(r) PROVE IpInv'
<1> DEFINE ip == req[r].ip
<1>1. /\ windows' = windows /\ req[r].pc = "count" /\ ip \in Ips
      /\ req[r] \in Request /\ windows[ip].sends \in Nat
  BY DEF CountSends, Step, At, tables, ReqInv, TypeOK
<1>2. CASE Finish(r)
  BY <1>1, <1>2, FinishShape, OneMoves DEF Rest, Counted
<1>3. CASE ~Full(RecentSends(ip, req[r].at)) /\ Goto(r, "put")
  <2>1. Rest(r) /\ req'[r] = [req[r] EXCEPT !.pc = "put"] /\ req'[r].ip = ip /\ req'[r].at = req[r].at
    BY <1>1, <1>3 DEF Goto, TypeOK, Rest, Request, PCs
  <2>2. SendsPerIp # 0 /\ (Live(windows[ip].started, req[r].at, IpWindow) => windows[ip].sends < SendsPerIp)
    BY <1>1, <1>3, SignInAssumption DEF Full, RecentSends
  <2>3. \A s \in Requests : Counted(s)' => SendsPerIp # 0
    BY <2>2
  <2> SUFFICES ASSUME NEW i \in Ips
               PROVE  (windows[i].sends + Cardinality(Sending(i)) < SendsPerIp + Cardinality(Requests))'
    BY <2>3 DEF IpInv
  <2>4. CASE i = ip /\ Live(windows[ip].started, req[r].at, IpWindow)
    <3>1. Sending(i)' \in SUBSET Requests /\ IsFiniteSet(Requests)
      BY SignInAssumption DEF Sending
    <3>2. IsFiniteSet(Sending(i)') /\ Cardinality(Sending(i)') <= Cardinality(Requests)
      BY <3>1, FS_Subset
    <3>3. Cardinality(Sending(i)') \in Nat /\ Cardinality(Requests) \in Nat
      BY <3>2, FS_CardinalityType, SendingIsFinite
    <3> QED  BY <1>1, <2>2, <2>4, <3>2, <3>3, SignInAssumption
  <2>5. CASE ~(i = ip /\ Live(windows[ip].started, req[r].at, IpWindow))
    <3>1. Sending(i)' = Sending(i)
      BY <1>1, <2>1, <2>5 DEF Sending, Counted, Rest
    <3> QED  BY <1>1, <3>1 DEF IpInv
  <2> QED  BY <2>4, <2>5
<1> QED  BY <1>2, <1>3 DEF CountSends

LEMMA PutCodeBounded == ASSUME TypeOK, IpInv, NEW r \in Requests, PutCode(r) PROVE IpInv'
<1>1. windows' = windows /\ req[r].pc = "put" /\ req[r] \in Request
  BY DEF PutCode, Step, At, TypeOK
<1>2. CASE Finish(r)
  BY <1>1, <1>2, FinishShape, OneMoves DEF Rest, Counted
<1>3. CASE Goto(r, "record")
  <2>1. Rest(r) /\ req'[r] = [req[r] EXCEPT !.pc = "record"] /\ req'[r].ip = req[r].ip /\ req'[r].at = req[r].at
    BY <1>1, <1>3 DEF Goto, TypeOK, Rest, Request, PCs
  <2>2. \A s \in Requests : Counted(s)' => Counted(s) /\ req'[s].ip = req[s].ip /\ req'[s].at = req[s].at
    BY <1>1, <2>1 DEF Counted, Rest
  <2>3. \A i \in Ips : Sending(i)' \subseteq Sending(i)
    BY <1>1, <2>2 DEF Sending
  <2> QED  BY <1>1, <2>2, <2>3, FewerSend DEF IpInv
<1> QED  BY <1>2, <1>3 DEF PutCode

\* A record adds one for the handler that made it, or starts the window anew.
LEMMA RecordSendBounded == ASSUME TypeOK, IpInv, ReqInv, NEW r \in Requests, RecordSend(r) PROVE IpInv'
<1> DEFINE ip == req[r].ip
           w == windows[ip]
           fresh == [sends |-> 1, started |-> req[r].at]
           next == IF w.sends # 0 /\ Live(w.started, req[r].at, IpWindow) THEN [w EXCEPT !.sends = @ + 1] ELSE fresh
<1>1. /\ windows' = [windows EXCEPT ![ip] = next] /\ req[r].pc = "record" /\ ip \in Ips
      /\ req[r] \in Request /\ w \in [sends : Nat, started : Nat] /\ Goto(r, "mail")
  BY DEF RecordSend, Step, At, ReqInv, TypeOK
<1>2. /\ \A s \in Requests \ {r} : req'[s] = req[s]
      /\ Counted(r) /\ ~Counted(r)' /\ \A i \in Ips : r \notin Sending(i)'
  BY <1>1, GotoShape DEF PCs, Rest, Counted, Sending
<1>3. SendsPerIp # 0 /\ \A s \in Requests : Counted(s)' => SendsPerIp # 0
  BY <1>2 DEF IpInv
<1>4. windows'[ip] = next /\ \A i \in Ips \ {ip} : windows'[i] = windows[i]
  BY <1>1 DEF TypeOK
<1>5. \A s \in Requests \ {r} : Counted(s)' <=> Counted(s)
  BY <1>2 DEF Counted
<1> SUFFICES ASSUME NEW i \in Ips
             PROVE  (windows[i].sends + Cardinality(Sending(i)) < SendsPerIp + Cardinality(Requests))'
  BY <1>3 DEF IpInv
<1>6. CASE i # ip
  <2>1. Sending(i)' = Sending(i)
    BY <1>2, <1>4, <1>5, <1>6 DEF Sending
  <2> QED  BY <1>4, <1>6, <2>1 DEF IpInv
<1>7. CASE i = ip /\ w.sends # 0 /\ Live(w.started, req[r].at, IpWindow)
  <2>1. windows'[i].sends = w.sends + 1 /\ windows'[i].started = w.started
    BY <1>1, <1>4, <1>7
  <2>2. Sending(i)' = Sending(i) \ {r} /\ r \in Sending(i)
    BY <1>2, <1>5, <1>7, <2>1 DEF Sending
  <2>3. Cardinality(Sending(i)') = Cardinality(Sending(i)) - 1
    BY <2>2, SendingIsFinite, FS_RemoveElement
  <2>4. w.sends \in Nat /\ Cardinality(Sending(i)) \in Nat /\ Cardinality(Requests) \in Nat
    BY <1>1, SendingIsFinite
  <2> HIDE DEF next
  <2> QED  BY <1>7, <2>1, <2>3, <2>4, SignInAssumption DEF IpInv
<1>8. CASE i = ip /\ ~(w.sends # 0 /\ Live(w.started, req[r].at, IpWindow))
  <2>1. windows'[i].sends = 1
    BY <1>4, <1>8
  <2>2. Sending(i)' \in SUBSET (Requests \ {r}) /\ IsFiniteSet(Requests)
    BY <1>2, SignInAssumption DEF Sending
  <2>3. IsFiniteSet(Requests \ {r}) /\ Cardinality(Requests \ {r}) = Cardinality(Requests) - 1
    BY <2>2, FS_RemoveElement
  <2>4. IsFiniteSet(Sending(i)') /\ Cardinality(Sending(i)') <= Cardinality(Requests) - 1
    BY <2>2, <2>3, FS_Subset
  <2>5. Cardinality(Sending(i)') \in Nat /\ Cardinality(Requests) \in Nat
    BY <2>4, FS_CardinalityType, SendingIsFinite
  <2> HIDE DEF next
  <2> QED  BY <1>3, <2>1, <2>4, <2>5, SignInAssumption
<1> QED  BY <1>6, <1>7, <1>8

\* Every other handler leaves the windows alone and counts nothing.
LEMMA OthersBounded ==
  ASSUME TypeOK, IpInv, ReqInv, NEW r \in Requests, Handler(r),
         ~CountSends(r), ~PutCode(r), ~RecordSend(r)
  PROVE  IpInv'
<1> USE DEF Counted, Rest, tables
<1>1. CASE EmailRequest(r)
  BY <1>1, OneMoves DEF EmailRequest, Begin, TypeOK, Idle
<1>2. CASE SendMail(r) \/ View(r)
  BY <1>2, FinishShape, OneMoves DEF SendMail, View
<1>3. CASE EmailVerify(r)
  BY <1>3, OneMoves DEF EmailVerify, Begin, TypeOK, Idle
<1>4. CASE ReadCode(r)
  <2>1. CASE Finish(r)
    BY <1>4, <2>1, FinishShape, OneMoves DEF ReadCode
  <2>2. CASE req' = [req EXCEPT ![r].pc = "judge", ![r].row = codes[req[r].email]]
    <3>1. req'[r].pc = "judge" /\ \A s \in Requests : s # r => req'[s] = req[s]
      BY <2>2 DEF TypeOK, Request
    <3> QED  BY <1>4, <3>1, OneMoves DEF ReadCode
  <2> QED  BY <1>4, <2>1, <2>2 DEF ReadCode
<1>5. CASE Judge(r)
  <2>1. CASE Finish(r)
    BY <1>5, <2>1, FinishShape, OneMoves DEF Judge
  <2>2. CASE Goto(r, "account")
    BY <1>5, <2>2, GotoShape, OneMoves DEF Judge, PCs
  <2> QED  BY <1>5, <2>1, <2>2 DEF Judge
<1>6. CASE Sso(r)
  BY <1>6, OneMoves DEF Sso, Begin, TypeOK, Idle
<1>7. CASE CreateAccount(r)
  <2>1. req'[r].pc = "open" /\ \A s \in Requests : s # r => req'[s] = req[s]
    BY <1>7 DEF CreateAccount, TypeOK, Request
  <2> QED  BY <1>7, <2>1, OneMoves DEF CreateAccount
<1>8. CASE OpenSession(r) \/ Expire(r) \/ Logout(r) \/ RemoveAccount(r) \/ Drop(r)
  BY <1>8, FinishShape, OneMoves DEF OpenSession, Expire, Logout, RemoveAccount, Drop
<1>9. CASE SessionRequest(r)
  BY <1>9, OneMoves DEF SessionRequest, Begin, TypeOK, Idle
<1>10. CASE Lookup(r)
  <2>1. CASE Finish(r)
    BY <1>10, <2>1, FinishShape, OneMoves DEF Lookup
  <2>2. CASE ~Finish(r)
    <3>1. req[r] \in Request /\ req[r].kind \in Kinds
      BY DEF TypeOK, Request
    <3> DEFINE s == sessions[req[r].token]
               pc == IF s.expires <= now THEN "expire" ELSE IF s.seen + TouchInterval <= now THEN "touch" ELSE req[r].kind
               q == [req[r] EXCEPT !.at = now, !.account = s.account, !.pc = pc]
    <3>2. pc \in {"expire", "touch"} \cup Kinds
      BY <3>1
    <3>3. req' = [req EXCEPT ![r] = q]
      BY <1>10, <2>2 DEF Lookup
    <3>4. q.pc = pc
      BY <3>1 DEF Request
    <3> HIDE DEF pc, q
    <3>5. req'[r].pc = pc /\ \A u \in Requests : u # r => req'[u] = req[u]
      BY <3>3, <3>4 DEF TypeOK
    <3> QED  BY <1>10, <3>2, <3>5, OneMoves DEF Lookup, Kinds
  <2> QED  BY <2>1, <2>2
<1>11. CASE TouchSession(r)
  <2>1. req[r].kind \in Kinds /\ Kinds \subseteq PCs
    BY DEF TypeOK, Request, PCs
  <2> QED  BY <1>11, <2>1, GotoShape, OneMoves DEF TouchSession, Kinds
<1> QED
  BY <1>1, <1>2, <1>3, <1>4, <1>5, <1>6, <1>7, <1>8, <1>9, <1>10, <1>11 DEF Handler

\* email_request: handlers that count together pass an IP's limit together,
\* and never by more than there are handlers less one.
THEOREM SendsStayBounded == Spec => []IpSendsBounded
<1>1. Init => IpInv
  <2> SUFFICES ASSUME Init PROVE IpInv
    OBVIOUS
  <2>1. \A r \in Requests : ~Counted(r)
    BY DEF Init, Counted, Idle
  <2>2. \A i \in Ips : Sending(i) = {} /\ windows[i].sends = 0
    BY <2>1 DEF Sending, Init
  <2> QED  BY <2>1, <2>2, SendingIsFinite, FS_EmptySet, SignInAssumption DEF IpInv
<1>2. IInv /\ IpInv /\ [Next]_vars => IpInv'
  <2> SUFFICES ASSUME IInv, IpInv, [Next]_vars PROVE IpInv'
    OBVIOUS
  <2>1. TypeOK /\ ReqInv
    BY DEF IInv
  <2>2. CASE Tick \/ UNCHANGED vars
    <3>1. UNCHANGED <<req, windows>>
      BY <2>2 DEF Tick, vars, tables
    <3> QED  BY <3>1 DEF IpInv, Sending, Counted
  <2>3. ASSUME NEW r \in Requests, Handler(r) PROVE IpInv'
    BY <2>1, <2>3, CountSendsBounded, PutCodeBounded, RecordSendBounded, OthersBounded
  <2> QED  BY <2>2, <2>3 DEF Next
<1>3. IInv /\ IpInv => IpSendsBounded
  <2> SUFFICES ASSUME IInv, IpInv, NEW i \in Ips
               PROVE  windows[i].sends < SendsPerIp + Cardinality(Requests)
    BY DEF IpSendsBounded
  <2>1. windows[i].sends \in Nat
    BY DEF IInv, TypeOK
  <2> QED  BY <2>1, SendingIsFinite, SignInAssumption DEF IpInv
<1> QED  BY <1>1, <1>2, <1>3, SignInInvariantHolds, PTL DEF Spec

-----------------------------------------------------------------------------
(* The tables and their keys.                                              *)

ScheduleShape(s) == s = [id |-> s.id, account |-> s.account, client |-> s.client,
                         version |-> s.version, doc |-> s.doc, sections |-> s.sections]
ScheduleType(s) ==
  /\ ScheduleShape(s)
  /\ s.id \in 1 .. made /\ s.client \in 0 .. MaxMade
  /\ s.version \in 1 .. MaxVersion /\ s.doc.term \in HeldTerms /\ s.sections \subseteq HeldSections
  /\ s.account \in AccountIds

\* A claimed schedule has landed; a client id is claimed once in an account.
ScheduleInv ==
  /\ \A s \in schedules :
       /\ ScheduleType(s)
       /\ s.client # 0 => <<s.account, s.client>> \in landed
  /\ \A s, t \in schedules :
       /\ s.id = t.id => s = t
       /\ s.account = t.account /\ s.client = t.client /\ s.client # 0 => s = t

CollectionShape(c) == c = [id |-> c.id, account |-> c.account, client |-> c.client,
                           name |-> c.name, courses |-> c.courses]
CollectionType(c) ==
  /\ CollectionShape(c)
  /\ c.id \in 1 .. made /\ c.client \in {0, c.id} /\ c.courses \subseteq Courses
  /\ c.account \in AccountIds

\* A claimed collection has landed, under the id its request minted.
CollectionInv ==
  /\ \A c \in collections :
       /\ CollectionType(c)
       /\ c.client # 0 => <<c.account, 0>> \in landed
  /\ \A c, d \in collections :
       /\ c.id = d.id => c = d
       /\ c.account = d.account /\ c.name = d.name => c = d
-----------------------------------------------------------------------------
(* The browser's store, and what a claim has brought over.                 *)

Records == DOMAIN guest.schedules
ClientOf(i) == guest.schedules[i].client

GuestInv ==
  /\ guest \in [schedules : Seq(Lib!Guests), courses : SUBSET Courses, cleared : BOOLEAN]
  /\ \A i, j \in Records : ClientOf(i) = ClientOf(j) => i = j

SchedulesLanded(a) == \A i \in Records : Lib!Lands(i) => <<a, ClientOf(i)>> \in landed
AllLanded(a) == SchedulesLanded(a) /\ (Lib!CollectionLands => <<a, 0>> \in landed)
-----------------------------------------------------------------------------
(* The handlers.                                                           *)

\* What is staged comes from the records looked at, and of these only what has
\* landed already, or may not land, is not staged.
Staged(q) ==
  /\ IsFiniteSet(q.staged) /\ q.next \in Nat \ {0}
  /\ \A g \in q.staged : /\ g.client \in 1 .. MaxMade /\ g.doc.term \in HeldTerms
                         /\ \E i \in Records : i < q.next /\ g.client = ClientOf(i)
  /\ \A g, h \in q.staged : g.client = h.client => g = h
  /\ \A i \in Records : i < q.next /\ Lib!Lands(i) =>
       (\E g \in q.staged : g.client = ClientOf(i)) \/ <<q.account, ClientOf(i)>> \in landed

HasClient(q) == q # Free /\ q.pc \in {"schedules", "collections", "collection"}

HandlerInv(q) ==
  /\ q.pc \in {"save", "add", "drop", "schedules", "collections", "collection", "answer"}
  /\ q.pc = "save" => q.version \in 1 .. (MaxVersion - 1) /\ q.doc.term \in HeldTerms
  /\ q.pc \in {"add", "drop"} => q.course \in Courses
  /\ HasClient(q) => q.client \in 1 .. made /\ \A c \in collections : c.id # q.client
  /\ q.pc = "schedules" => Staged(q)
  /\ q.pc \in {"collections", "collection"} => SchedulesLanded(q.account)
  /\ q.pc = "answer" => AllLanded(q.account)

WorkInv ==
  /\ work = [w \in Workers |-> work[w]]
  /\ \A w \in Workers : work[w] # Free => HandlerInv(work[w])
  /\ \A w, v \in Workers : HasClient(work[w]) /\ HasClient(work[v]) /\ w # v =>
       work[w].client # work[v].client

ClaimInv ==
  /\ made \in 0 .. MaxMade
  /\ ScheduleInv /\ CollectionInv /\ GuestInv /\ WorkInv /\ Lib!ClaimIsComplete
-----------------------------------------------------------------------------
(* What a step leaves alone.                                               *)

SameRecords == guest'.schedules = guest.schedules /\ guest'.courses = guest.courses
Grows == /\ made \in 0 .. MaxMade /\ made' \in 0 .. MaxMade /\ made <= made'
         /\ landed \subseteq landed' /\ SameRecords

\* Schedules that nobody writes keep their invariant.
LEMMA SchedulesKept ==
  ASSUME AccountsAssumption, ScheduleInv, Grows, AccountIds' = AccountIds, schedules' = schedules
  PROVE  ScheduleInv'
<1>1. 1 .. made \subseteq 1 .. made'
  BY DEF Grows
<1>2. ASSUME NEW s \in schedules
      PROVE  ScheduleType(s)'
  <2>1. ScheduleType(s)
    BY DEF ScheduleInv
  <2>2. ScheduleShape(s)'
    BY <2>1 DEF ScheduleType, ScheduleShape
  <2>. QED
    BY <1>1, <2>1, <2>2 DEF ScheduleType
<1>. QED
  BY <1>2 DEF ScheduleInv, Grows

\* Collections that nobody writes keep theirs.
LEMMA CollectionsKept ==
  ASSUME AccountsAssumption, CollectionInv, Grows, AccountIds' = AccountIds,
         collections' = collections
  PROVE  CollectionInv'
<1>1. 1 .. made \subseteq 1 .. made'
  BY DEF Grows
<1>2. ASSUME NEW c \in collections
      PROVE  CollectionType(c)'
  <2>1. CollectionType(c)
    BY DEF CollectionInv
  <2>2. CollectionShape(c)'
    BY <2>1 DEF CollectionType, CollectionShape
  <2>. QED
    BY <1>1, <2>1, <2>2 DEF CollectionType
<1>. QED
  BY <1>2 DEF CollectionInv, Grows

\* What has landed stays landed.
LEMMA LandedKept ==
  ASSUME Grows, NEW a
  PROVE  /\ SchedulesLanded(a) => SchedulesLanded(a)'
         /\ AllLanded(a) => AllLanded(a)'
  BY DEF Grows, SameRecords, SchedulesLanded, AllLanded, Records, ClientOf, Lib!Lands, Lib!CollectionLands

\* A handler that does not move keeps its invariant.
LEMMA HandlerKept ==
  ASSUME AccountsAssumption, Grows, NEW q, HandlerInv(q),
         HasClient(q) => \A c \in collections' : c.id # q.client
  PROVE  HandlerInv(q)'
<1>1. Staged(q) => Staged(q)'
  BY DEF Staged, Grows, SameRecords, Records, ClientOf, Lib!Lands
<1>2. HasClient(q)' <=> HasClient(q)
  BY DEF HasClient
<1>3. HasClient(q) => q.client \in 1 .. made'
  BY AccountsAssumption DEF HandlerInv, Grows
<1>. QED
  BY <1>1, <1>2, <1>3, LandedKept DEF HandlerInv

\* One handler moves, or none.
LEMMA WorkStep ==
  ASSUME AccountsAssumption, WorkInv, Grows, NEW w \in Workers, NEW r,
         work' = [work EXCEPT ![w] = r],
         r # Free => HandlerInv(r)',
         HasClient(r) => \/ HasClient(work[w]) /\ r.client = work[w].client
                         \/ r.client > made,
         \A v \in Workers \ {w} : HasClient(work[v]) =>
           \A c \in collections' : c.id # work[v].client
  PROVE  WorkInv'
<1>1. /\ work' = [v \in Workers |-> work'[v]] /\ work'[w] = r
      /\ \A v \in Workers \ {w} : work'[v] = work[v]
  BY DEF WorkInv
<1>2. ASSUME NEW v \in Workers, work'[v] # Free
      PROVE  HandlerInv(work[v])'
  <2>1. CASE v = w
    BY <1>1, <1>2, <2>1
  <2>2. CASE v # w
    <3>1. PICK q : q = work[v]
      OBVIOUS
    <3>2. HandlerInv(q)' /\ work'[v] = q
      BY <1>1, <1>2, <2>2, <3>1, HandlerKept DEF WorkInv
    <3>. QED
      BY <3>2
  <2>. QED
    BY <2>1, <2>2
<1>3. ASSUME NEW v \in Workers, HasClient(work[v])
      PROVE  work[v].client \in 1 .. made
  BY <1>3 DEF WorkInv, HandlerInv, HasClient
<1>4. ASSUME NEW u \in Workers, NEW v \in Workers,
             HasClient(work'[u]), HasClient(work'[v]), u # v
      PROVE  work'[u].client # work'[v].client
  <2>1. CASE u # w /\ v # w
    BY <1>1, <1>4, <2>1 DEF WorkInv
  <2>2. CASE u = w /\ v # w
    <3>1. HasClient(r) /\ HasClient(work[v]) /\ work'[u] = r /\ work'[v] = work[v]
      BY <1>1, <1>4, <2>2
    <3>2. work[v].client \in 1 .. made
      BY <1>3, <3>1
    <3>. QED
      BY <2>2, <3>1, <3>2 DEF WorkInv, Grows
  <2>3. CASE v = w /\ u # w
    <3>1. HasClient(r) /\ HasClient(work[u]) /\ work'[v] = r /\ work'[u] = work[u]
      BY <1>1, <1>4, <2>3
    <3>2. work[u].client \in 1 .. made
      BY <1>3, <3>1
    <3>. QED
      BY <2>3, <3>1, <3>2 DEF WorkInv, Grows
  <2>. QED
    BY <1>4, <2>1, <2>2, <2>3
<1>5. \A q : HasClient(q)' <=> HasClient(q)
  BY DEF HasClient
<1>. QED
  BY <1>1, <1>2, <1>4, <1>5 DEF WorkInv, HasClient

\* No handler moves.
LEMMA WorkKept ==
  ASSUME AccountsAssumption, WorkInv, Grows, work' = work,
         \A v \in Workers : HasClient(work[v]) => \A c \in collections' : c.id # work[v].client
  PROVE  WorkInv'
<1>1. ASSUME NEW v \in Workers, work[v] # Free
      PROVE  HandlerInv(work[v])'
  <2>1. PICK q : q = work[v]
    OBVIOUS
  <2>2. HandlerInv(q)' /\ work'[v] = q
    BY <1>1, <2>1, HandlerKept DEF WorkInv
  <2>. QED
    BY <2>2
<1>. QED
  BY <1>1 DEF WorkInv, HasClient

\* The browser's store as it was, or cleared.
LEMMA GuestKept ==
  ASSUME AccountsAssumption, GuestInv, Grows, guest' = guest, Lib!ClaimIsComplete
  PROVE  GuestInv' /\ Lib!ClaimIsComplete'
<1>1. GuestInv'
  BY DEF GuestInv, Records, ClientOf
<1>2. Lib!Wanted' = Lib!Wanted
  BY DEF Lib!Wanted, Lib!Lands, Lib!CollectionLands
<1>. QED
  BY <1>1, <1>2 DEF Lib!ClaimIsComplete, Grows
-----------------------------------------------------------------------------
(* The requests of one statement, and the handlers that begin.             *)

\* A step that touches no table, lets nothing land and moves one handler.
LEMMA HandlerStep ==
  ASSUME AccountsAssumption, ClaimInv, AccountIds' = AccountIds,
         made' \in 0 .. MaxMade, made <= made',
         UNCHANGED <<schedules, collections, guest, landed>>,
         NEW w \in Workers, NEW r, work' = [work EXCEPT ![w] = r],
         r # Free => HandlerInv(r)',
         HasClient(r) => (HasClient(work[w]) /\ r.client = work[w].client) \/ r.client > made
  PROVE  ClaimInv'
<1>1. Grows
  BY DEF Grows, SameRecords, ClaimInv
<1>2. ScheduleInv' /\ CollectionInv'
  BY <1>1, SchedulesKept, CollectionsKept DEF ClaimInv
<1>3. GuestInv' /\ Lib!ClaimIsComplete'
  BY <1>1, GuestKept DEF ClaimInv
<1>4. \A v \in Workers \ {w} : HasClient(work[v]) =>
        \A c \in collections' : c.id # work[v].client
  BY DEF ClaimInv, WorkInv, HandlerInv, HasClient
<1>5. WorkInv'
  BY <1>1, <1>4, WorkStep DEF ClaimInv
<1>. QED
  BY <1>2, <1>3, <1>5 DEF ClaimInv

\* A step that touches the schedules only.
LEMMA SchedulesStep ==
  ASSUME AccountsAssumption, ClaimInv, AccountIds' = AccountIds,
         made' \in 0 .. MaxMade, made <= made', ScheduleInv',
         UNCHANGED <<collections, work, guest, landed>>
  PROVE  ClaimInv'
<1>1. Grows
  BY DEF Grows, SameRecords, ClaimInv
<1>2. CollectionInv'
  BY <1>1, CollectionsKept DEF ClaimInv
<1>3. GuestInv' /\ Lib!ClaimIsComplete'
  BY <1>1, GuestKept DEF ClaimInv
<1>4. \A v \in Workers : HasClient(work[v]) =>
        \A c \in collections' : c.id # work[v].client
  BY DEF ClaimInv, WorkInv, HandlerInv, HasClient
<1>5. WorkInv'
  BY <1>1, <1>4, WorkKept DEF ClaimInv
<1>. QED
  BY <1>2, <1>3, <1>5 DEF ClaimInv

\* A step that touches the collections only, and takes no id of a claim.
LEMMA CollectionsStep ==
  ASSUME AccountsAssumption, ClaimInv, AccountIds' = AccountIds,
         made' \in 0 .. MaxMade, made <= made', CollectionInv',
         \A c \in collections' : c.id > made \/ \E d \in collections : c.id = d.id,
         UNCHANGED <<schedules, work, guest, landed>>
  PROVE  ClaimInv'
<1>1. Grows
  BY DEF Grows, SameRecords, ClaimInv
<1>2. ScheduleInv'
  BY <1>1, SchedulesKept DEF ClaimInv
<1>3. GuestInv' /\ Lib!ClaimIsComplete'
  BY <1>1, GuestKept DEF ClaimInv
<1>4. ASSUME NEW v \in Workers, HasClient(work[v])
      PROVE  \A c \in collections' : c.id # work[v].client
  <2>1. work[v].client \in 1 .. made /\ \A c \in collections : c.id # work[v].client
    BY <1>4 DEF ClaimInv, WorkInv, HandlerInv, HasClient
  <2>. QED
    BY <2>1 DEF ClaimInv
<1>5. WorkInv'
  BY <1>1, <1>4, WorkKept DEF ClaimInv
<1>. QED
  BY <1>2, <1>3, <1>5 DEF ClaimInv

\* A new row has the next id.
LEMMA CreateScheduleStep ==
  ASSUME AccountsAssumption, ClaimInv, AccountIds' = AccountIds, NEW a, Lib!CreateSchedule(a)
  PROVE  ClaimInv'
<1>1. PICK doc \in Documents :
        /\ a \in AccountIds /\ made < MaxMade /\ doc.term \in HeldTerms /\ made' = made + 1
        /\ schedules' = schedules \cup {Lib!ScheduleRow(a, 0, doc, made + 1)}
        /\ UNCHANGED <<collections, work, guest, landed>>
  BY DEF Lib!CreateSchedule
<1>. DEFINE row == Lib!ScheduleRow(a, 0, doc, made + 1)
<1>2. /\ row = [id |-> made + 1, account |-> a, client |-> 0, version |-> 1, doc |-> doc,
                sections |-> Lib!SectionsOf(doc)]
      /\ Lib!SectionsOf(doc) \subseteq HeldSections
  BY DEF Lib!ScheduleRow, Lib!SectionsOf
<1>3. /\ row.id = made + 1 /\ row.account = a /\ row.client = 0 /\ row.version = 1
      /\ row.doc = doc /\ row.sections = Lib!SectionsOf(doc)
  BY <1>2
<1>. PICK x : x = row
  OBVIOUS
<1>4. /\ made' \in 0 .. MaxMade /\ made <= made' /\ made + 1 \in 1 .. made'
      /\ 1 .. made \subseteq 1 .. made'
  BY <1>1, AccountsAssumption DEF ClaimInv
<1>5. ScheduleType(x)'
  <2>1. ScheduleShape(x)
    BY <1>2, <1>3 DEF ScheduleShape
  <2>2. 1 \in 1 .. MaxVersion /\ 0 \in 0 .. MaxMade
    BY AccountsAssumption
  <2>. QED
    BY <1>1, <1>2, <1>3, <1>4, <2>1, <2>2 DEF ScheduleType, ScheduleShape
<1>6. \A s \in schedules : ScheduleType(s)' /\ s.id # made + 1
  <2>1. Grows
    BY <1>1, <1>4 DEF Grows, SameRecords, ClaimInv
  <2>. SUFFICES ASSUME NEW s \in schedules
                PROVE  ScheduleType(s)' /\ s.id # made + 1
    OBVIOUS
  <2>2. ScheduleType(s)
    BY DEF ClaimInv, ScheduleInv
  <2>. QED
    BY <1>4, <2>2 DEF ScheduleType, ScheduleShape, ClaimInv
<1>7. ScheduleInv'
  <2>1. schedules' = schedules \cup {x} /\ landed' = landed
    BY <1>1
  <2>. HIDE DEF row
  <2>. QED
    BY <1>3, <1>5, <1>6, <2>1 DEF ClaimInv, ScheduleInv
<1>. QED
  BY <1>1, <1>4, <1>7, SchedulesStep

\* A schedule is deleted.
LEMMA DeleteScheduleStep ==
  ASSUME AccountsAssumption, ClaimInv, AccountIds' = AccountIds, NEW a, Lib!DeleteSchedule(a)
  PROVE  ClaimInv'
<1>1. /\ schedules' \subseteq schedules /\ made' = made
      /\ UNCHANGED <<collections, work, guest, landed>>
  BY DEF Lib!DeleteSchedule
<1>2. \A s \in schedules : ScheduleType(s)'
  BY <1>1 DEF ClaimInv, ScheduleInv, ScheduleType, ScheduleShape
<1>3. ScheduleInv'
  BY <1>1, <1>2 DEF ClaimInv, ScheduleInv
<1>4. made' \in 0 .. MaxMade /\ made <= made'
  BY <1>1 DEF ClaimInv
<1>. QED
  BY <1>1, <1>3, <1>4, SchedulesStep

\* A save begins under a version the row has, or has had.
LEMMA SaveScheduleStep ==
  ASSUME AccountsAssumption, ClaimInv, AccountIds' = AccountIds,
         NEW w \in Workers, NEW a, Lib!SaveSchedule(w, a)
  PROVE  ClaimInv'
<1>1. PICK s \in schedules, doc \in Documents, v \in 1 .. MaxVersion :
        /\ doc.term \in HeldTerms /\ v <= s.version /\ s.version < MaxVersion /\ made' = made
        /\ work' = [work EXCEPT ![w] =
             [pc |-> "save", account |-> a, id |-> s.id, version |-> v, doc |-> doc]]
        /\ UNCHANGED <<schedules, collections, guest, landed>>
  BY DEF Lib!SaveSchedule, Lib!OfAccount
<1>2. v \in 1 .. (MaxVersion - 1)
  <2>1. s.version \in 1 .. MaxVersion
    BY DEF ClaimInv, ScheduleInv, ScheduleType
  <2>. QED
    BY <1>1, <2>1, AccountsAssumption
<1>. PICK r : r = [pc |-> "save", account |-> a, id |-> s.id, version |-> v, doc |-> doc]
  OBVIOUS
<1>3. r.pc = "save" /\ r.version = v /\ r.doc = doc
  OBVIOUS
<1>4. HandlerInv(r)' /\ ~ HasClient(r)
  BY <1>1, <1>2, <1>3 DEF HandlerInv, HasClient
<1>5. made' \in 0 .. MaxMade /\ made <= made'
  BY <1>1 DEF ClaimInv
<1>. QED
  BY <1>1, <1>4, <1>5, HandlerStep

\* add_course and remove_course begin.
LEMMA CourseRequestStep ==
  ASSUME AccountsAssumption, ClaimInv, AccountIds' = AccountIds,
         NEW w \in Workers, NEW a, Lib!CourseRequest(w, a)
  PROVE  ClaimInv'
<1>1. PICK c \in collections, course \in Courses, pc \in {"add", "drop"} :
        /\ made' = made
        /\ work' = [work EXCEPT ![w] = [pc |-> pc, account |-> a, id |-> c.id, course |-> course]]
        /\ UNCHANGED <<schedules, collections, guest, landed>>
  BY DEF Lib!CourseRequest, Lib!OfAccount
<1>. PICK r : r = [pc |-> pc, account |-> a, id |-> c.id, course |-> course]
  OBVIOUS
<1>2. r.pc = pc /\ r.course = course
  OBVIOUS
<1>3. HandlerInv(r)' /\ ~ HasClient(r)
  BY <1>2 DEF HandlerInv, HasClient
<1>4. made' \in 0 .. MaxMade /\ made <= made'
  BY <1>1 DEF ClaimInv
<1>. QED
  BY <1>1, <1>3, <1>4, HandlerStep

\* A claim begins: nothing is staged, and its collection's id is minted now.
LEMMA ClaimStep ==
  ASSUME AccountsAssumption, ClaimInv, AccountIds' = AccountIds,
         NEW w \in Workers, NEW a, Lib!Claim(w, a)
  PROVE  ClaimInv'
<1>1. /\ made < MaxMade /\ made' = made + 1
      /\ work' = [work EXCEPT ![w] = [pc |-> "schedules", account |-> a, next |-> 1,
                                      staged |-> {}, client |-> made + 1]]
      /\ UNCHANGED <<schedules, collections, guest, landed>>
  BY DEF Lib!Claim
<1>. PICK r : r = [pc |-> "schedules", account |-> a, next |-> 1, staged |-> {},
                   client |-> made + 1]
  OBVIOUS
<1>2. r.pc = "schedules" /\ r.next = 1 /\ r.staged = {} /\ r.client = made + 1
  OBVIOUS
<1>3. made \in Nat /\ made' \in 0 .. MaxMade /\ made + 1 \in 1 .. made' /\ made + 1 > made
  BY <1>1, AccountsAssumption DEF ClaimInv
<1>4. Staged(r)'
  <2>1. Records' \subseteq Nat \ {0}
    BY <1>1 DEF Records, ClaimInv, GuestInv
  <2>. QED
    BY <1>2, <2>1, FS_EmptySet DEF Staged
<1>5. \A c \in collections' : c.id # r.client
  <2>1. \A c \in collections : c.id \in 1 .. made
    BY DEF ClaimInv, CollectionInv, CollectionType
  <2>. QED
    BY <1>1, <1>2, <1>3, <2>1
<1>6. HandlerInv(r)'
  BY <1>1, <1>2, <1>3, <1>4, <1>5 DEF HandlerInv, HasClient
<1>7. made <= made' /\ r.client > made /\ work' = [work EXCEPT ![w] = r]
  BY <1>1, <1>2, <1>3
<1>. QED
  BY <1>1, <1>3, <1>6, <1>7, HandlerStep
-----------------------------------------------------------------------------
(* Collections.                                                            *)

\* A new collection has the next id and a name that is not taken.
LEMMA CreateCollectionStep ==
  ASSUME AccountsAssumption, ClaimInv, AccountIds' = AccountIds, NEW a, Lib!CreateCollection(a)
  PROVE  ClaimInv'
<1>1. PICK name \in Names :
        /\ a \in AccountIds /\ made < MaxMade /\ ~ Lib!Taken(a, name) /\ made' = made + 1
        /\ collections' = collections \cup
             {[id |-> made + 1, account |-> a, client |-> 0, name |-> name, courses |-> {}]}
        /\ UNCHANGED <<schedules, work, guest, landed>>
  BY DEF Lib!CreateCollection
<1>. PICK x : x = [id |-> made + 1, account |-> a, client |-> 0, name |-> name, courses |-> {}]
  OBVIOUS
<1>2. /\ x.id = made + 1 /\ x.account = a /\ x.client = 0 /\ x.name = name /\ x.courses = {}
      /\ CollectionShape(x)
  BY DEF CollectionShape
<1>3. /\ made' \in 0 .. MaxMade /\ made <= made' /\ made + 1 \in 1 .. made'
      /\ 1 .. made \subseteq 1 .. made' /\ made \in Nat
  BY <1>1, AccountsAssumption DEF ClaimInv
<1>4. CollectionType(x)'
  BY <1>1, <1>2, <1>3 DEF CollectionType, CollectionShape
<1>5. ASSUME NEW c \in collections
      PROVE  /\ CollectionType(c)' /\ c.id # made + 1
             /\ ~ (c.account = a /\ c.name = name)
  <2>1. CollectionType(c)
    BY DEF ClaimInv, CollectionInv
  <2>2. c.id # made + 1
    BY <1>3, <2>1 DEF CollectionType
  <2>3. ~ (c.account = a /\ c.name = name)
    BY <1>1 DEF Lib!Taken, Lib!OfAccount
  <2>. QED
    BY <1>3, <2>1, <2>2, <2>3 DEF CollectionType, CollectionShape
<1>6. CollectionInv'
  <2>1. collections' = collections \cup {x} /\ landed' = landed
    BY <1>1
  <2>2. \A c \in collections' : CollectionType(c)' /\ (c.client # 0 => <<c.account, 0>> \in landed')
    BY <1>2, <1>4, <1>5, <2>1 DEF ClaimInv, CollectionInv
  <2>3. \A c, d \in collections' :
          /\ c.id = d.id => c = d
          /\ c.account = d.account /\ c.name = d.name => c = d
    <3>1. \A c, d \in collections :
            /\ c.id = d.id => c = d
            /\ c.account = d.account /\ c.name = d.name => c = d
      BY DEF ClaimInv, CollectionInv
    <3>2. \A c \in collections : c.id # x.id /\ ~ (c.account = x.account /\ c.name = x.name)
      BY <1>2, <1>5
    <3>. SUFFICES ASSUME NEW c \in collections', NEW d \in collections'
                  PROVE  /\ c.id = d.id => c = d
                         /\ c.account = d.account /\ c.name = d.name => c = d
      OBVIOUS
    <3>3. (c \in collections \/ c = x) /\ (d \in collections \/ d = x)
      BY <2>1
    <3>. QED
      BY <3>1, <3>2, <3>3
  <2>. QED
    BY <2>2, <2>3 DEF CollectionInv
<1>7. \A c \in collections' : c.id > made \/ \E d \in collections : c.id = d.id
  BY <1>1, <1>2, <1>3
<1>. QED
  BY <1>1, <1>3, <1>6, <1>7, CollectionsStep

\* One row is replaced by one of its id, its account and its client.
LEMMA ReplaceCollection ==
  ASSUME AccountsAssumption, CollectionInv, AccountIds' = AccountIds, made' = made,
         landed' = landed, NEW c \in collections, NEW x,
         CollectionShape(x), x.id = c.id, x.account = c.account, x.client = c.client,
         x.courses \subseteq Courses,
         \A d \in collections \ {c} : ~ (d.account = x.account /\ d.name = x.name),
         collections' = (collections \ {c}) \cup {x}
  PROVE  /\ CollectionInv'
         /\ \A e \in collections' : \E d \in collections : e.id = d.id
<1>1. ASSUME NEW d \in collections
      PROVE  CollectionType(d)'
  <2>1. CollectionType(d)
    BY DEF CollectionInv
  <2>. QED
    BY <2>1 DEF CollectionType, CollectionShape
<1>2. CollectionType(x)'
  <2>1. CollectionType(c)
    BY DEF CollectionInv
  <2>. QED
    BY <2>1 DEF CollectionType, CollectionShape
<1>3. \A d \in collections' : CollectionType(d)' /\ (d.client # 0 => <<d.account, 0>> \in landed')
  BY <1>1, <1>2 DEF CollectionInv
<1>4. \A d \in collections \ {c} : d.id # x.id
  BY DEF CollectionInv
<1>5. \A e, d \in collections' :
        /\ e.id = d.id => e = d
        /\ e.account = d.account /\ e.name = d.name => e = d
  BY <1>4 DEF CollectionInv
<1>. QED
  BY <1>3, <1>5 DEF CollectionInv

\* A name that is not taken replaces one.
LEMMA RenameCollectionStep ==
  ASSUME AccountsAssumption, ClaimInv, AccountIds' = AccountIds, NEW a, Lib!RenameCollection(a)
  PROVE  ClaimInv'
<1>1. PICK c \in collections, name \in Names :
        /\ c.account = a /\ ~ Lib!Taken(a, name) /\ made' = made
        /\ collections' = (collections \ {c}) \cup {[c EXCEPT !.name = name]}
        /\ UNCHANGED <<schedules, work, guest, landed>>
  BY DEF Lib!RenameCollection, Lib!OfAccount
<1>2. CollectionType(c)
  BY DEF ClaimInv, CollectionInv
<1>. PICK x : x = [c EXCEPT !.name = name]
  OBVIOUS
<1>3. x = [id |-> c.id, account |-> c.account, client |-> c.client, name |-> name,
           courses |-> c.courses]
  BY <1>2 DEF CollectionType, CollectionShape
<1>4. /\ x.id = c.id /\ x.account = c.account /\ x.client = c.client /\ x.name = name
      /\ x.courses = c.courses /\ CollectionShape(x)
  BY <1>3 DEF CollectionShape
<1>5. \A d \in collections \ {c} : ~ (d.account = x.account /\ d.name = x.name)
  BY <1>1, <1>4 DEF Lib!Taken, Lib!OfAccount
<1>6. x.courses \subseteq Courses
  BY <1>2, <1>4 DEF CollectionType
<1>7. /\ CollectionInv'
      /\ \A e \in collections' : \E d \in collections : e.id = d.id
  BY <1>1, <1>4, <1>5, <1>6, ReplaceCollection DEF ClaimInv
<1>8. made' \in 0 .. MaxMade /\ made <= made'
  BY <1>1 DEF ClaimInv
<1>. QED
  BY <1>1, <1>7, <1>8, CollectionsStep

\* A collection is deleted, under a handler's hands perhaps.
LEMMA DeleteCollectionStep ==
  ASSUME AccountsAssumption, ClaimInv, AccountIds' = AccountIds, NEW a, Lib!DeleteCollection(a)
  PROVE  ClaimInv'
<1>1. /\ collections' \subseteq collections /\ made' = made
      /\ UNCHANGED <<schedules, work, guest, landed>>
  BY DEF Lib!DeleteCollection
<1>2. \A c \in collections : CollectionType(c)'
  BY <1>1 DEF ClaimInv, CollectionInv, CollectionType, CollectionShape
<1>3. CollectionInv'
  BY <1>1, <1>2 DEF ClaimInv, CollectionInv
<1>4. made' \in 0 .. MaxMade /\ made <= made'
  BY <1>1 DEF ClaimInv
<1>. QED
  BY <1>1, <1>3, <1>4, CollectionsStep

\* The insert or the delete of a course reaches the collection, or none.
LEMMA WriteCourseStep ==
  ASSUME AccountsAssumption, ClaimInv, AccountIds' = AccountIds,
         NEW w \in Workers, Lib!WriteCourse(w)
  PROVE  ClaimInv'
<1>. DEFINE q == work[w]
            target == Lib!Named(collections, q.account, q.id)
            Written(c) == [c EXCEPT !.courses = IF q.pc = "add" THEN c.courses \cup {q.course}
                                                ELSE c.courses \ {q.course}]
<1>1. /\ q # Free /\ q.pc \in {"add", "drop"} /\ made' = made
      /\ collections' = (collections \ target) \cup {Written(c) : c \in target}
      /\ work' = [work EXCEPT ![w] = Free]
      /\ UNCHANGED <<schedules, guest, landed>>
  BY DEF Lib!WriteCourse
<1>2. q.course \in Courses
  BY <1>1 DEF ClaimInv, WorkInv, HandlerInv
<1>3. target \subseteq collections /\ \A c \in target : c.account = q.account /\ c.id = q.id
  BY DEF Lib!Named
<1>5. Grows
  BY <1>1 DEF Grows, SameRecords, ClaimInv
<1>4. CollectionInv' /\ \A e \in collections' : \E d \in collections : e.id = d.id
  <2>1. CASE target = {}
    <3>1. collections' = collections
      BY <1>1, <2>1
    <3>2. CollectionInv'
      BY <1>5, <3>1, CollectionsKept DEF ClaimInv
    <3>. QED
      BY <3>1, <3>2
  <2>2. CASE target # {}
    <3>1. PICK c \in target : TRUE
      BY <2>2
    <3>2. target = {c} /\ c \in collections /\ CollectionType(c)
      BY <1>3, <3>1 DEF ClaimInv, CollectionInv
    <3>. PICK x : x = Written(c)
      OBVIOUS
    <3>3. collections' = (collections \ {c}) \cup {x}
      BY <1>1, <3>2
    <3>. PICK new : new = IF q.pc = "add" THEN c.courses \cup {q.course} ELSE c.courses \ {q.course}
      OBVIOUS
    <3>4. x = [id |-> c.id, account |-> c.account, client |-> c.client, name |-> c.name,
               courses |-> new]
      BY <3>2 DEF CollectionType, CollectionShape
    <3>. HIDE DEF q, target, Written
    <3>5. /\ x.id = c.id /\ x.account = c.account /\ x.client = c.client /\ x.name = c.name
          /\ x.courses = new /\ CollectionShape(x)
      BY <3>4 DEF CollectionShape
    <3>6. new \subseteq Courses
      BY <1>2, <3>2 DEF CollectionType
    <3>7. \A d \in collections \ {c} : ~ (d.account = x.account /\ d.name = x.name)
      BY <3>2, <3>5 DEF ClaimInv, CollectionInv
    <3>. QED
      BY <1>1, <3>2, <3>3, <3>5, <3>6, <3>7, ReplaceCollection DEF ClaimInv
  <2>. QED
    BY <2>1, <2>2
<1>. HIDE DEF q, target, Written
<1>6. ScheduleInv'
  BY <1>1, <1>5, SchedulesKept DEF ClaimInv
<1>7. GuestInv' /\ Lib!ClaimIsComplete'
  BY <1>1, <1>5, GuestKept DEF ClaimInv
<1>8. \A v \in Workers \ {w} : HasClient(work[v]) =>
        \A c \in collections' : c.id # work[v].client
  BY <1>4 DEF ClaimInv, WorkInv, HandlerInv, HasClient
<1>9. WorkInv'
  BY <1>1, <1>5, <1>8, WorkStep DEF ClaimInv, HasClient
<1>10. made' \in 0 .. MaxMade
  BY <1>1 DEF ClaimInv
<1>. QED
  BY <1>4, <1>6, <1>7, <1>9, <1>10 DEF ClaimInv
-----------------------------------------------------------------------------
(* A save, and the statements of a claim.                                  *)

\* One row is replaced by one of its id, its account and its client.
LEMMA ReplaceSchedule ==
  ASSUME ScheduleInv, AccountIds' = AccountIds, made' = made, landed' = landed,
         NEW c \in schedules, NEW x, ScheduleType(x),
         x.id = c.id, x.account = c.account, x.client = c.client,
         schedules' = (schedules \ {c}) \cup {x}
  PROVE  ScheduleInv'
<1>1. \A s : ScheduleType(s) => ScheduleType(s)'
  BY DEF ScheduleType, ScheduleShape
<1>2. \A s \in schedules' :
        ScheduleType(s)' /\ (s.client # 0 => <<s.account, s.client>> \in landed')
  BY <1>1 DEF ScheduleInv
<1>3. \A s, t \in schedules' :
        /\ s.id = t.id => s = t
        /\ s.account = t.account /\ s.client = t.client /\ s.client # 0 => s = t
  <2>. SUFFICES ASSUME NEW s \in schedules', NEW t \in schedules'
                PROVE  /\ s.id = t.id => s = t
                       /\ s.account = t.account /\ s.client = t.client /\ s.client # 0 => s = t
    OBVIOUS
  <2>1. /\ (s \in schedules /\ s # c) \/ s = x
        /\ (t \in schedules /\ t # c) \/ t = x
    OBVIOUS
  <2>2. \A u, v \in schedules :
          /\ u.id = v.id => u = v
          /\ u.account = v.account /\ u.client = v.client /\ u.client # 0 => u = v
    BY DEF ScheduleInv
  <2>. QED
    BY <2>1, <2>2
<1>. QED
  BY <1>2, <1>3 DEF ScheduleInv

\* What a save writes.
LEMMA SavedRow ==
  ASSUME NEW s, NEW doc
  PROVE  Lib!Saved(s, doc) = [id |-> s.id, account |-> s.account, client |-> s.client,
                              version |-> s.version + 1, doc |-> doc,
                              sections |-> Lib!SectionsOf(doc)]
  BY DEF Lib!Saved, Lib!ScheduleRow

\* The row a save finds, if any: the one of its id, still under its version.
LEMMA ReplaceFinds ==
  ASSUME ScheduleInv, NEW w \in Workers, Lib!Replace(w)
  PROVE  \/ schedules' = schedules
         \/ \E c \in schedules :
              /\ c.id = work[w].id /\ c.version = work[w].version
              /\ schedules' = (schedules \ {c}) \cup {Lib!Saved(c, work[w].doc)}
<1>. DEFINE q == work[w]
            current == {s \in Lib!Named(schedules, q.account, q.id) : s.version = q.version}
<1>1. schedules' = (schedules \ current) \cup {Lib!Saved(s, q.doc) : s \in current}
  BY DEF Lib!Replace
<1>2. current \subseteq schedules /\ \A c \in current : c.id = q.id /\ c.version = q.version
  BY DEF Lib!Named
<1>3. CASE current = {}
  BY <1>1, <1>3
<1>4. CASE current # {}
  <2>1. PICK c \in current : TRUE
    BY <1>4
  <2>2. current = {c}
    BY <1>2, <2>1 DEF ScheduleInv
  <2>. QED
    BY <1>1, <1>2, <2>2
<1>. QED
  BY <1>3, <1>4

\* The update of a save keeps the row's id, owner and client.
LEMMA ReplaceStep ==
  ASSUME AccountsAssumption, ClaimInv, AccountIds' = AccountIds, NEW w \in Workers, Lib!Replace(w)
  PROVE  ClaimInv'
<1>1. /\ work[w] # Free /\ work[w].pc = "save" /\ made' = made
      /\ work' = [work EXCEPT ![w] = Free]
      /\ UNCHANGED <<collections, guest, landed>>
  BY DEF Lib!Replace
<1>2. ScheduleInv'
  <2>1. CASE schedules' = schedules
    <3>1. Grows
      BY <1>1 DEF Grows, SameRecords, ClaimInv
    <3>. QED
      BY <2>1, <3>1, SchedulesKept DEF ClaimInv
  <2>2. ASSUME NEW c \in schedules, c.version = work[w].version,
               schedules' = (schedules \ {c}) \cup {Lib!Saved(c, work[w].doc)}
        PROVE  ScheduleInv'
    <3>. PICK doc, x : doc = work[w].doc /\ x = Lib!Saved(c, doc)
      OBVIOUS
    <3>1. x = [id |-> c.id, account |-> c.account, client |-> c.client, version |-> c.version + 1,
               doc |-> doc, sections |-> Lib!SectionsOf(doc)]
      BY SavedRow
    <3>2. /\ x.id = c.id /\ x.account = c.account /\ x.client = c.client
          /\ x.version = c.version + 1 /\ x.doc = doc /\ x.sections = Lib!SectionsOf(doc)
          /\ ScheduleShape(x)
      BY <3>1 DEF ScheduleShape
    <3>3. c.version \in 1 .. (MaxVersion - 1) /\ doc.term \in HeldTerms
      BY <1>1, <2>2 DEF ClaimInv, WorkInv, HandlerInv
    <3>4. x.version \in 1 .. MaxVersion
      BY <3>2, <3>3, AccountsAssumption
    <3>5. ScheduleType(c) /\ Lib!SectionsOf(doc) \subseteq HeldSections
      BY DEF ClaimInv, ScheduleInv, Lib!SectionsOf
    <3>6. ScheduleType(x)
      BY <3>2, <3>3, <3>4, <3>5 DEF ScheduleType
    <3>. QED
      BY <1>1, <2>2, <3>2, <3>6, ReplaceSchedule DEF ClaimInv
  <2>. QED
    BY <2>1, <2>2, ReplaceFinds DEF ClaimInv
<1>3. Grows
  BY <1>1 DEF Grows, SameRecords, ClaimInv
<1>4. CollectionInv' /\ GuestInv' /\ Lib!ClaimIsComplete'
  BY <1>1, <1>3, CollectionsKept, GuestKept DEF ClaimInv
<1>5. \A v \in Workers \ {w} : HasClient(work[v]) =>
        \A c \in collections' : c.id # work[v].client
  BY <1>1 DEF ClaimInv, WorkInv, HandlerInv, HasClient
<1>6. WorkInv'
  BY <1>1, <1>3, <1>5, WorkStep DEF ClaimInv, HasClient
<1>7. made' \in 0 .. MaxMade
  BY <1>1 DEF ClaimInv
<1>. QED
  BY <1>2, <1>4, <1>6, <1>7 DEF ClaimInv

\* A record is looked at: it may not land, it has landed, or it is staged.
LEMMA NameScheduleStep ==
  ASSUME AccountsAssumption, ClaimInv, AccountIds' = AccountIds,
         NEW w \in Workers, Lib!NameSchedule(w)
  PROVE  ClaimInv'
<1>. PICK q, n : q = work[w] /\ n = q.next
  OBVIOUS
<1>. PICK g : g = guest.schedules[n]
  OBVIOUS
<1>1. PICK name : /\ q # Free /\ q.pc = "schedules" /\ n <= Len(guest.schedules)
                  /\ made' = made /\ UNCHANGED <<schedules, collections, guest, landed>>
                  /\ work' = [work EXCEPT ![w] =
                       [pc |-> "schedules", account |-> q.account, next |-> n + 1,
                        client |-> q.client,
                        staged |-> IF \/ ~ Lib!Lands(n)
                                      \/ Lib!Claimed(schedules, q.account, g.client) # {}
                                   THEN q.staged ELSE q.staged \cup {Lib!Renamed(g, name)}]]
  BY DEF Lib!NameSchedule, Lib!Claiming
<1>2. HandlerInv(q) /\ HasClient(q) /\ Staged(q)
  BY <1>1 DEF ClaimInv, WorkInv, HandlerInv, HasClient
<1>. PICK x, st : /\ x = Lib!Renamed(g, name)
                  /\ st = IF ~ Lib!Lands(n) \/ Lib!Claimed(schedules, q.account, g.client) # {}
                          THEN q.staged ELSE q.staged \cup {x}
  OBVIOUS
<1>. PICK r : r = [pc |-> "schedules", account |-> q.account, next |-> n + 1, client |-> q.client,
                   staged |-> st]
  OBVIOUS
<1>3. /\ r.pc = "schedules" /\ r.account = q.account /\ r.next = n + 1 /\ r.client = q.client
      /\ r.staged = st /\ work' = [work EXCEPT ![w] = r]
  BY <1>1
<1>4. x.client = g.client /\ x.doc.term = g.doc.term
  BY DEF Lib!Renamed
<1>5. /\ n \in Records /\ Records \subseteq Nat \ {0} /\ g \in Lib!Guests
      /\ g.client = ClientOf(n) /\ n \in Nat \ {0}
  <2>1. guest.schedules \in Seq(Lib!Guests) /\ n \in Nat \ {0}
    BY <1>2 DEF ClaimInv, GuestInv, Staged
  <2>2. n \in Records /\ Records \subseteq Nat \ {0}
    BY <1>1, <2>1 DEF Records
  <2>. QED
    BY <2>1, <2>2 DEF Records, ClientOf
<1>6. g.client \in 1 .. MaxMade
  BY <1>5 DEF Lib!Guests, Lib!Ids
<1>7. Staged(r)
  <2>1. \A h \in q.staged : h.client # g.client
    <3>. SUFFICES ASSUME NEW h \in q.staged, h.client = g.client
                  PROVE  FALSE
      OBVIOUS
    <3>1. PICK i \in Records : i < n /\ h.client = ClientOf(i)
      BY <1>2 DEF Staged
    <3>2. i = n
      BY <1>5, <3>1 DEF ClaimInv, GuestInv
    <3>. QED
      BY <1>5, <3>1, <3>2
  <2>2. IsFiniteSet(st)
    BY <1>2, FS_AddElement DEF Staged
  <2>3. \A h \in q.staged : \E i \in Records : i < n + 1 /\ h.client = ClientOf(i)
    BY <1>2, <1>5 DEF Staged
  <2>4. x \in st => x \in q.staged \/ Lib!Lands(n)
    OBVIOUS
  <2>5. \A h \in st : /\ h.client \in 1 .. MaxMade /\ h.doc.term \in HeldTerms
                      /\ \E i \in Records : i < n + 1 /\ h.client = ClientOf(i)
    <3>. SUFFICES ASSUME NEW h \in st
                  PROVE  /\ h.client \in 1 .. MaxMade /\ h.doc.term \in HeldTerms
                         /\ \E i \in Records : i < n + 1 /\ h.client = ClientOf(i)
      OBVIOUS
    <3>1. CASE h \in q.staged
      BY <1>2, <2>3, <3>1 DEF Staged
    <3>2. CASE h = x /\ Lib!Lands(n)
      <4>1. g.doc.term \in HeldTerms
        BY <3>2 DEF Lib!Lands
      <4>2. n < n + 1
        BY <1>5
      <4>. QED
        <5>1. h.client = g.client /\ h.doc.term = g.doc.term
          BY <1>4, <3>2
        <5>. QED
          BY <1>5, <1>6, <4>1, <4>2, <5>1
    <3>. QED
      BY <2>4, <3>1, <3>2
  <2>6. \A h, k \in st : h.client = k.client => h = k
    <3>1. \A h, k \in q.staged : h.client = k.client => h = k
      BY <1>2 DEF Staged
    <3>2. \A h \in q.staged : h.client # x.client
      BY <1>4, <2>1
    <3>3. \A h \in st : h \in q.staged \/ h = x
      OBVIOUS
    <3>. QED
      BY <3>1, <3>2, <3>3
  <2>7. \A i \in Records : i < n + 1 /\ Lib!Lands(i) =>
          (\E h \in st : h.client = ClientOf(i)) \/ <<q.account, ClientOf(i)>> \in landed
    <3>. SUFFICES ASSUME NEW i \in Records, i < n + 1, Lib!Lands(i)
                  PROVE  \/ \E h \in st : h.client = ClientOf(i)
                         \/ <<q.account, ClientOf(i)>> \in landed
      OBVIOUS
    <3>1. i < n \/ i = n
      BY <1>5
    <3>2. CASE i < n
      BY <1>2, <3>2 DEF Staged
    <3>3. CASE i = n /\ Lib!Claimed(schedules, q.account, g.client) = {}
      BY <1>4, <1>5, <3>3
    <3>4. CASE i = n /\ Lib!Claimed(schedules, q.account, g.client) # {}
      <4>1. PICK s \in schedules : s.account = q.account /\ s.client = g.client
        BY <3>4 DEF Lib!Claimed
      <4>2. <<q.account, g.client>> \in landed
        BY <1>6, <4>1 DEF ClaimInv, ScheduleInv
      <4>. QED
        BY <1>5, <3>4, <4>2
    <3>. QED
      BY <3>1, <3>2, <3>3, <3>4
  <2>8. n + 1 \in Nat \ {0}
    BY <1>5
  <2>. QED
    <3>1. IsFiniteSet(r.staged) /\ r.next \in Nat \ {0}
      BY <1>3, <2>2, <2>8
    <3>2. \A h \in r.staged :
             /\ h.client \in 1 .. MaxMade /\ h.doc.term \in HeldTerms
             /\ \E i \in Records : i < r.next /\ h.client = ClientOf(i)
      BY <1>3, <2>5
    <3>3. \A h, k \in r.staged : h.client = k.client => h = k
      BY <1>3, <2>6
    <3>4. \A i \in Records : i < r.next /\ Lib!Lands(i) =>
            \/ \E h \in r.staged : h.client = ClientOf(i)
            \/ <<r.account, ClientOf(i)>> \in landed
      BY <1>3, <2>7
    <3>. QED
      BY <3>1, <3>2, <3>3, <3>4 DEF Staged
<1>8. HandlerInv(r)
  BY <1>2, <1>3, <1>7 DEF HandlerInv, HasClient
<1>9. HandlerInv(r)'
  <2>1. Grows
    BY <1>1 DEF Grows, SameRecords, ClaimInv
  <2>2. HasClient(r) => \A c \in collections' : c.id # r.client
    BY <1>1, <1>8 DEF HandlerInv
  <2>. QED
    BY <1>8, <2>1, <2>2, HandlerKept
<1>10. made' \in 0 .. MaxMade /\ made <= made'
  BY <1>1 DEF ClaimInv
<1>11. HasClient(work[w]) /\ r.client = work[w].client
  BY <1>2, <1>3
<1>12. work' = [work EXCEPT ![w] = r]
  BY <1>3
<1>13. UNCHANGED <<schedules, collections, guest, landed>>
  BY <1>1
<1>14. r # Free => HandlerInv(r)'
  BY <1>9
<1>. QED
  BY <1>10, <1>11, <1>12, <1>13, <1>14, HandlerStep
-----------------------------------------------------------------------------
(* The transaction of the schedules.                                       *)

\* The library counts as its lemmas do.
LEMMA SameCount == ASSUME NEW S PROVE Lib!Cardinality(S) = Cardinality(S)
  BY DEF Lib!Cardinality, Cardinality

\* The place of a staged record among the new ones, by its client.
Place(new, g) == Cardinality({h \in new : h.client <= g.client})

\* New records have places of their own, from 1 on, in the order of their clients.
LEMMA Places ==
  ASSUME NEW new, IsFiniteSet(new), \A h \in new : h.client \in Nat, NEW g \in new
  PROVE  /\ Place(new, g) \in 1 .. Cardinality(new)
         /\ \A h \in new : g.client < h.client => Place(new, g) < Place(new, h)
<1>. DEFINE Upto(x) == {h \in new : h.client <= x.client}
<1>1. \A x \in new : IsFiniteSet(Upto(x)) /\ Cardinality(Upto(x)) \in Nat
                     /\ Cardinality(Upto(x)) <= Cardinality(new)
  BY FS_Subset, FS_CardinalityType
<1>2. Cardinality(Upto(g)) # 0
  <2>1. g \in Upto(g)
    OBVIOUS
  <2>. QED
    BY <1>1, <2>1, FS_EmptySet
<1>3. ASSUME NEW h \in new, g.client < h.client
      PROVE  Cardinality(Upto(g)) < Cardinality(Upto(h))
  <2>1. Upto(g) \subseteq Upto(h)
    BY <1>3
  <2>2. h \in Upto(h) /\ h \notin Upto(g)
    BY <1>3
  <2>. HIDE DEF Upto
  <2>3. IsFiniteSet(Upto(h)) /\ Upto(g) # Upto(h)
    BY <1>1, <2>2
  <2>4. Cardinality(Upto(g)) <= Cardinality(Upto(h)) /\ Cardinality(Upto(g)) # Cardinality(Upto(h))
    BY <2>1, <2>3, FS_Subset
  <2>. QED
    BY <1>1, <2>4
<1>4. Cardinality(new) \in Nat
  BY FS_CardinalityType
<1>5. \A x \in new : Place(new, x) = Cardinality(Upto(x))
  BY DEF Place
<1>. HIDE DEF Upto
<1>. QED
  BY <1>1, <1>2, <1>3, <1>4, <1>5

\* The rows of an upsert: those it does not meet, those it meets and the new ones.
Unmet(a, staged, t) == t \in schedules /\ \A g \in staged : ~ (t.account = a /\ t.client = g.client)
Met(a, staged, t) == \E s \in schedules, g \in staged :
  s.account = a /\ s.client = g.client /\ t = Lib!Kept(s, g.doc)
NewOnes(a, staged) == {g \in staged : \A s \in schedules : ~ (s.account = a /\ s.client = g.client)}
Inserted(a, staged, t) == \E g \in NewOnes(a, staged) :
  t = Lib!ScheduleRow(a, g.client, g.doc, made + Place(NewOnes(a, staged), g))

\* An upsert leaves these rows and no other.
LEMMA UpsertRows ==
  ASSUME NEW q, NEW a, a = q.account, NEW staged
  PROVE  \A t : t \in Lib!Upsert(q, staged, made) <=>
                Unmet(a, staged, t) \/ Met(a, staged, t) \/ Inserted(a, staged, t)
<1>. DEFINE Old(g) == Lib!Claimed(schedules, q.account, g.client)
            new == {g \in staged : Old(g) = {}}
<1>1. new = NewOnes(a, staged)
  BY DEF NewOnes, Lib!Claimed
<1>2. \A t : t \in schedules \ (UNION {Old(g) : g \in staged}) <=> Unmet(a, staged, t)
  BY DEF Unmet, Lib!Claimed
<1>3. \A t : t \in UNION {{Lib!Kept(s, g.doc) : s \in Old(g)} : g \in staged} <=> Met(a, staged, t)
  BY DEF Met, Lib!Claimed
<1>. DEFINE P(g) == Lib!Cardinality({h \in new : h.client <= g.client})
<1>4. \A g : P(g) = Place(NewOnes(a, staged), g)
  BY <1>1, SameCount DEF Place
<1>5. Lib!Upsert(q, staged, made) =
        (schedules \ (UNION {Old(g) : g \in staged}))
        \cup (UNION {{Lib!Kept(s, g.doc) : s \in Old(g)} : g \in staged})
        \cup {Lib!ScheduleRow(q.account, g.client, g.doc, made + P(g)) : g \in new}
  BY DEF Lib!Upsert
<1>. HIDE DEF P, Old
<1>6. \A t : t \in {Lib!ScheduleRow(q.account, g.client, g.doc, made + P(g)) : g \in new}
             <=> Inserted(a, staged, t)
  <2>. HIDE DEF new
  <2>. QED
    BY <1>1, <1>4 DEF Inserted
<1>. HIDE DEF new
<1>. QED
  BY <1>2, <1>3, <1>5, <1>6

\* What a claim writes over a row that has come meanwhile.
LEMMA KeptRow ==
  ASSUME NEW s, ScheduleShape(s), NEW doc
  PROVE  Lib!Kept(s, doc) = [id |-> s.id, account |-> s.account, client |-> s.client,
                             version |-> s.version, doc |-> s.doc,
                             sections |-> Lib!SectionsOf(doc)]
  BY DEF ScheduleShape, Lib!Kept

\* An upsert keeps the keys, and every staged record has landed with it.
LEMMA UpsertKeeps ==
  ASSUME AccountsAssumption, ScheduleInv, AccountIds' = AccountIds, made \in 0 .. MaxMade,
         NEW q, NEW a, a = q.account, NEW staged, IsFiniteSet(staged),
         staged # {} => a \in AccountIds,
         \A g \in staged : g.client \in 1 .. MaxMade /\ g.doc.term \in HeldTerms,
         \A g, h \in staged : g.client = h.client => g = h,
         made' = made + Cardinality(staged), made' <= MaxMade,
         schedules' = Lib!Upsert(q, staged, made),
         landed \subseteq landed',
         \A t \in schedules' : t.account = a /\ t.client # 0 => <<a, t.client>> \in landed'
  PROVE  /\ ScheduleInv'
         /\ \A g \in staged : <<a, g.client>> \in landed'
<1>. PICK new : new = NewOnes(a, staged)
  OBVIOUS
<1>1. \A t : t \in schedules' <=> Unmet(a, staged, t) \/ Met(a, staged, t) \/ Inserted(a, staged, t)
  BY UpsertRows
<1>2. /\ new \subseteq staged /\ IsFiniteSet(new)
      /\ \A h \in new : h.client \in Nat /\ h.client \in 1 .. MaxMade /\ h.doc.term \in HeldTerms
      /\ Cardinality(new) \in Nat /\ Cardinality(new) <= Cardinality(staged)
      /\ Cardinality(staged) \in Nat
  <2>1. new \subseteq staged
    BY DEF NewOnes
  <2>. QED
    BY <2>1, AccountsAssumption, FS_Subset, FS_CardinalityType
<1>3. \A g \in new : made + Place(new, g) \in (made + 1) .. made'
  BY <1>2, Places
<1>4. \A g, h \in new : Place(new, g) = Place(new, h) => g = h
  <2>. SUFFICES ASSUME NEW g \in new, NEW h \in new, Place(new, g) = Place(new, h), g # h
                PROVE  FALSE
    OBVIOUS
  <2>1. g.client < h.client \/ h.client < g.client
    BY <1>2
  <2>2. Place(new, g) \in Nat /\ Place(new, h) \in Nat
    BY <1>2, Places
  <2>3. CASE g.client < h.client
    BY <1>2, <2>2, <2>3, Places
  <2>4. CASE h.client < g.client
    BY <1>2, <2>2, <2>4, Places
  <2>. QED
    BY <2>1, <2>3, <2>4
<1>5. \A s \in schedules : ScheduleType(s) /\ s.id \in 1 .. made
  BY DEF ScheduleInv, ScheduleType
<1>6. ASSUME NEW s \in schedules, NEW g, NEW t, t = Lib!Kept(s, g.doc)
      PROVE  /\ t.id = s.id /\ t.account = s.account /\ t.client = s.client
             /\ t.version = s.version /\ t.doc = s.doc /\ t.sections = Lib!SectionsOf(g.doc)
             /\ ScheduleShape(t)
  <2>. PICK doc : doc = g.doc
    OBVIOUS
  <2>1. t = [id |-> s.id, account |-> s.account, client |-> s.client, version |-> s.version,
             doc |-> s.doc, sections |-> Lib!SectionsOf(doc)]
    BY <1>5, <1>6, KeptRow DEF ScheduleType
  <2>. QED
    BY <2>1 DEF ScheduleShape
<1>7. ASSUME NEW c, NEW d, NEW n, NEW t, t = Lib!ScheduleRow(a, c, d, n)
      PROVE  /\ t.id = n /\ t.account = a /\ t.client = c
             /\ t.version = 1 /\ t.doc = d /\ t.sections = Lib!SectionsOf(d)
             /\ ScheduleShape(t)
  <2>1. t = [id |-> n, account |-> a, client |-> c, version |-> 1, doc |-> d,
             sections |-> Lib!SectionsOf(d)]
    BY <1>7 DEF Lib!ScheduleRow
  <2>. QED
    BY <2>1 DEF ScheduleShape
<1>11. ASSUME NEW t, Inserted(a, staged, t)
       PROVE  \E g \in new : /\ t = Lib!ScheduleRow(a, g.client, g.doc, made + Place(new, g))
                              /\ t.id = made + Place(new, g) /\ t.account = a /\ t.client = g.client
  <2>1. PICK g \in new : t = Lib!ScheduleRow(a, g.client, g.doc, made + Place(new, g))
    BY <1>11 DEF Inserted
  <2>. PICK c, d, n : c = g.client /\ d = g.doc /\ n = made + Place(new, g)
    OBVIOUS
  <2>2. t.id = n /\ t.account = a /\ t.client = g.client
    BY <1>7, <2>1
  <2>. QED
    BY <2>1, <2>2
<1>8. ASSUME NEW t \in schedules'
      PROVE  ScheduleType(t)' /\ (t.client # 0 => <<t.account, t.client>> \in landed')
  <2>. PICK rowsNow : rowsNow = schedules'
    OBVIOUS
  <2>1. 1 .. made \subseteq 1 .. made'
    BY <1>2
  <2>2. \A doc : Lib!SectionsOf(doc) \subseteq HeldSections
    BY DEF Lib!SectionsOf
  <2>3. /\ ScheduleShape(t) /\ t.id \in 1 .. made' /\ t.client \in 0 .. MaxMade
        /\ t.version \in 1 .. MaxVersion /\ t.doc.term \in HeldTerms
        /\ t.sections \subseteq HeldSections /\ t.account \in AccountIds
    <3>1. CASE Unmet(a, staged, t)
      BY <1>5, <2>1, <3>1 DEF Unmet, ScheduleType
    <3>2. CASE Met(a, staged, t)
      <4>1. PICK s \in schedules, g \in staged : t = Lib!Kept(s, g.doc)
        BY <3>2 DEF Met
      <4>2. /\ t.id = s.id /\ t.account = s.account /\ t.client = s.client
            /\ t.version = s.version /\ t.doc = s.doc /\ t.sections = Lib!SectionsOf(g.doc)
            /\ ScheduleShape(t)
        BY <1>6, <4>1
      <4>. QED
        BY <1>5, <2>1, <2>2, <4>2 DEF ScheduleType
    <3>3. CASE Inserted(a, staged, t)
      <4>1. PICK g \in new : t = Lib!ScheduleRow(a, g.client, g.doc, made + Place(new, g))
        BY <3>3 DEF Inserted
      <4>. PICK c, d, n : c = g.client /\ d = g.doc /\ n = made + Place(new, g)
        OBVIOUS
      <4>2. /\ t.id = n /\ t.account = a /\ t.client = g.client
            /\ t.version = 1 /\ t.doc = g.doc /\ t.sections = Lib!SectionsOf(g.doc)
            /\ ScheduleShape(t)
        BY <1>7, <4>1
      <4>3. t.id \in 1 .. made'
        BY <1>3, <4>2
      <4>4. t.client \in 0 .. MaxMade /\ t.doc.term \in HeldTerms /\ a \in AccountIds
        BY <1>2, <4>2
      <4>. QED
        BY <2>2, <4>2, <4>3, <4>4, AccountsAssumption
    <3>. QED
      BY <1>1, <3>1, <3>2, <3>3
  <2>4. t.client # 0 => <<t.account, t.client>> \in landed'
    <3>1. CASE t.account = a
      BY <3>1
    <3>2. CASE t.account # a
      <4>1. ~ Inserted(a, staged, t)
        BY <3>2, <1>11
      <4>2. ~ Met(a, staged, t)
        BY <1>6, <3>2 DEF Met
      <4>3. t \in schedules
        BY <1>1, <4>1, <4>2 DEF Unmet
      <4>. QED
        BY <4>3 DEF ScheduleInv
    <3>. QED
      BY <3>1, <3>2
  <2>. QED
    BY <2>3, <2>4 DEF ScheduleType, ScheduleShape
<1>9. ASSUME NEW t \in schedules', NEW u \in schedules'
      PROVE  /\ t.id = u.id => t = u
             /\ t.account = u.account /\ t.client = u.client /\ t.client # 0 => t = u
  <2>. DEFINE Alike(x, y) == /\ x.id = y.id => x = y
                             /\ x.account = y.account /\ x.client = y.client /\ x.client # 0 => x = y
  <2>1. \A s, r \in schedules : Alike(s, r)
    BY DEF ScheduleInv
  <2>2. \A x : Met(a, staged, x) =>
          \E s \in schedules, g \in staged :
            /\ s.account = a /\ s.client = g.client /\ x = Lib!Kept(s, g.doc)
            /\ x.id = s.id /\ x.account = a /\ x.client = g.client
    BY <1>6 DEF Met
  <2>3. \A x : Inserted(a, staged, x) =>
          \E g \in new : /\ x = Lib!ScheduleRow(a, g.client, g.doc, made + Place(new, g))
                         /\ x.id = made + Place(new, g) /\ x.account = a /\ x.client = g.client
    BY <1>11
  <2>4. \A g \in new : /\ g \in staged
                       /\ \A s \in schedules : ~ (s.account = a /\ s.client = g.client)
    BY DEF NewOnes
  <2>5. \A g \in new, s \in schedules : made + Place(new, g) # s.id
    BY <1>3, <1>5
  <2>6. \A x, y : Unmet(a, staged, x) /\ Unmet(a, staged, y) => Alike(x, y)
    BY <2>1 DEF Unmet
  <2>7. \A x, y : Unmet(a, staged, x) /\ Met(a, staged, y) => Alike(x, y) /\ Alike(y, x)
    <3>. SUFFICES ASSUME NEW x, NEW y, Unmet(a, staged, x), Met(a, staged, y)
                  PROVE  x.id # y.id /\ ~ (x.account = y.account /\ x.client = y.client)
      OBVIOUS
    <3>1. PICK s \in schedules, g \in staged :
            /\ s.account = a /\ s.client = g.client
            /\ y.id = s.id /\ y.account = a /\ y.client = g.client
      BY <2>2
    <3>2. x \in schedules /\ x # s /\ ~ (x.account = a /\ x.client = g.client)
      BY <3>1 DEF Unmet
    <3>. QED
      BY <2>1, <3>1, <3>2
  <2>8. \A x, y : Unmet(a, staged, x) /\ Inserted(a, staged, y) => Alike(x, y) /\ Alike(y, x)
    <3>. SUFFICES ASSUME NEW x, NEW y, Unmet(a, staged, x), Inserted(a, staged, y)
                  PROVE  x.id # y.id /\ ~ (x.account = y.account /\ x.client = y.client)
      OBVIOUS
    <3>1. PICK g \in new : y.id = made + Place(new, g) /\ y.account = a /\ y.client = g.client
      BY <2>3
    <3>2. x \in schedules
      BY DEF Unmet
    <3>. QED
      BY <2>4, <2>5, <3>1, <3>2
  <2>9. \A x, y : Met(a, staged, x) /\ Met(a, staged, y) => Alike(x, y)
    <3>. SUFFICES ASSUME NEW x, NEW y, Met(a, staged, x), Met(a, staged, y),
                         x.id = y.id \/ x.client = y.client
                  PROVE  x = y
      OBVIOUS
    <3>1. PICK s \in schedules, g \in staged :
            /\ s.account = a /\ s.client = g.client /\ x = Lib!Kept(s, g.doc)
            /\ x.id = s.id /\ x.account = a /\ x.client = g.client
      BY <2>2
    <3>2. PICK r \in schedules, h \in staged :
            /\ r.account = a /\ r.client = h.client /\ y = Lib!Kept(r, h.doc)
            /\ y.id = r.id /\ y.account = a /\ y.client = h.client
      BY <2>2
    <3>3. g.client # 0
      BY AccountsAssumption
    <3>4. s = r
      BY <2>1, <3>1, <3>2, <3>3
    <3>5. g = h
      BY <3>1, <3>2, <3>4
    <3>. QED
      BY <3>1, <3>2, <3>4, <3>5
  <2>10. \A x, y : Met(a, staged, x) /\ Inserted(a, staged, y) => Alike(x, y) /\ Alike(y, x)
    <3>. SUFFICES ASSUME NEW x, NEW y, Met(a, staged, x), Inserted(a, staged, y)
                  PROVE  x.id # y.id /\ ~ (x.account = y.account /\ x.client = y.client)
      OBVIOUS
    <3>1. PICK s \in schedules, g \in staged :
            /\ s.account = a /\ s.client = g.client
            /\ x.id = s.id /\ x.account = a /\ x.client = g.client
      BY <2>2
    <3>2. PICK h \in new : y.id = made + Place(new, h) /\ y.account = a /\ y.client = h.client
      BY <2>3
    <3>. QED
      BY <2>4, <2>5, <3>1, <3>2
  <2>11. \A x, y : Inserted(a, staged, x) /\ Inserted(a, staged, y) => Alike(x, y)
    <3>. SUFFICES ASSUME NEW x, NEW y, Inserted(a, staged, x), Inserted(a, staged, y),
                         x.id = y.id \/ x.client = y.client
                  PROVE  x = y
      OBVIOUS
    <3>1. PICK g \in new : /\ x = Lib!ScheduleRow(a, g.client, g.doc, made + Place(new, g))
                           /\ x.id = made + Place(new, g) /\ x.client = g.client
      BY <2>3
    <3>2. PICK h \in new : /\ y = Lib!ScheduleRow(a, h.client, h.doc, made + Place(new, h))
                           /\ y.id = made + Place(new, h) /\ y.client = h.client
      BY <2>3
    <3>3. g = h
      <4>1. CASE x.id = y.id
        <5>1. Place(new, g) \in Nat /\ Place(new, h) \in Nat
          BY <1>2, Places
        <5>. QED
          BY <1>4, <3>1, <3>2, <4>1, <5>1
      <4>2. CASE x.client = y.client
        BY <2>4, <3>1, <3>2, <4>2
      <4>. QED
        BY <4>1, <4>2
    <3>. QED
      BY <3>1, <3>2, <3>3
  <2>. HIDE DEF Alike
  <2>12. Alike(t, u)
    BY <1>1, <2>6, <2>7, <2>8, <2>9, <2>10, <2>11
  <2>. QED
    BY <2>12 DEF Alike
<1>10. ASSUME NEW g \in staged
       PROVE  <<a, g.client>> \in landed'
  <2>1. g.client # 0
    BY AccountsAssumption
  <2>2. \E t \in schedules' : t.account = a /\ t.client = g.client
    <3>1. CASE g \in new
      <4>1. PICK t : t = Lib!ScheduleRow(a, g.client, g.doc, made + Place(new, g))
        OBVIOUS
      <4>2. Inserted(a, staged, t)
        BY <3>1, <4>1 DEF Inserted
      <4>. PICK c, d, n : c = g.client /\ d = g.doc /\ n = made + Place(new, g)
        OBVIOUS
      <4>3. t.account = a /\ t.client = g.client
        BY <1>7, <4>1
      <4>. QED
        BY <1>1, <4>2, <4>3
    <3>2. CASE g \notin new
      <4>1. PICK s \in schedules : s.account = a /\ s.client = g.client
        BY <3>2 DEF NewOnes
      <4>2. PICK t : t = Lib!Kept(s, g.doc)
        OBVIOUS
      <4>3. Met(a, staged, t)
        BY <4>1, <4>2 DEF Met
      <4>. QED
        BY <1>1, <1>6, <4>1, <4>2, <4>3
    <3>. QED
      BY <3>1, <3>2
  <2>. QED
    BY <2>1, <2>2
<1>. QED
  BY <1>8, <1>9, <1>10 DEF ScheduleInv

\* The schedules of a claim commit: all that lands of them has landed.
LEMMA CommitSchedulesStep ==
  ASSUME AccountsAssumption, ClaimInv, AccountIds' = AccountIds,
         NEW w \in Workers, Lib!CommitSchedules(w)
  PROVE  ClaimInv'
<1>. PICK q, a, c, staged :
       q = work[w] /\ a = q.account /\ c = q.client /\ staged = q.staged
  OBVIOUS
<1>. PICK r : r = [pc |-> "collections", account |-> a, client |-> c]
  OBVIOUS
<1>1. /\ q # Free /\ q.pc = "schedules" /\ q.next > Len(guest.schedules)
      /\ staged # {} => a \in AccountIds
      /\ made + Cardinality(staged) <= MaxMade /\ made' = made + Cardinality(staged)
      /\ schedules' = Lib!Upsert(q, staged, made)
      /\ landed' = landed \cup {<<a, s.client>> :
                     s \in {t \in Lib!OfAccount(schedules', a) : t.client # 0}}
      /\ work' = [work EXCEPT ![w] = r] /\ UNCHANGED <<collections, guest>>
  BY SameCount DEF Lib!CommitSchedules, Lib!Claiming
<1>2. HandlerInv(q) /\ HasClient(q) /\ Staged(q)
  BY <1>1 DEF ClaimInv, WorkInv, HandlerInv, HasClient
<1>3. /\ IsFiniteSet(staged)
      /\ \A g \in staged : g.client \in 1 .. MaxMade /\ g.doc.term \in HeldTerms
      /\ \A g, h \in staged : g.client = h.client => g = h
      /\ Cardinality(staged) \in Nat /\ made \in 0 .. MaxMade
  BY <1>2, FS_CardinalityType DEF Staged, ClaimInv
<1>4. ScheduleInv' /\ \A g \in staged : <<a, g.client>> \in landed'
  <2>1. made' <= MaxMade /\ a = q.account
    BY <1>1
  <2>2. /\ landed \subseteq landed'
        /\ \A t \in schedules' : t.account = a /\ t.client # 0 => <<a, t.client>> \in landed'
    BY <1>1 DEF Lib!OfAccount
  <2>3. ScheduleInv
    BY DEF ClaimInv
  <2>. QED
    BY <1>1, <1>3, <2>1, <2>2, <2>3, UpsertKeeps
<1>5. Grows
  BY <1>1, <1>3, AccountsAssumption DEF Grows, SameRecords
<1>6. CollectionInv' /\ GuestInv' /\ Lib!ClaimIsComplete'
  BY <1>1, <1>5, CollectionsKept, GuestKept DEF ClaimInv
<1>7. SchedulesLanded(a)'
  <2>1. ASSUME NEW i \in Records, Lib!Lands(i)
        PROVE  <<a, ClientOf(i)>> \in landed'
    <3>1. i < q.next
      <4>1. guest.schedules \in Seq(Lib!Guests) /\ q.next \in Nat \ {0}
        BY <1>2 DEF ClaimInv, GuestInv, Staged
      <4>2. i \in 1 .. Len(guest.schedules) /\ Len(guest.schedules) \in Nat
        BY <4>1 DEF Records
      <4>. QED
        BY <1>1, <4>1, <4>2
    <3>2. (\E g \in staged : g.client = ClientOf(i)) \/ <<a, ClientOf(i)>> \in landed
      BY <1>2, <2>1, <3>1 DEF Staged
    <3>. QED
      BY <1>1, <1>4, <3>2
  <2>. QED
    BY <1>1, <2>1 DEF SchedulesLanded, Records, ClientOf, Lib!Lands
<1>8. /\ r.pc = "collections" /\ r.account = a /\ r.client = c /\ HasClient(q)
      /\ r.client = q.client
      /\ q.client \in 1 .. made /\ \A d \in collections : d.id # q.client
  BY <1>2 DEF HandlerInv
<1>9. HandlerInv(r)'
  BY <1>1, <1>3, <1>7, <1>8 DEF HandlerInv
<1>10. \A v \in Workers \ {w} : HasClient(work[v]) =>
         \A d \in collections' : d.id # work[v].client
  BY <1>1 DEF ClaimInv, WorkInv, HandlerInv, HasClient
<1>11. work' = [work EXCEPT ![w] = r]
  BY <1>1
<1>12. WorkInv'
  BY <1>5, <1>8, <1>9, <1>10, <1>11, WorkStep DEF ClaimInv
<1>13. made' \in 0 .. MaxMade
  BY <1>5 DEF Grows
<1>. QED
  BY <1>4, <1>6, <1>12, <1>13 DEF ClaimInv
-----------------------------------------------------------------------------
(* The transaction of the collection, and the answer.                      *)

\* The collection is not wanted, or gets a name.
LEMMA NameCollectionStep ==
  ASSUME AccountsAssumption, ClaimInv, AccountIds' = AccountIds,
         NEW w \in Workers, Lib!NameCollection(w)
  PROVE  ClaimInv'
<1>. PICK q, a, c : q = work[w] /\ a = q.account /\ c = q.client
  OBVIOUS
<1>1. PICK name :
        /\ q # Free /\ q.pc = "collections"
        /\ work' = [work EXCEPT ![w] =
             IF ~ Lib!CollectionLands \/ Lib!Claimed(collections, a, c) # {}
             THEN [pc |-> "answer", account |-> a]
             ELSE [pc |-> "collection", account |-> a, client |-> c, name |-> name]]
        /\ UNCHANGED <<schedules, collections, made, guest, landed>>
  BY DEF Lib!NameCollection, Lib!Claiming
<1>2. HandlerInv(q) /\ HasClient(q) /\ SchedulesLanded(a)
  BY <1>1 DEF ClaimInv, WorkInv, HandlerInv, HasClient
<1>3. c \in 1 .. made /\ \A d \in collections : d.id # c
  BY <1>2 DEF HandlerInv
<1>4. /\ SchedulesLanded(a)' /\ (AllLanded(a) => AllLanded(a)')
      /\ made' = made /\ made' \in 0 .. MaxMade /\ made <= made' /\ collections' = collections
  <2>1. Grows
    BY <1>1 DEF Grows, SameRecords, ClaimInv
  <2>2. SchedulesLanded(a)' /\ (AllLanded(a) => AllLanded(a)')
    BY <1>2, <2>1, LandedKept
  <2>. QED
    BY <1>1, <2>2 DEF ClaimInv
<1>5. CASE ~ Lib!CollectionLands \/ Lib!Claimed(collections, a, c) # {}
  <2>. PICK r : r = [pc |-> "answer", account |-> a]
    OBVIOUS
  <2>1. Lib!Claimed(collections, a, c) = {}
    <3>1. \A d \in collections : d.client \in {0, d.id}
      BY DEF ClaimInv, CollectionInv, CollectionType
    <3>2. c # 0
      BY <1>3
    <3>. QED
      BY <1>3, <3>1, <3>2 DEF Lib!Claimed
  <2>2. AllLanded(a)
    BY <1>2, <1>5, <2>1 DEF AllLanded
  <2>3. r.pc = "answer" /\ r.account = a /\ ~ HasClient(r)
    BY DEF HasClient
  <2>4. HandlerInv(r)'
    BY <1>4, <2>2, <2>3 DEF HandlerInv, HasClient
  <2>5. work' = [work EXCEPT ![w] = r] /\ UNCHANGED <<schedules, collections, guest, landed>>
    BY <1>1, <1>5
  <2>. QED
    BY <1>4, <2>3, <2>4, <2>5, HandlerStep
<1>6. CASE ~ (~ Lib!CollectionLands \/ Lib!Claimed(collections, a, c) # {})
  <2>. PICK r : r = [pc |-> "collection", account |-> a, client |-> c, name |-> name]
    OBVIOUS
  <2>1. r.pc = "collection" /\ r.account = a /\ r.client = c
    OBVIOUS
  <2>2. HandlerInv(r)'
    BY <1>3, <1>4, <2>1 DEF HandlerInv
  <2>3. work' = [work EXCEPT ![w] = r] /\ UNCHANGED <<schedules, collections, guest, landed>>
    BY <1>1, <1>6
  <2>4. HasClient(work[w]) /\ r.client = work[w].client
    BY <1>2, <2>1
  <2>. QED
    BY <1>4, <2>2, <2>3, <2>4, HandlerStep
<1>. QED
  BY <1>5, <1>6

\* The collection lands under its client id, or the claim fails.
LEMMA CommitCollectionsStep ==
  ASSUME AccountsAssumption, ClaimInv, AccountIds' = AccountIds,
         NEW w \in Workers, Lib!CommitCollections(w)
  PROVE  ClaimInv'
<1>. PICK q, a, c : q = work[w] /\ a = q.account /\ c = q.client
  OBVIOUS
<1>. PICK name : name = q.name
  OBVIOUS
<1>1. /\ q # Free /\ q.pc = "collection" /\ UNCHANGED <<schedules, made, guest>>
  BY DEF Lib!CommitCollections, Lib!Claiming
<1>2. HandlerInv(q) /\ HasClient(q) /\ SchedulesLanded(a)
  BY <1>1 DEF ClaimInv, WorkInv, HandlerInv, HasClient
<1>3. c \in 1 .. made /\ \A d \in collections : d.id # c
  BY <1>2 DEF HandlerInv
<1>4. made' = made /\ made' \in 0 .. MaxMade /\ made <= made'
  BY <1>1 DEF ClaimInv
<1>5. CASE a \notin AccountIds \/ Lib!Taken(a, name)
  <2>1. work' = [work EXCEPT ![w] = Free] /\ UNCHANGED <<schedules, collections, guest, landed>>
    BY <1>5 DEF Lib!CommitCollections, Lib!Failed
  <2>2. ~ HasClient(Free)
    BY DEF HasClient
  <2>. QED
    BY <1>4, <2>1, <2>2, HandlerStep
<1>6. CASE a \in AccountIds /\ ~ Lib!Taken(a, name)
  <2>. PICK row : row = [id |-> c, account |-> a, client |-> c, name |-> name,
                         courses |-> guest.courses]
    OBVIOUS
  <2>. PICK r : r = [pc |-> "answer", account |-> a]
    OBVIOUS
  <2>1. /\ collections' = collections \cup {row} /\ landed' = landed \cup {<<a, 0>>}
        /\ work' = [work EXCEPT ![w] = r]
    BY <1>6 DEF Lib!CommitCollections
  <2>2. Grows
    BY <1>1, <1>4, <2>1 DEF Grows, SameRecords, ClaimInv
  <2>3. ScheduleInv' /\ GuestInv' /\ Lib!ClaimIsComplete'
    BY <1>1, <2>2, SchedulesKept, GuestKept DEF ClaimInv
  <2>4. /\ row.id = c /\ row.account = a /\ row.client = c /\ row.name = name
        /\ row.courses = guest.courses /\ CollectionShape(row)
    BY DEF CollectionShape
  <2>5. CollectionType(row)
    BY <1>3, <1>6, <2>4 DEF CollectionType, ClaimInv, GuestInv
  <2>6. \A d \in collections : d.id # c /\ ~ (d.account = a /\ d.name = name)
    BY <1>3, <1>6 DEF Lib!Taken, Lib!OfAccount
  <2>7. \A d \in collections' : CollectionType(d)' /\ (d.client # 0 => <<d.account, 0>> \in landed')
    <3>1. \A d : CollectionType(d) => CollectionType(d)'
      BY <1>1 DEF CollectionType, CollectionShape
    <3>. QED
      BY <2>1, <2>4, <2>5, <3>1 DEF ClaimInv, CollectionInv
  <2>8. \A d, e \in collections' : /\ d.id = e.id => d = e
                                   /\ d.account = e.account /\ d.name = e.name => d = e
    <3>. SUFFICES ASSUME NEW d \in collections', NEW e \in collections'
                  PROVE  /\ d.id = e.id => d = e
                         /\ d.account = e.account /\ d.name = e.name => d = e
      OBVIOUS
    <3>1. (d \in collections \/ d = row) /\ (e \in collections \/ e = row)
      BY <2>1
    <3>2. \A x, y \in collections : /\ x.id = y.id => x = y
                                    /\ x.account = y.account /\ x.name = y.name => x = y
      BY DEF ClaimInv, CollectionInv
    <3>. QED
      BY <2>4, <2>6, <3>1, <3>2
  <2>9. CollectionInv'
    BY <2>7, <2>8 DEF CollectionInv
  <2>10. ASSUME NEW v \in Workers \ {w}, HasClient(work[v])
         PROVE  \A d \in collections' : d.id # work[v].client
    <3>1. work[v].client # work[w].client
      BY <1>2, <2>10 DEF ClaimInv, WorkInv
    <3>2. \A d \in collections : d.id # work[v].client
      BY <2>10 DEF ClaimInv, WorkInv, HandlerInv, HasClient
    <3>. QED
      BY <2>1, <2>4, <3>1, <3>2
  <2>11. r.pc = "answer" /\ r.account = a /\ ~ HasClient(r)
    BY DEF HasClient
  <2>12. AllLanded(a)'
    <3>1. SchedulesLanded(a)'
      BY <1>2, <2>2, LandedKept
    <3>. QED
      BY <2>1, <3>1 DEF AllLanded
  <2>13. HandlerInv(r)'
    BY <2>11, <2>12 DEF HandlerInv, HasClient
  <2>14. WorkInv'
    BY <2>1, <2>2, <2>10, <2>11, <2>13, WorkStep DEF ClaimInv
  <2>. QED
    BY <1>4, <2>3, <2>9, <2>14 DEF ClaimInv
<1>. QED
  BY <1>5, <1>6

\* The answer reaches the browser: all that lands has been in the account of the claim.
LEMMA AnsweredStep ==
  ASSUME AccountsAssumption, ClaimInv, AccountIds' = AccountIds,
         NEW w \in Workers, Lib!Answered(w)
  PROVE  ClaimInv'
<1>. PICK q, a : q = work[w] /\ a = q.account
  OBVIOUS
<1>1. /\ q # Free /\ q.pc = "answer" /\ guest' = [guest EXCEPT !.cleared = TRUE]
      /\ work' = [work EXCEPT ![w] = Free]
      /\ UNCHANGED <<schedules, collections, made, landed>>
  BY DEF Lib!Answered, Lib!Claiming
<1>2. AllLanded(a)
  BY <1>1 DEF ClaimInv, WorkInv, HandlerInv
<1>3. /\ guest'.schedules = guest.schedules /\ guest'.courses = guest.courses
      /\ guest' \in [schedules : Seq(Lib!Guests), courses : SUBSET Courses, cleared : BOOLEAN]
  BY <1>1 DEF ClaimInv, GuestInv
<1>4. Grows
  BY <1>1, <1>3 DEF Grows, SameRecords, ClaimInv
<1>5. ScheduleInv' /\ CollectionInv'
  BY <1>1, <1>4, SchedulesKept, CollectionsKept DEF ClaimInv
<1>6. GuestInv'
  BY <1>3 DEF ClaimInv, GuestInv, Records, ClientOf
<1>7. Lib!ClaimIsComplete'
  <2>1. \A x \in Lib!Wanted' : <<a, x>> \in landed
    BY <1>2, <1>3 DEF AllLanded, SchedulesLanded, Records, ClientOf, Lib!Wanted, Lib!Lands, Lib!CollectionLands
  <2>2. ASSUME Lib!Wanted' # {}
        PROVE  \E x \in landed : {x[1]} \X Lib!Wanted' \subseteq landed
    <3>1. PICK y \in Lib!Wanted' : <<a, y>> \in landed
      BY <2>1, <2>2
    <3>2. {<<a, y>>[1]} \X Lib!Wanted' \subseteq landed
      BY <2>1
    <3>. QED
      BY <3>1, <3>2
  <2>. QED
    BY <1>1, <2>2 DEF Lib!ClaimIsComplete
<1>8. \A v \in Workers \ {w} : HasClient(work[v]) =>
        \A d \in collections' : d.id # work[v].client
  BY <1>1 DEF ClaimInv, WorkInv, HandlerInv, HasClient
<1>9. WorkInv'
  BY <1>1, <1>4, <1>8, WorkStep DEF ClaimInv, HasClient
<1>. QED
  BY <1>1, <1>5, <1>6, <1>7, <1>9 DEF ClaimInv

\* A handler goes away, and what it staged with it.
LEMMA AbandonStep ==
  ASSUME AccountsAssumption, ClaimInv, AccountIds' = AccountIds,
         NEW w \in Workers, Lib!Abandon(w)
  PROVE  ClaimInv'
<1>1. /\ work' = [work EXCEPT ![w] = Free]
      /\ UNCHANGED <<schedules, collections, made, guest, landed>>
  BY DEF Lib!Abandon
<1>2. made' \in 0 .. MaxMade /\ made <= made' /\ ~ HasClient(Free)
  BY <1>1 DEF ClaimInv, HasClient
<1>. QED
  BY <1>1, <1>2, HandlerStep
-----------------------------------------------------------------------------
(* Sign-in beside the library.                                             *)

\* The rows of an account go with it, and nothing else moves.
LEMMA SignInKeeps ==
  ASSUME AccountsAssumption, ClaimInv, SignInStep
  PROVE  ClaimInv'
<1>. PICK live : live = AccountIds'
  OBVIOUS
<1>1. /\ schedules' = {x \in schedules : x.account \in live}
      /\ collections' = {x \in collections : x.account \in live}
      /\ UNCHANGED <<work, made, guest, landed>>
  BY DEF SignInStep, Cascade
<1>2. Grows
  BY <1>1 DEF Grows, SameRecords, ClaimInv
<1>3. ASSUME NEW s \in schedules'
      PROVE  ScheduleType(s)' /\ (s.client # 0 => <<s.account, s.client>> \in landed')
  <2>1. s \in schedules /\ s.account \in AccountIds'
    BY <1>1, <1>3
  <2>2. ScheduleType(s) /\ (s.client # 0 => <<s.account, s.client>> \in landed)
    BY <2>1 DEF ClaimInv, ScheduleInv
  <2>. QED
    BY <1>1, <2>1, <2>2 DEF ScheduleType, ScheduleShape
<1>4. ASSUME NEW c \in collections'
      PROVE  CollectionType(c)' /\ (c.client # 0 => <<c.account, 0>> \in landed')
  <2>1. c \in collections /\ c.account \in AccountIds'
    BY <1>1, <1>4
  <2>2. CollectionType(c) /\ (c.client # 0 => <<c.account, 0>> \in landed)
    BY <2>1 DEF ClaimInv, CollectionInv
  <2>. QED
    BY <1>1, <2>1, <2>2 DEF CollectionType, CollectionShape
<1>5. ScheduleInv' /\ CollectionInv'
  BY <1>1, <1>3, <1>4 DEF ClaimInv, ScheduleInv, CollectionInv
<1>6. GuestInv' /\ Lib!ClaimIsComplete'
  BY <1>1, <1>2, GuestKept DEF ClaimInv
<1>7. \A v \in Workers : HasClient(work[v]) =>
        \A c \in collections' : c.id # work[v].client
  BY <1>1 DEF ClaimInv, WorkInv, HandlerInv, HasClient
<1>8. WorkInv'
  BY <1>1, <1>2, <1>7, WorkKept DEF ClaimInv
<1>9. made' \in 0 .. MaxMade
  BY <1>2 DEF Grows
<1>. QED
  BY <1>5, <1>6, <1>8, <1>9 DEF ClaimInv

\* A stuttering step.
LEMMA NothingMoves ==
  ASSUME AccountsAssumption, ClaimInv, UNCHANGED allVars
  PROVE  ClaimInv'
<1>1. /\ made' = made /\ AccountIds' = AccountIds
      /\ UNCHANGED <<schedules, collections, work, guest, landed>>
  BY DEF allVars, libVars, vars, AccountIds
<1>2. Grows
  BY <1>1 DEF Grows, SameRecords, ClaimInv
<1>3. ScheduleInv'
  BY <1>1, <1>2, SchedulesKept DEF ClaimInv
<1>4. made' \in 0 .. MaxMade /\ made <= made'
  BY <1>2 DEF Grows
<1>. QED
  BY <1>1, <1>3, <1>4, SchedulesStep

\* Every request of the library keeps the invariant,
LEMMA AskKeeps ==
  ASSUME AccountsAssumption, ClaimInv, AccountIds' = AccountIds,
         NEW w \in Workers, NEW a, Lib!Ask(w, a)
  PROVE  ClaimInv'
<1>1. CASE Lib!SaveSchedule(w, a)
  BY <1>1, SaveScheduleStep
<1>2. CASE Lib!CourseRequest(w, a)
  BY <1>2, CourseRequestStep
<1>3. CASE Lib!Claim(w, a)
  BY <1>3, ClaimStep
<1>4. CASE Lib!CreateSchedule(a)
  BY <1>4, CreateScheduleStep
<1>5. CASE Lib!DeleteSchedule(a)
  BY <1>5, DeleteScheduleStep
<1>6. CASE Lib!CreateCollection(a)
  BY <1>6, CreateCollectionStep
<1>7. CASE Lib!RenameCollection(a)
  BY <1>7, RenameCollectionStep
<1>8. CASE Lib!DeleteCollection(a)
  BY <1>8, DeleteCollectionStep
<1>. QED
  BY <1>1, <1>2, <1>3, <1>4, <1>5, <1>6, <1>7, <1>8 DEF Lib!Ask

\* and so does every statement of a handler,
LEMMA ProceedKeeps ==
  ASSUME AccountsAssumption, ClaimInv, AccountIds' = AccountIds,
         NEW w \in Workers, Lib!Proceed(w)
  PROVE  ClaimInv'
<1>1. CASE Lib!Replace(w)
  BY <1>1, ReplaceStep
<1>2. CASE Lib!WriteCourse(w)
  BY <1>2, WriteCourseStep
<1>3. CASE Lib!NameSchedule(w)
  BY <1>3, NameScheduleStep
<1>4. CASE Lib!CommitSchedules(w)
  BY <1>4, CommitSchedulesStep
<1>5. CASE Lib!NameCollection(w)
  BY <1>5, NameCollectionStep
<1>6. CASE Lib!CommitCollections(w)
  BY <1>6, CommitCollectionsStep
<1>7. CASE Lib!Answered(w)
  BY <1>7, AnsweredStep
<1>8. CASE Lib!Abandon(w)
  BY <1>8, AbandonStep
<1>. QED
  BY <1>1, <1>2, <1>3, <1>4, <1>5, <1>6, <1>7, <1>8 DEF Lib!Proceed

\* and every step of the two together.
LEMMA ClaimNext ==
  ASSUME AccountsAssumption, ClaimInv, [AccountsNext]_allVars
  PROVE  ClaimInv'
<1>1. CASE SignInStep
  BY <1>1, SignInKeeps
<1>2. CASE LibraryRequest
  <2>1. PICK a \in Signed, w \in Workers : Lib!Ask(w, a)
    BY <1>2 DEF LibraryRequest
  <2>2. AccountIds' = AccountIds
    BY <1>2 DEF LibraryRequest, vars, AccountIds
  <2>. QED
    BY <2>1, <2>2, AskKeeps
<1>3. CASE LibraryStep
  <2>1. PICK w \in Workers : Lib!Proceed(w)
    BY <1>3 DEF LibraryStep
  <2>2. AccountIds' = AccountIds
    BY <1>3 DEF LibraryStep, vars, AccountIds
  <2>. QED
    BY <2>1, <2>2, ProceedKeeps
<1>4. CASE UNCHANGED allVars
  BY <1>4, NothingMoves
<1>. QED
  BY <1>1, <1>2, <1>3, <1>4 DEF AccountsNext

\* It holds as the browser's store is first read.
LEMMA ClaimInit ==
  ASSUME AccountsAssumption, AccountsInit
  PROVE  ClaimInv
<1>1. /\ schedules = {} /\ collections = {} /\ landed = {}
      /\ work = [w \in Workers |-> Free] /\ guest \in GuestStores
      /\ made = Len(guest.schedules)
  BY DEF AccountsInit, Lib!LibInit
<1>2. /\ guest \in [schedules : Seq(Lib!Guests), courses : SUBSET Courses, cleared : {FALSE}]
      /\ Len(guest.schedules) <= MaxMade
      /\ \A i, j \in Records : ClientOf(i) = ClientOf(j) => i = j
  BY <1>1, AccountsAssumption DEF Records, ClientOf
<1>3. GuestInv /\ ~ guest.cleared
  BY <1>2 DEF GuestInv
<1>4. made \in 0 .. MaxMade
  <2>1. guest.schedules \in Seq(Lib!Guests)
    BY <1>2
  <2>2. Len(guest.schedules) \in Nat
    BY <2>1
  <2>. QED
    BY <1>1, <1>2, <2>2, AccountsAssumption
<1>5. WorkInv
  BY <1>1 DEF WorkInv, HasClient
<1>. QED
  BY <1>1, <1>3, <1>4, <1>5 DEF ClaimInv, ScheduleInv, CollectionInv, Lib!ClaimIsComplete

\* The inductive invariant, for any number of handlers, records and accounts.
LEMMA ClaimInvHolds == AccountsSpec => []ClaimInv
<1>1. AccountsInit => ClaimInv
  BY AccountsAssumption, ClaimInit
<1>2. ClaimInv /\ [AccountsNext]_allVars => ClaimInv'
  BY AccountsAssumption, ClaimNext
<1>. QED
  BY <1>1, <1>2, PTL DEF AccountsSpec
-----------------------------------------------------------------------------
(* The theorems.                                                           *)

\* The sign-in handlers beside the library are the sign-in handlers: whatever
\* SignIn promises holds of the two together.
THEOREM LibraryLeavesSignIn == AccountsSpec => Spec
<1>1. AccountsInit => Init
  BY DEF AccountsInit
<1>2. [AccountsNext]_allVars => [Next]_vars
  BY DEF AccountsNext, SignInStep, LibraryRequest, LibraryStep, allVars
<1>. QED
  BY <1>1, <1>2, PTL DEF AccountsSpec, Spec

\* Accounts and what they own keep their tables' types and keys, and a claim that
\* clears the browser's store has brought all that its limits and the held terms
\* let through into one account.
THEOREM NothingIsLostByAClaim == AccountsSpec => []ClaimIsComplete
<1>1. ClaimInv => Lib!LibTypeOK /\ Lib!ClaimIsComplete
  <2>. SUFFICES ASSUME ClaimInv
                PROVE  Lib!LibTypeOK
    BY DEF ClaimInv
  <2>1. 1 .. made \subseteq Lib!Ids
    BY AccountsAssumption DEF ClaimInv, Lib!Ids
  <2>2. \A s \in schedules : ScheduleType(s)
    BY DEF ClaimInv, ScheduleInv
  <2>3. \A c \in collections : CollectionType(c)
    BY DEF ClaimInv, CollectionInv
  <2>4. \A s \in schedules : /\ s.id \in Lib!Ids /\ s.client \in 0 .. MaxMade
                             /\ s.version \in 1 .. MaxVersion /\ s.doc.term \in HeldTerms
                             /\ s.sections \subseteq HeldSections /\ s.account \in AccountIds
    BY <2>1, <2>2 DEF ScheduleType
  <2>5. \A c \in collections : /\ c.id \in Lib!Ids /\ c.courses \subseteq Courses
                               /\ c.client \in {0, c.id} /\ c.account \in AccountIds
    BY <2>1, <2>3 DEF CollectionType
  <2>6. \A x, y \in schedules :
          /\ x.id = y.id => x = y
          /\ x.account = y.account /\ x.client = y.client /\ x.client # 0 => x = y
    BY DEF ClaimInv, ScheduleInv
  <2>7. \A x, y \in collections :
          /\ x.id = y.id => x = y
          /\ x.account = y.account /\ x.name = y.name => x = y
    BY DEF ClaimInv, CollectionInv
  <2>8. \A x, y \in collections : x.client = y.client /\ x.client # 0 => x = y
    <3>. SUFFICES ASSUME NEW x \in collections, NEW y \in collections,
                         x.client = y.client, x.client # 0
                  PROVE  x.id = y.id
      BY <2>7
    <3>. QED
      BY <2>5
  <2>. QED
    BY <2>4, <2>5, <2>6, <2>7, <2>8 DEF Lib!LibTypeOK
<1>2. AccountsSpec => []TypeOK
  BY LibraryLeavesSignIn, SignInTypeCorrect, PTL
<1>3. TypeOK /\ Lib!LibTypeOK /\ Lib!ClaimIsComplete => ClaimIsComplete
  BY DEF ClaimIsComplete, AccountsTypeOK
<1>. QED
  BY <1>1, <1>2, <1>3, ClaimInvHolds, PTL

\* What a step makes of a schedule: itself, a save of it, or its document under
\* the section rows of a claim.
Whole(s, t) ==
  /\ <<s.doc, s.version>> # <<t.doc, t.version>> =>
        t.version = s.version + 1 /\ t.sections = Lib!SectionsOf(t.doc) /\ Lib!BySave(s, t)
  /\ s.sections # t.sections => t.version = s.version + 1 \/ Lib!ByClaim(s, t)

\* Rows that go, and rows that nobody touches.
LEMMA WholeIfFewer ==
  ASSUME ScheduleInv, schedules' \subseteq schedules
  PROVE  \A s \in schedules, t \in schedules' : s.id = t.id => Whole(s, t)
<1>1. \A s \in schedules, t \in schedules' : s.id = t.id => s = t
  BY DEF ScheduleInv
<1>. QED
  BY <1>1 DEF Whole

\* A created row is no row that was.
LEMMA WholeCreate ==
  ASSUME ClaimInv, NEW a, Lib!CreateSchedule(a)
  PROVE  \A s \in schedules, t \in schedules' : s.id = t.id => Whole(s, t)
<1>1. PICK doc : schedules' = schedules \cup {Lib!ScheduleRow(a, 0, doc, made + 1)}
  BY DEF Lib!CreateSchedule
<1>2. Lib!ScheduleRow(a, 0, doc, made + 1).id = made + 1
  BY DEF Lib!ScheduleRow
<1>3. \A s \in schedules : s.id # made + 1
  <2>1. \A s \in schedules : s.id \in 1 .. made
    BY DEF ClaimInv, ScheduleInv, ScheduleType
  <2>2. made \in Nat
    BY DEF ClaimInv
  <2>. QED
    BY <2>1, <2>2
<1>4. ASSUME NEW s \in schedules, NEW t \in schedules', s.id = t.id
      PROVE  s = t
  BY <1>1, <1>2, <1>3, <1>4 DEF ClaimInv, ScheduleInv
<1>. QED
  BY <1>4 DEF Whole

\* A save replaces the row it names under the version it names.
LEMMA WholeReplace ==
  ASSUME ClaimInv, NEW w \in Workers, Lib!Replace(w)
  PROVE  \A s \in schedules, t \in schedules' : s.id = t.id => Whole(s, t)
<1>1. CASE schedules' = schedules
  BY <1>1, WholeIfFewer DEF ClaimInv
<1>2. ASSUME NEW c \in schedules, c.id = work[w].id, c.version = work[w].version,
             schedules' = (schedules \ {c}) \cup {Lib!Saved(c, work[w].doc)},
             NEW s \in schedules, NEW t \in schedules', s.id = t.id
      PROVE  Whole(s, t)
  <2>. PICK doc, x : doc = work[w].doc /\ x = Lib!Saved(c, doc)
    OBVIOUS
  <2>1. x = [id |-> c.id, account |-> c.account, client |-> c.client, version |-> c.version + 1,
             doc |-> doc, sections |-> Lib!SectionsOf(doc)]
    BY SavedRow
  <2>2. x.id = c.id /\ x.version = c.version + 1 /\ x.doc = doc
        /\ x.sections = Lib!SectionsOf(doc)
    BY <2>1
  <2>3. t = x \/ (t \in schedules /\ t # c)
    BY <1>2
  <2>4. CASE t = x
    <3>1. s = c
      BY <1>2, <2>2, <2>4 DEF ClaimInv, ScheduleInv
    <3>2. work[w] # Free /\ work[w].pc = "save"
      BY DEF Lib!Replace
    <3>. QED
      BY <1>2, <2>2, <2>4, <3>1, <3>2 DEF Whole, Lib!BySave
  <2>5. CASE t \in schedules
    <3>1. s = t
      BY <1>2, <2>5 DEF ClaimInv, ScheduleInv
    <3>. QED
      BY <3>1 DEF Whole
  <2>. QED
    BY <2>3, <2>4, <2>5
<1>. QED
  BY <1>1, <1>2, ReplaceFinds DEF ClaimInv

\* A claim rewrites the section rows of what it meets and nothing else of it.
LEMMA WholeUpsert ==
  ASSUME AccountsAssumption, ClaimInv, NEW w \in Workers, Lib!CommitSchedules(w)
  PROVE  \A s \in schedules, t \in schedules' : s.id = t.id => Whole(s, t)
<1>. PICK q, a, staged : q = work[w] /\ a = q.account /\ staged = q.staged
  OBVIOUS
<1>. PICK new : new = NewOnes(a, staged)
  OBVIOUS
<1>1. q # Free /\ q.pc = "schedules" /\ schedules' = Lib!Upsert(q, staged, made)
  BY DEF Lib!CommitSchedules, Lib!Claiming
<1>2. Staged(q) /\ made \in Nat
  BY <1>1 DEF ClaimInv, WorkInv, HandlerInv
<1>3. \A g \in new : Place(new, g) \in Nat \ {0}
  <2>1. new \subseteq staged /\ IsFiniteSet(new)
    BY <1>2, FS_Subset DEF NewOnes, Staged
  <2>2. \A h \in new : h.client \in Nat
    BY <1>2, <2>1 DEF Staged
  <2>3. Cardinality(new) \in Nat
    BY <2>1, FS_CardinalityType
  <2>. QED
    BY <2>1, <2>2, <2>3, Places
<1>4. ASSUME NEW s \in schedules, NEW t \in schedules', s.id = t.id
      PROVE  /\ s.doc = t.doc /\ s.version = t.version
             /\ s = t \/ Lib!ByClaim(s, t)
  <2>1. Unmet(a, staged, t) \/ Met(a, staged, t) \/ Inserted(a, staged, t)
    BY <1>1, UpsertRows
  <2>2. \A r \in schedules : r.id = s.id => r = s
    BY DEF ClaimInv, ScheduleInv
  <2>3. CASE Unmet(a, staged, t)
    BY <1>4, <2>2, <2>3 DEF Unmet
  <2>4. CASE Met(a, staged, t)
    <3>1. PICK r \in schedules, g \in staged :
            r.account = a /\ r.client = g.client /\ t = Lib!Kept(r, g.doc)
      BY <2>4 DEF Met
    <3>. PICK doc : doc = g.doc
      OBVIOUS
    <3>2. t = [id |-> r.id, account |-> r.account, client |-> r.client, version |-> r.version,
               doc |-> r.doc, sections |-> Lib!SectionsOf(doc)]
      BY <3>1, KeptRow DEF ClaimInv, ScheduleInv, ScheduleType
    <3>3. /\ t.id = r.id /\ t.doc = r.doc /\ t.version = r.version
          /\ t.sections = Lib!SectionsOf(g.doc)
      BY <3>2
    <3>4. r = s
      BY <1>4, <2>2, <3>3
    <3>5. Lib!ByClaim(s, t)
      BY <1>1, <3>1, <3>3, <3>4 DEF Lib!ByClaim, Lib!Claiming
    <3>. QED
      BY <3>3, <3>4, <3>5
  <2>5. CASE Inserted(a, staged, t)
    <3>1. PICK g \in new : t = Lib!ScheduleRow(a, g.client, g.doc, made + Place(new, g))
      BY <2>5 DEF Inserted
    <3>2. t.id = made + Place(new, g)
      BY <3>1 DEF Lib!ScheduleRow
    <3>3. s.id \in 1 .. made
      BY DEF ClaimInv, ScheduleInv, ScheduleType
    <3>. QED
      BY <1>2, <1>3, <1>4, <3>2, <3>3
  <2>. QED
    BY <2>1, <2>3, <2>4, <2>5
<1>. QED
  BY <1>4 DEF Whole

\* So every step replaces a document whole or not at all, and section rows with
\* it or for a claim.
LEMMA WholeStep ==
  ASSUME AccountsAssumption, ClaimInv, AccountsNext
  PROVE  \A s \in schedules, t \in schedules' : s.id = t.id => Whole(s, t)
<1>1. ASSUME schedules' \subseteq schedules
      PROVE  \A s \in schedules, t \in schedules' : s.id = t.id => Whole(s, t)
  BY <1>1, WholeIfFewer DEF ClaimInv
<1>2. CASE SignInStep
  BY <1>1, <1>2 DEF SignInStep, Cascade
<1>3. CASE LibraryRequest
  <2>1. PICK a \in Signed, w \in Workers : Lib!Ask(w, a)
    BY <1>3 DEF LibraryRequest
  <2>2. Lib!CreateSchedule(a) \/ schedules' \subseteq schedules
    BY <2>1 DEF Lib!Ask, Lib!SaveSchedule, Lib!CourseRequest, Lib!Claim, Lib!DeleteSchedule,
                Lib!CreateCollection, Lib!RenameCollection, Lib!DeleteCollection
  <2>. QED
    BY <1>1, <2>2, WholeCreate
<1>4. CASE LibraryStep
  <2>1. PICK w \in Workers : Lib!Proceed(w)
    BY <1>4 DEF LibraryStep
  <2>2. Lib!Replace(w) \/ Lib!CommitSchedules(w) \/ schedules' \subseteq schedules
    BY <2>1 DEF Lib!Proceed, Lib!WriteCourse, Lib!NameSchedule, Lib!NameCollection,
                Lib!CommitCollections, Lib!Answered, Lib!Abandon
  <2>. QED
    BY <1>1, <2>2, WholeReplace, WholeUpsert
<1>. QED
  BY <1>2, <1>3, <1>4 DEF AccountsNext

\* A schedule's document and version change together, with its section rows, and
\* by a save of the version it has; its section rows change alone only in a
\* claim that met the row when it committed.
THEOREM SchedulesAreReplacedWhole == AccountsSpec => ReplacedWhole
<1>1. ClaimInv /\ [AccountsNext]_allVars =>
        [\A s \in schedules, t \in schedules' : s.id = t.id => Whole(s, t)]_schedules
  BY AccountsAssumption, WholeStep DEF allVars, libVars
<1>2. ClaimInv /\ [AccountsNext]_allVars => [Lib!WritesWhole]_schedules
  BY <1>1 DEF Whole, Lib!WritesWhole
<1>. QED
  BY <1>2, ClaimInvHolds, PTL DEF AccountsSpec, ReplacedWhole, Lib!ReplacedWhole
=============================================================================
