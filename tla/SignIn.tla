------------------------------- MODULE SignIn -------------------------------
(***************************************************************************)
(* Sign-in, sessions and accounts: the handlers of routes/account.rs and    *)
(* the session extractor over sessions.rs and accounts.rs.  Handlers run    *)
(* concurrently, so every statement a handler sends is an action of its own *)
(* and carries the time the handler read when it began.                     *)
(*                                                                          *)
(* The n-th request to begin mints code n, account n and session token n:   *)
(* what chance makes distinct is distinct here.  A guess that is no mailed  *)
(* code of the address is 0.  A domain that may not sign in is answered     *)
(* 202 and changes nothing, so Emails are those that may.                   *)
(***************************************************************************)
EXTENDS Naturals, FiniteSets

CONSTANTS
    Emails, Ips,
    Requests,          \* handlers that may run at once
    CodeTtl, SessionTtl, TouchInterval,
    AddressWindow, SendsPerAddress, IpWindow, SendsPerIp, MaxAttempts,
    MaxRequests,       \* bound: requests ever begun
    MaxTime,           \* bound: the clock
    None

ASSUME SignInAssumption ==
    /\ CodeTtl \in Nat /\ SessionTtl \in Nat /\ TouchInterval \in Nat
    /\ AddressWindow \in Nat /\ IpWindow \in Nat
    /\ SendsPerAddress \in Nat /\ SendsPerIp \in Nat /\ MaxAttempts \in Nat \ {0}
    /\ MaxRequests \in Nat /\ MaxTime \in Nat
    /\ None \notin Requests /\ Requests # {} /\ IsFiniteSet(Requests)
    /\ None \notin [code : Nat, expires : Nat, attempts : Nat, sends : Nat, started : Nat]
    /\ None \notin [account : Nat, expires : Nat, seen : Nat]

Serials == 1 .. MaxRequests
CodeRow == [code : Serials, expires : Nat, attempts : Nat, sends : Nat, started : Nat]
SessionRow == [account : Serials, expires : Nat, seen : Nat]

VARIABLES
    now,
    codes,      \* login_codes by address, None where there is no row
    lock,       \* the handler whose transaction has locked that row
    windows,    \* login_ip_windows: [sends, started], sends = 0 for no row
    accounts,   \* the account of an address, 0 when it has none
    sessions,   \* by token
    mail,       \* <<address, code>> delivered
    req,        \* what each handler is doing
    begun,      \* requests begun
    wrong,      \* history: wrong guesses judged against each code
    opened,     \* history: [token, email, code] of each session a code opened
    signedOut   \* history: tokens deleted by a sign-out
vars == <<now, codes, lock, windows, accounts, sessions, mail, req, begun,
          wrong, opened, signedOut>>

Kinds == {"view", "logout", "remove"}
PCs == {"idle", "count", "put", "record", "mail", "read", "judge", "account", "open",
        "lookup", "expire", "touch"} \cup Kinds
Request == [pc : PCs, n : 0 .. MaxRequests, at : Nat, email : Emails \cup {None},
            ip : Ips \cup {None}, guess : 0 .. MaxRequests, row : CodeRow \cup {None},
            token : 0 .. MaxRequests, kind : Kinds, account : 0 .. MaxRequests]
Idle == [pc |-> "idle", n |-> 0, at |-> 0, email |-> None, ip |-> None, guess |-> 0,
         row |-> None, token |-> 0, kind |-> "view", account |-> 0]
At(r, pc) == req[r].pc = pc
Goto(r, pc) == req' = [req EXCEPT ![r].pc = pc]
Finish(r) == req' = [req EXCEPT ![r] = Idle]
Live(started, at, window) == started + window > at

Init == /\ now = 0 /\ begun = 0
        /\ codes = [e \in Emails |-> None] /\ lock = [e \in Emails |-> None]
        /\ windows = [i \in Ips |-> [sends |-> 0, started |-> 0]]
        /\ accounts = [e \in Emails |-> 0]
        /\ sessions = [t \in Serials |-> None]
        /\ mail = {} /\ opened = {} /\ signedOut = {}
        /\ req = [r \in Requests |-> Idle]
        /\ wrong = [c \in Serials |-> 0]

history == <<wrong, opened, signedOut>>
tables == <<codes, windows, accounts, sessions>>
\* A handler reads the clock as it begins.
Begin(r, pc, e, i, g, t, k) ==
    /\ At(r, "idle") /\ begun < MaxRequests
    /\ begun' = begun + 1
    /\ req' = [req EXCEPT ![r] = [Idle EXCEPT !.pc = pc, !.n = begun + 1, !.at = now, !.email = e,
                                              !.ip = i, !.guess = g, !.token = t, !.kind = k]]
    /\ UNCHANGED <<now, tables, lock, mail, history>>

(* email_request *)
EmailRequest(r) == \E e \in Emails, i \in Ips : Begin(r, "count", e, i, 0, 0, "view")
RecentSends(i, at) == IF Live(windows[i].started, at, IpWindow) THEN windows[i].sends ELSE 0
Step(r, from) == At(r, from) /\ UNCHANGED <<now, begun>>
FullLate(sends) == sends > SendsPerIp      \* mutant: off by one
Full(sends) == sends >= SendsPerIp
CountSends(r) ==
    /\ Step(r, "count")
    /\ IF Full(RecentSends(req[r].ip, req[r].at)) THEN Finish(r) ELSE Goto(r, "put")
    /\ UNCHANGED <<tables, lock, mail, history>>
\* One upsert: a live window counts on, an ended one starts again, a full one refuses.
NewCode(q, row) ==
    IF row # None /\ Live(row.started, q.at, AddressWindow)
    THEN [code |-> q.n, expires |-> q.at + CodeTtl, attempts |-> 0,
          sends |-> row.sends + 1, started |-> row.started]
    ELSE [code |-> q.n, expires |-> q.at + CodeTtl, attempts |-> 0, sends |-> 1, started |-> q.at]
Refused(q, row) == row # None /\ Live(row.started, q.at, AddressWindow) /\ row.sends >= SendsPerAddress
PutCode(r) ==
    LET e == req[r].email
    IN  /\ Step(r, "put") /\ lock[e] = None
        /\ \/ Refused(req[r], codes[e]) /\ Finish(r) /\ codes' = codes
           \/ /\ ~Refused(req[r], codes[e]) /\ Goto(r, "record")
              /\ codes' = [codes EXCEPT ![e] = NewCode(req[r], codes[e])]
        /\ UNCHANGED <<windows, accounts, sessions, lock, mail, history>>
RecordSend(r) ==
    LET w == windows[req[r].ip]
    IN  /\ Step(r, "record") /\ Goto(r, "mail")
        /\ windows' = [windows EXCEPT ![req[r].ip] =
              IF w.sends # 0 /\ Live(w.started, req[r].at, IpWindow)
              THEN [w EXCEPT !.sends = @ + 1] ELSE [sends |-> 1, started |-> req[r].at]]
        /\ UNCHANGED <<codes, accounts, sessions, lock, mail, history>>
SendMail(r) == /\ Step(r, "mail") /\ Finish(r)
               /\ mail' = mail \cup {<<req[r].email, req[r].n>>}
               /\ UNCHANGED <<tables, lock, history>>

(* email_verify: take_login_code is one transaction that holds the row's lock *)
Guesses(e) == {0} \cup {c \in Serials : <<e, c>> \in mail}
EmailVerify(r) == \E e \in Emails : \E g \in Guesses(e) : Begin(r, "read", e, None, g, 0, "view")
ReadCodeUnlocked(r) ==      \* mutant: no "for update"
    LET e == req[r].email
    IN  /\ Step(r, "read")
        /\ IF codes[e] = None THEN Finish(r)
           ELSE req' = [req EXCEPT ![r].pc = "judge", ![r].row = codes[e]]
        /\ UNCHANGED <<tables, lock, mail, history>>
ReadCode(r) ==
    LET e == req[r].email
    IN  /\ Step(r, "read") /\ lock[e] = None
        /\ \/ codes[e] = None /\ Finish(r) /\ lock' = lock
           \/ /\ codes[e] # None
              /\ req' = [req EXCEPT ![r].pc = "judge", ![r].row = codes[e]]
              /\ lock' = [lock EXCEPT ![e] = r]
        /\ UNCHANGED <<tables, mail, history>>
BurntLate(attempts) == attempts > MaxAttempts      \* mutant: one guess too many
Burnt(attempts) == attempts >= MaxAttempts
Judge(r) ==
    LET q == req[r]
        row == q.row
    IN  /\ Step(r, "judge")
        /\ lock' = [lock EXCEPT ![q.email] = None]
        /\ \/ /\ row.expires <= q.at
              /\ codes' = [codes EXCEPT ![q.email] = None] /\ Finish(r) /\ wrong' = wrong
           \/ /\ row.expires > q.at /\ row.code = q.guess
              /\ codes' = [codes EXCEPT ![q.email] = None] /\ Goto(r, "account") /\ wrong' = wrong
           \/ /\ row.expires > q.at /\ row.code # q.guess
              /\ codes' = [codes EXCEPT ![q.email] =
                             IF Burnt(row.attempts + 1) THEN None
                             ELSE [row EXCEPT !.attempts = @ + 1]]
              /\ wrong' = [wrong EXCEPT ![row.code] = @ + 1] /\ Finish(r)
        /\ UNCHANGED <<windows, accounts, sessions, mail, opened, signedOut>>

(* sso_complete enters here, and both open a session *)
Sso(r) == \E e \in Emails : Begin(r, "account", e, None, 0, 0, "view")
CreateAccount(r) ==
    LET e == req[r].email
        a == IF accounts[e] = 0 THEN req[r].n ELSE accounts[e]
    IN  /\ Step(r, "account")
        /\ accounts' = [accounts EXCEPT ![e] = a]
        /\ req' = [req EXCEPT ![r].pc = "open", ![r].account = a]
        /\ UNCHANGED <<codes, windows, sessions, lock, mail, history>>
\* The account may be gone by now: the foreign key refuses and the request fails.
OpenSession(r) ==
    LET q == req[r]
    IN  /\ Step(r, "open") /\ Finish(r)
        /\ \/ /\ accounts[q.email] # q.account
              /\ UNCHANGED <<sessions, opened>>
           \/ /\ accounts[q.email] = q.account
              /\ sessions' = [sessions EXCEPT ![q.n] =
                    [account |-> q.account, expires |-> now + SessionTtl, seen |-> now]]
              /\ opened' = IF q.guess = 0 THEN opened
                           ELSE opened \cup {[token |-> q.n, email |-> q.email, code |-> q.guess]}
        /\ UNCHANGED <<codes, windows, accounts, lock, mail, wrong, signedOut>>

(* The Session extractor, then the handler.  It reads the clock after the row. *)
SessionRequest(r) == \E t \in Serials, k \in Kinds :
    sessions[t] # None /\ Begin(r, "lookup", None, None, 0, t, k)
Lookup(r) ==
    LET q == req[r]
        s == sessions[q.token]
    IN  /\ Step(r, "lookup")
        /\ \/ s = None /\ Finish(r)
           \/ /\ s # None
              /\ req' = [req EXCEPT ![r] = [q EXCEPT !.at = now, !.account = s.account, !.pc =
                    IF s.expires <= now THEN "expire"
                    ELSE IF s.seen + TouchInterval <= now THEN "touch" ELSE q.kind]]
        /\ UNCHANGED <<tables, lock, mail, history>>
Expire(r) == /\ Step(r, "expire") /\ Finish(r)
             /\ sessions' = [sessions EXCEPT ![req[r].token] = None]
             /\ UNCHANGED <<codes, windows, accounts, lock, mail, history>>
Touched(q) == [account |-> q.account, expires |-> q.at + SessionTtl, seen |-> q.at]
TouchAnyway(r) ==       \* mutant: an upsert
    /\ Step(r, "touch") /\ Goto(r, req[r].kind)
    /\ sessions' = [sessions EXCEPT ![req[r].token] = Touched(req[r])]
    /\ UNCHANGED <<codes, windows, accounts, lock, mail, history>>
TouchSession(r) ==
    /\ Step(r, "touch") /\ Goto(r, req[r].kind)
    /\ sessions' = IF sessions[req[r].token] = None THEN sessions
                   ELSE [sessions EXCEPT ![req[r].token] = Touched(req[r])]
    /\ UNCHANGED <<codes, windows, accounts, lock, mail, history>>
View(r) == Step(r, "view") /\ Finish(r) /\ UNCHANGED <<tables, lock, mail, history>>
Logout(r) == /\ Step(r, "logout") /\ Finish(r)
             /\ sessions' = [sessions EXCEPT ![req[r].token] = None]
             /\ signedOut' = signedOut \cup {req[r].token}
             /\ UNCHANGED <<codes, windows, accounts, lock, mail, wrong, opened>>
\* The account's sessions go with it.
RemoveAccount(r) ==
    LET a == req[r].account
    IN  /\ Step(r, "remove") /\ Finish(r)
        /\ accounts' = [e \in Emails |-> IF accounts[e] = a THEN 0 ELSE accounts[e]]
        /\ sessions' = [t \in Serials |-> IF sessions[t] # None /\ sessions[t].account = a
                                          THEN None ELSE sessions[t]]
        /\ UNCHANGED <<codes, windows, lock, mail, history>>

\* The client goes away or a statement fails: the transaction rolls back.
Drop(r) == /\ ~At(r, "idle") /\ Finish(r)
           /\ lock' = [e \in Emails |-> IF lock[e] = r THEN None ELSE lock[e]]
           /\ UNCHANGED <<now, begun, tables, mail, history>>
Tick == /\ now < MaxTime /\ now' = now + 1
        /\ UNCHANGED <<tables, lock, mail, req, begun, history>>

Handler(r) == \/ EmailRequest(r) \/ CountSends(r) \/ PutCode(r) \/ RecordSend(r) \/ SendMail(r)
              \/ EmailVerify(r) \/ ReadCode(r) \/ Judge(r)
              \/ Sso(r) \/ CreateAccount(r) \/ OpenSession(r)
              \/ SessionRequest(r) \/ Lookup(r) \/ Expire(r) \/ TouchSession(r)
              \/ View(r) \/ Logout(r) \/ RemoveAccount(r) \/ Drop(r)
Next == Tick \/ \E r \in Requests : Handler(r)
Spec == Init /\ [][Next]_vars
-----------------------------------------------------------------------------
(***************************************************************************)
(* Properties.                                                             *)
(***************************************************************************)
TypeOK ==
    /\ now \in Nat /\ begun \in 0 .. MaxRequests
    /\ codes \in [Emails -> CodeRow \cup {None}]
    /\ lock \in [Emails -> Requests \cup {None}]
    /\ windows \in [Ips -> [sends : Nat, started : Nat]]
    /\ accounts \in [Emails -> 0 .. MaxRequests]
    /\ sessions \in [Serials -> SessionRow \cup {None}]
    /\ mail \subseteq (Emails \X Serials)
    /\ req \in [Requests -> Request]
    /\ wrong \in [Serials -> Nat]
    /\ opened \subseteq [token : Serials, email : Emails, code : Serials]
    /\ signedOut \subseteq Serials

\* A code opens at most one session, for the address it was mailed to, however
\* many requests present it at once, before or after it was replaced.
SessionsAreEarned ==
    /\ \A x \in opened : <<x.email, x.code>> \in mail
    /\ \A x, y \in opened : x.code = y.code => x = y

\* No code is ever judged against more than MaxAttempts wrong guesses, and the
\* last of them leaves the address without it.
FiveGuesses == \A c \in Serials :
    /\ wrong[c] <= MaxAttempts
    /\ wrong[c] = MaxAttempts => \A e \in Emails : codes[e] # None => codes[e].code # c

\* Requests that count their IP's sends together pass the limit together: by
\* one less than there are handlers, and never by more.
IpSendsBounded == \A i \in Ips : windows[i].sends < SendsPerIp + Cardinality(Requests)

\* A signed-out token never comes back, whatever requests were under way with it.
SignedOutStaysOut == \A t \in signedOut : sessions[t] = None
=============================================================================
