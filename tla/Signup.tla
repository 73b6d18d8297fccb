------------------------------- MODULE Signup -------------------------------
(***************************************************************************)
(* The browsers of the campaign: the gate of a referral link, its ticket,  *)
(* the sign-up form, the login and what is kept in the browser             *)
(* (components/ReferralSchoolGate.tsx, hooks/useReferralGateState.ts,      *)
(* screens/AuthSignupScreen.tsx, AuthLoginScreen.tsx, App.tsx).  A screen  *)
(* waits for one request at a time, and so does the socket; but a screen   *)
(* that is left goes on waiting, and a reload cuts all of them off.        *)
(***************************************************************************)
EXTENDS CampaignAccounts

VARIABLE page  \* browser -> what its storage, its page and its cookie hold

vars == <<limitVars, accountVars, page>>

(* stored is localStorage, ticket what the application read from it when   *)
(* it was loaded; user is kept in both.  handshake is the cookie the       *)
(* socket was opened with.  call is the request of the gate or screen that *)
(* is shown, left are those of screens that are gone, entry is the one     *)
(* over the socket; entering is pendingEventAction.                        *)
EmptyPage ==
  [stored |-> None, ticket |-> None, user |-> None, cookie |-> None, handshake |-> None, link |-> None,
   gate |-> "closed", matched |-> None, registered |-> None, call |-> None, left |-> {},
   entry |-> None, entering |-> FALSE]

(* A ticket of an earlier visit may be in the storage.                     *)
Init ==
  /\ AccountsInit
  /\ page \in [Browser -> {EmptyPage} \cup
       {[EmptyPage EXCEPT !.stored = [code |-> k, school |-> EnvBinding[k], at |-> 0]] :
          k \in {k \in Code : EnvBinding[k] # None}}]

Requests(p) == ({p.call, p.entry} \cup p.left) \ {None}

(* setPage: the screen goes, with what it alone knew; its request stays.   *)
Away(p) == [p EXCEPT !.left = @ \cup ({p.call} \ {None}), !.call = None, !.registered = None]

(* The socket is opened again, with the cookie of now.  What it was        *)
(* waiting for is never answered: emitWithAck has no time-out.             *)
Reopened(p) == [p EXCEPT !.handshake = p.cookie, !.entry = None]

(* A screen where nothing is under way.                                    *)
Idle(b) == page[b].call = None /\ page[b].gate = "closed"

Ask(b, c, request) == Arrive(c, [request EXCEPT !.by = b])
-----------------------------------------------------------------------------
(* A stored ticket passes the gate of its own link.                        *)
Passes(p, k) == k = None \/ (p.stored # None /\ p.stored.code = k)

(* The cookies a page may have once the answers to C were cut off: that of *)
(* an answer whose head arrived was kept.                                  *)
Cookies(p, C) ==
  {p.cookie} \cup
    {calls[c].answer.user.name :
       c \in {c \in C : calls[c].answer # None /\ calls[c].answer.user # None}}

(* A page is loaded, with a link or without: the link is needed at the     *)
(* gate only.  The requests under way are cut off.                         *)
Load(b, k) ==
  LET p == page[b]
  IN  /\ \E cookie \in Cookies(p, Requests(p)) :
           page' = [page EXCEPT ![b] =
             [EmptyPage EXCEPT !.stored = p.stored, !.ticket = p.stored, !.user = p.user,
                !.cookie = cookie, !.handshake = cookie, !.link = IF Passes(p, k) THEN None ELSE k,
                !.gate = IF Passes(p, k) THEN "closed" ELSE "open"]]
      /\ UNCHANGED <<limitVars, accountVars>>

(* verifyLocation.                                                         *)
Locate(b, c) ==
  /\ page[b].gate = "open" /\ page[b].call = None
  /\ Ask(b, c, [NoCall EXCEPT !.op = "locate", !.code = page[b].link])
  /\ page' = [page EXCEPT ![b].call = c]

(* issueTicket's timer: the ticket is kept in the browser.                 *)
IssueTicket(b) ==
  /\ page[b].gate = "matched"
  /\ page' = [page EXCEPT ![b].gate = "issued", ![b].stored = page[b].matched]
  /\ UNCHANGED <<limitVars, accountVars>>

(* completeReferralGate, and on to the sign-up.                            *)
PassGate(b) ==
  /\ page[b].gate = "issued"
  /\ page' = [page EXCEPT ![b].gate = "closed", ![b].ticket = page[b].matched,
                          ![b].matched = None, ![b].link = None]
  /\ UNCHANGED <<limitVars, accountVars>>

(* exitReferralGate: the gate's request is aborted, its timer cleared.     *)
ExitGate(b) ==
  /\ page[b].gate # "closed"
  /\ page' = [page EXCEPT ![b].gate = "closed", ![b].ticket = None, ![b].link = None,
                          ![b].matched = None, ![b].call = None]
  /\ UNCHANGED <<limitVars, accountVars>>
-----------------------------------------------------------------------------
(* register(): needs a ticket; the form disappears once it was accepted.   *)
Register(b, c, n, e) ==
  /\ Idle(b) /\ page[b].ticket # None /\ page[b].registered = None
  /\ Ask(b, c, [NoCall EXCEPT !.op = "register", !.name = n, !.email = e,
                               !.code = page[b].ticket.code, !.school = page[b].ticket.school,
                               !.at = page[b].ticket.at])
  /\ page' = [page EXCEPT ![b].call = c]

(* verifyEmail(): only the page that signed up can ask for it.             *)
Verify(b, c, secret) ==
  /\ Idle(b) /\ page[b].registered # None
  /\ Ask(b, c, [NoCall EXCEPT !.op = "verify", !.name = page[b].registered.name,
                               !.secret = secret])
  /\ page' = [page EXCEPT ![b].call = c]

(* login(), on a screen of its own: the sign-up's state is gone.           *)
Login(b, c, n) ==
  /\ Idle(b)
  /\ Ask(b, c, [NoCall EXCEPT !.op = "login", !.name = n])
  /\ page' = [page EXCEPT ![b].call = c, ![b].registered = None]

(* Another screen, whatever this one is waiting for.                       *)
Leave(b) ==
  /\ page[b].gate = "closed"
  /\ page[b].call # None \/ page[b].registered # None
  /\ page' = [page EXCEPT ![b] = Away(page[b])]
  /\ UNCHANGED <<limitVars, accountVars>>

(* registerForEvent goes over the socket, with the cookie of its opening.  *)
(* A page without a verified user watches instead: the request of such a   *)
(* page stands for that of any other client that has a cookie.             *)
Enter(b, c) ==
  /\ Idle(b) /\ ~page[b].entering
  /\ page[b].handshake # None \/ (page[b].user # None /\ page[b].user.verified)
  /\ Ask(b, c, [NoCall EXCEPT !.op = "enter", !.name = page[b].handshake,
                              !.promised = page[b].user # None /\ page[b].user.verified])
  /\ page' = [page EXCEPT ![b].entry = c, ![b].entering = TRUE, ![b].registered = None]

Reconnect(b) ==
  /\ Reopened(page[b]) # page[b]
  /\ page' = [page EXCEPT ![b] = Reopened(page[b])]
  /\ UNCHANGED <<limitVars, accountVars>>

(* A start of the server closes every socket.                              *)
RestartAll == Restart /\ page' = [b \in Browser |-> Reopened(page[b])]
-----------------------------------------------------------------------------
Known(p, user) == [p EXCEPT !.user = user, !.cookie = user.name]

Without(p, c) ==
  IF c = p.entry THEN [p EXCEPT !.entry = None, !.entering = FALSE]
  ELSE [p EXCEPT !.call = IF c = @ THEN None ELSE @, !.left = @ \ {c}]

(* What the page makes of an answer, per request; an error changes         *)
(* nothing.  Only a sign-up's own screen goes on to its verification; the  *)
(* others show the profile or the room, whichever screen that replaces.    *)
Accepted(p, c, op, answer) ==
  LET q == Without(p, c)
  IN  IF answer.status \notin {200, 201} THEN q ELSE
      CASE op = "locate"   -> [q EXCEPT !.gate = "matched", !.matched = answer.ticket]
        [] op = "register" -> [Known(q, answer.user) EXCEPT
                                 !.registered = IF p.call = c THEN answer.user ELSE @]
        [] op \in {"verify", "login"} -> Away(Known(q, answer.user))
        [] op = "enter"    -> Away(q)

Receive(b, c) ==
  /\ c \in Requests(page[b]) /\ calls[c].stage = "answered"
  /\ page' = [page EXCEPT ![b] = Accepted(page[b], c, calls[c].op, calls[c].answer)]
  /\ calls' = [calls EXCEPT ![c] = NoCall]
  /\ UNCHANGED <<limitVars, tables, seats, sent, edits>>

(* The connection breaks, or the gate's ten seconds are over: an error for *)
(* the page, while the request goes on.                                    *)
Lose(b, c) ==
  /\ c \in Requests(page[b]) \ {page[b].entry}
  /\ \E cookie \in Cookies(page[b], {c}) :
       page' = [page EXCEPT ![b] = [Without(page[b], c) EXCEPT !.cookie = cookie]]
  /\ UNCHANGED <<limitVars, accountVars>>

(* An answer that nobody waits for.                                        *)
Discard(c) ==
  /\ calls[c].stage = "answered" /\ \A b \in Browser : c \notin Requests(page[b])
  /\ calls' = [calls EXCEPT ![c] = NoCall]
  /\ UNCHANGED <<limitVars, tables, seats, sent, edits, page>>

Next ==
  \/ \E c \in Call : Step(c) /\ UNCHANGED page
  \/ \E k \in Code, s \in School \cup {None} : EditLink(k, s) /\ UNCHANGED page
  \/ RestartAll
  \/ Tick /\ UNCHANGED <<accountVars, page>>
  \/ \E b \in Browser :
       \/ \E k \in Code \cup {None} : Load(b, k)
       \/ IssueTicket(b) \/ PassGate(b) \/ ExitGate(b)
       \/ Leave(b) \/ Reconnect(b)
       \/ \E c \in Call :
            \/ Locate(b, c) \/ Enter(b, c) \/ Receive(b, c) \/ Lose(b, c)
            \/ \E n \in Name, e \in Email : Register(b, c, n, e)
            \/ \E secret \in Secret : Verify(b, c, secret)
            \/ \E n \in Name : Login(b, c, n)
  \/ \E c \in Call : Discard(c)

Spec == Init /\ [][Next]_vars
-----------------------------------------------------------------------------
(* What a browser keeps of an account is so in the database, however late  *)
(* it was answered: the account exists, is the one that was signed up      *)
(* (name, e-mail, school), and is verified if the browser says so.         *)
Agrees(user) ==
  user # None =>
    LET row == users[user.name]
    IN  row # None /\ row.email = user.email /\ row.school = user.school
        /\ (user.verified => row.verified)

BrowsersAgree ==
  \A b \in Browser :
    /\ Agrees(page[b].user) /\ Agrees(page[b].registered)
    /\ page[b].cookie # None => users[page[b].cookie] # None

(* A sign-up with a ticket is refused for its school only if the link was  *)
(* changed after the ticket was issued (ReferralSchoolGate, I 1744): a     *)
(* ticket is never for another school than its link's.                     *)
RefusalsExplained ==
  \A c \in Call :
    calls[c].op = "register" /\ calls[c].stage = "answered" /\ calls[c].answer.status = 403
      => calls[c].at < edits

(* Where the page of a verified user shows the button to take part ("with  *)
(* the verified ticket", EventHomeScreen 263), the server does not refuse  *)
(* the account.                                                            *)
EntryAsShown ==
  \A c \in Call :
    calls[c].op = "enter" /\ calls[c].stage = "answered" /\ calls[c].promised
      => calls[c].answer.status # 403
=============================================================================
