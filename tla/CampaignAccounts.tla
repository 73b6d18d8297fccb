-------------------------- MODULE CampaignAccounts --------------------------
(***************************************************************************)
(* The server's side of the campaign: accounts, referral links and their   *)
(* visits (server/campaignDatabase.ts and the /api/campaign handlers of    *)
(* server/index.ts).  A request is a sequence of statements, each of them  *)
(* atomic in the database, with other requests between them.               *)
(***************************************************************************)
EXTENDS RateLimit, FiniteSetsExt

CONSTANTS Name, Email, School, Code, Secret,  \* what requests can carry
          Browser, Visitor,  \* visitorFingerprint: browser -> address and agent
          Call,              \* the requests that can be under way at once
          CodeTTL,           \* emailVerificationExpiresInSec
          EnvBinding,        \* CAMPAIGN_REFERRAL_WHITELIST: code -> school or None
          MaxSent, MaxEdits, \* bounds on the requests and the changes of links
          None

Scope == {"register", "verify", "login"}
ASSUME KeyAssumption == Scope \X {Visitor[b] : b \in Browser} \X Name \subseteq Key

(* from is a history, and no column: the visitor who signed up.            *)
UserRow == [name : Name, email : Email, school : School, referredBy : Code \cup {None},
            from : {Visitor[b] : b \in Browser},
            secret : Secret \cup {None}, expires : Nat \cup {None}, verified : BOOLEAN]
User    == [name : Name, email : Email, school : School, verified : BOOLEAN]
Ticket  == [code : Code, school : School, at : Nat]
Answer  == [status : Nat, user : User \cup {None}, ticket : Ticket \cup {None}]

ASSUME CampaignAssumption ==
  /\ EnvBinding \in [Code -> School \cup {None}]
  /\ CodeTTL \in Nat
  /\ None \notin Name \cup Email \cup School \cup Code \cup Call
  /\ None \notin UserRow \cup User \cup Ticket \cup Answer
  /\ None \notin Scope \cup {"locate", "enter", "insert", "pick", "convert", "mail", "answered"}

VARIABLES
  users,      \* campaign_users: name -> row or None
  events,     \* campaign_referral_events, oldest first
  whitelist,  \* campaign_referral_whitelist: code -> school or None
  calls,      \* the requests under way
  seats,      \* the accounts that were given a place in an event room
  sent,       \* history: requests made
  edits       \* history: changes of the whitelist

accountVars == <<users, events, whitelist, calls, seats, sent, edits>>
tables      == <<users, events, whitelist>>

NoCall == [op |-> None, by |-> None, name |-> None, email |-> None, school |-> None, code |-> None,
           secret |-> None, at |-> None, picked |-> None, promised |-> FALSE, stage |-> None,
           answer |-> None]

Failed == [status |-> 500, user |-> None, ticket |-> None]

(* A row has its code until it is verified; ids are abstracted by names,   *)
(* which no statement changes or frees.                                    *)
Row(n, e, s, k, v, secret) ==
  [name |-> n, email |-> e, school |-> s, referredBy |-> k, from |-> v,
   secret |-> secret, expires |-> now + CodeTTL, verified |-> FALSE]

PublicUser(n) ==
  [name |-> n, email |-> users[n].email, school |-> users[n].school,
   verified |-> users[n].verified]

AccountsInit ==
  /\ LimitInit
  /\ users = [n \in Name |-> None]
  /\ events = <<>>
  /\ whitelist = EnvBinding
  /\ calls = [c \in Call |-> NoCall]
  /\ seats = {} /\ sent = 0 /\ edits = 0
-----------------------------------------------------------------------------
At(c, op, stage) == calls[c].op = op /\ calls[c].stage = stage
GoTo(c, stage)   == calls' = [calls EXCEPT ![c].stage = stage]

(* Of an answer only what a page does with it is kept: the status is       *)
(* 403 for a link that is not the school's and for an account that may not *)
(* enter; 500 stands for every other error.                                *)
Answered(c, status, user, ticket) ==
  [NoCall EXCEPT !.op = calls[c].op, !.stage = "answered", !.promised = calls[c].promised,
                 !.at = IF status = 403 THEN calls[c].at ELSE None,
                 !.answer = [status |-> status, user |-> user, ticket |-> ticket]]

AnswerWith(c, status, user, ticket) ==
  calls' = [calls EXCEPT ![c] = Answered(c, status, user, ticket)]

Refuse(c, status) == AnswerWith(c, status, None, None)
(* A request arrives, to wait for its first statement; the limited ones    *)
(* are counted before anything is read.                                    *)
KeyOf(request) == <<request.op, Visitor[request.by], request.name>>

FirstStage(request) ==
  CASE request.op = "locate"   -> "whitelist"
    [] request.op = "register" -> IF request.code = None THEN "insert" ELSE "whitelist"
    [] OTHER                   -> "row"

Arrive(c, request) ==
  /\ calls[c] = NoCall
  /\ sent < MaxSent
  /\ sent' = sent + 1
  /\ IF request.op \in Scope THEN Attempt(KeyOf(request)) ELSE UNCHANGED limitVars
  /\ calls' = [calls EXCEPT ![c] =
       IF request.op \in Scope /\ Refuses(KeyOf(request))
       THEN [NoCall EXCEPT !.op = request.op, !.stage = "answered", !.answer = Failed]
       ELSE [request EXCEPT !.stage = FirstStage(request)]]
  /\ UNCHANGED <<tables, seats, edits>>
-----------------------------------------------------------------------------
(* Faulty variant: the ticket is of whichever school is near.              *)
ReadLinkOfAnySchool(c) ==
  /\ At(c, "locate", "whitelist")
  /\ \E s \in School :
       IF whitelist[calls[c].code] = None THEN Refuse(c, 403)
       ELSE calls' = [calls EXCEPT ![c].stage = "record", ![c].at = edits, ![c].school = s]
  /\ UNCHANGED <<limitVars, tables, seats, sent, edits>>

(* A visit of a link is recorded if the link is in the whitelist and the   *)
(* visitor is near its school: the ticket names it.  (referral-visit does  *)
(* the same without a location; here, an answer nobody waits for.)         *)
ReadLink(c) ==
  /\ At(c, "locate", "whitelist")
  /\ \E near \in BOOLEAN :
       IF whitelist[calls[c].code] = None \/ ~near THEN Refuse(c, 403)
       ELSE calls' = [calls EXCEPT ![c].stage = "record", ![c].at = edits,
                                   ![c].school = whitelist[calls[c].code]]
  /\ UNCHANGED <<limitVars, tables, seats, sent, edits>>

TicketOf(c) == [code |-> calls[c].code, school |-> calls[c].school, at |-> calls[c].at]

RecordVisit(c) ==
  /\ At(c, "locate", "record")
  /\ events' = Append(events, [code |-> calls[c].code, visitor |-> Visitor[calls[c].by],
                               user |-> None])
  /\ AnswerWith(c, 200, None, TicketOf(c))
  /\ UNCHANGED <<limitVars, users, whitelist, seats, sent, edits>>
-----------------------------------------------------------------------------
(* Sign-up: the link must be of the school now; then the row, which the    *)
(* unique indexes of name and e-mail guard; then the visit it came from;   *)
(* then the mail, whose failure is not an error.                           *)
CheckLink(c) ==
  /\ At(c, "register", "whitelist")
  /\ IF whitelist[calls[c].code] # calls[c].school THEN Refuse(c, 403) ELSE GoTo(c, "insert")
  /\ UNCHANGED <<limitVars, tables, seats, sent, edits>>

Taken(n, e) == \E m \in Name : users[m] # None /\ (m = n \/ users[m].email = e)

CreateUser(c) ==
  /\ At(c, "register", "insert")
  /\ IF Taken(calls[c].name, calls[c].email)
     THEN Refuse(c, 500) /\ UNCHANGED users
     ELSE \E secret \in Secret :
            /\ users' = [users EXCEPT ![calls[c].name] =
                 Row(calls[c].name, calls[c].email, calls[c].school, calls[c].code,
                     Visitor[calls[c].by], secret)]
            /\ GoTo(c, IF calls[c].code # None THEN "pick" ELSE "mail")
  /\ UNCHANGED <<limitVars, events, whitelist, seats, sent, edits>>

(* Faulty variants: a visit of the link by anybody; any visit of the       *)
(* visitor.                                                                *)
UnconvertedOfAnyone(c) ==
  {i \in DOMAIN events : events[i].code = calls[c].code /\ events[i].user = None}

UnconvertedOfAnyLink(c) ==
  {i \in DOMAIN events : events[i].user = None /\ events[i].visitor = Visitor[calls[c].by]}

(* The UPDATE of attachReferralConversion finds the latest visit without   *)
(* an account in its own snapshot, and then locks and writes that row.     *)
Unconverted(c) ==
  {i \in DOMAIN events : events[i].code = calls[c].code /\ events[i].user = None
                         /\ events[i].visitor = Visitor[calls[c].by]}

PickVisit(c) ==
  /\ At(c, "register", "pick")
  /\ calls' = [calls EXCEPT ![c].stage = IF Unconverted(c) = {} THEN "mail" ELSE "convert",
                            ![c].picked = IF Unconverted(c) = {} THEN None ELSE Max(Unconverted(c))]
  /\ UNCHANGED <<limitVars, tables, seats, sent, edits>>

Convert(c) ==
  /\ At(c, "register", "convert")
  /\ events' = [events EXCEPT ![calls[c].picked].user = calls[c].name]
  /\ calls' = [calls EXCEPT ![c].stage = "mail", ![c].picked = None]
  /\ UNCHANGED <<limitVars, users, whitelist, seats, sent, edits>>

(* What reaches the mailbox is out of sight: any code may be typed later.  *)
SendMail(c) ==
  /\ At(c, "register", "mail")
  /\ AnswerWith(c, 201, [PublicUser(calls[c].name) EXCEPT !.verified = FALSE], None)
  /\ UNCHANGED <<limitVars, tables, seats, sent, edits>>
-----------------------------------------------------------------------------
(* One UPDATE verifies: not yet verified, this code, not expired.          *)
Verifiable(n, secret) ==
  /\ users[n] # None
  /\ ~users[n].verified
  /\ users[n].secret = secret
  /\ users[n].expires >= now

(* Faulty variant: the answer does not depend on the row that was updated. *)
VerifyEmailAnyway(c) ==
  /\ At(c, "verify", "row") /\ users[calls[c].name] # None
  /\ LET n == calls[c].name
     IN  /\ users' = IF ~Verifiable(n, calls[c].secret) THEN users
                     ELSE [users EXCEPT ![n] = [@ EXCEPT !.verified = TRUE, !.secret = None,
                                                         !.expires = None]]
         /\ AnswerWith(c, 200, [PublicUser(n) EXCEPT !.verified = TRUE], None)
  /\ UNCHANGED <<limitVars, events, whitelist, seats, sent, edits>>

VerifyEmail(c) ==
  /\ At(c, "verify", "row")
  /\ LET n == calls[c].name
     IN  IF Verifiable(n, calls[c].secret)
         THEN /\ users' = [users EXCEPT ![n] = [@ EXCEPT !.verified = TRUE, !.secret = None,
                                                        !.expires = None]]
              /\ AnswerWith(c, 200, [PublicUser(n) EXCEPT !.verified = TRUE], None)
         ELSE Refuse(c, 500) /\ UNCHANGED users
  /\ UNCHANGED <<limitVars, events, whitelist, seats, sent, edits>>

(* A login needs the row and its password; whether it is verified or not.  *)
LogIn(c) ==
  /\ At(c, "login", "row")
  /\ \E right \in BOOLEAN :
       IF users[calls[c].name] # None /\ right
       THEN AnswerWith(c, 200, PublicUser(calls[c].name), None)
       ELSE Refuse(c, 500)
  /\ UNCHANGED <<limitVars, tables, seats, sent, edits>>

(* Faulty variant: the cookie of a sign-up is enough.                      *)
EnterEventUnverified(c) ==
  /\ At(c, "enter", "row")
  /\ IF calls[c].name # None /\ users[calls[c].name] # None
     THEN seats' = seats \cup {calls[c].name} /\ AnswerWith(c, 200, None, None)
     ELSE Refuse(c, 403) /\ UNCHANGED seats
  /\ UNCHANGED <<limitVars, tables, sent, edits>>

(* A place in an event room is for the account of the cookie, once         *)
(* verified: what the page believes is not asked.                          *)
EnterEvent(c) ==
  /\ At(c, "enter", "row")
  /\ IF calls[c].name # None /\ users[calls[c].name] # None /\ users[calls[c].name].verified
     THEN seats' = seats \cup {calls[c].name} /\ AnswerWith(c, 200, None, None)
     ELSE Refuse(c, 403) /\ UNCHANGED seats
  /\ UNCHANGED <<limitVars, tables, sent, edits>>
-----------------------------------------------------------------------------
(* A statement fails or its answer is lost: the handler throws, and what   *)
(* was written before stays.  At "mail" the statement before it was done.  *)
FailRequest(c) ==
  /\ calls[c].stage \in {"whitelist", "record", "insert", "pick", "convert", "row", "mail"}
  /\ Refuse(c, 500)
  /\ UNCHANGED <<limitVars, tables, seats, sent, edits>>

(* The administrator binds a link to a school or deletes it.               *)
EditLink(k, s) ==
  /\ edits < MaxEdits /\ whitelist[k] # s
  /\ whitelist' = [whitelist EXCEPT ![k] = s]
  /\ edits' = edits + 1
  /\ UNCHANGED <<limitVars, users, events, calls, seats, sent>>

(* A start of the server forgets the buckets and the requests, and binds   *)
(* the links of its environment again, whatever the administrator did.     *)
Restart ==
  /\ Forget
  /\ whitelist' = [k \in Code |-> IF EnvBinding[k] = None THEN whitelist[k] ELSE EnvBinding[k]]
  /\ edits' = IF whitelist' = whitelist THEN edits ELSE edits + 1
  /\ calls' = [c \in Call |-> IF calls[c] = NoCall THEN NoCall ELSE Answered(c, 500, None, None)]
  /\ UNCHANGED <<users, events, seats, sent>>

Step(c) ==
  \/ ReadLink(c) \/ RecordVisit(c)
  \/ CheckLink(c) \/ CreateUser(c) \/ PickVisit(c) \/ Convert(c) \/ SendMail(c)
  \/ VerifyEmail(c) \/ LogIn(c) \/ EnterEvent(c) \/ FailRequest(c)
-----------------------------------------------------------------------------
(* Conversions are counted: a visit is attributed to an account that came  *)
(* by the link of the visit and was made by its visitor, and no account    *)
(* counts for two visits.                                                  *)
(* (The converse fails: of two sign-ups that pick the same visit, the last *)
(* one overwrites the first, which then counts for none.)                  *)
ConversionsAttributed ==
  \A i \in DOMAIN events :
    LET n == events[i].user
    IN  n # None => /\ users[n] # None /\ users[n].referredBy = events[i].code
                    /\ users[n].from = events[i].visitor
                    /\ \A j \in DOMAIN events : events[j].user = n => j = i

(* A place in an event room is only ever held by a verified account, with  *)
(* requests, retries and restarts in any order (event:register).           *)
SeatsVerified == \A n \in seats : users[n] # None /\ users[n].verified
=============================================================================
