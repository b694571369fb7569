------------------------------ MODULE Accounts ------------------------------
(***************************************************************************)
(* Whose address an account has: signup, the proofs of an inbox by mailed  *)
(* links, linking an OAuth identity by its address, and the change of      *)
(* address that both inboxes confirm.  Sessions are left to AuthSessions;  *)
(* every refusal of _issue_pair inside one of these transactions rolls the *)
(* transaction back and is no step here.                                   *)
(***************************************************************************)
EXTENDS Naturals, FiniteSets

CONSTANTS
    Users,      \* rows of auth.users, as they are created
    Emails,
    NoEmail,    \* no row yet; no change pending
    Subjects,   \* identities at the OAuth provider
    NoUser,     \* an identity that is not linked
    Requests,   \* slots for requests of several statements
    MaxAsks     \* bound: changes of address asked for, for each account

ASSUME NoEmailAssumption == NoEmail \notin Emails

ASSUME NoUserAssumption == NoUser \notin Users

ASSUME MaxAsksAssumption == MaxAsks \in Nat

VARIABLES
    email,      \* the column; NoEmail while the row does not exist
    confirmed,  \* email_confirmed_at is not null
    hasPassword,\* encrypted_password is not null
    pending,    \* the column email_change
    bits,       \* email_change_confirm_status: the sides that confirmed
    tickets,    \* unused email_change_* tokens
    links,      \* other unused one-time tokens: whose, and mailed where
    identity,   \* auth.identities: the user a subject is linked to
    pc,         \* where a request is
    arg,        \* what it read: a user, a subject, and two addresses
    asks,       \* history: the changes of address committed for a user
    proven,     \* history: <<u, e>>: for u's account somebody proved inbox e
    clicked,    \* history: the tickets that were redeemed
    refused     \* history: users whose change ran into a taken address

rowVars == <<email, confirmed, hasPassword, pending, bits, tickets, links, identity>>
requestVars == <<pc, arg>>
historyVars == <<asks, proven, clicked, refused>>
vars == <<rowVars, requestVars, historyVars>>

Sides == {"current", "new"}

(***************************************************************************)
(* An email_change token: mailed to inbox, for the change of user to       *)
(* asked.  History: which of the user's requests made it, and whether the  *)
(* account's address moved after that request had read it.                 *)
(***************************************************************************)
Tickets ==
    [user : Users, side : Sides, inbox : Emails, asked : Emails, request : Nat, late : BOOLEAN]

Accounts == {u \in Users : email[u] # NoEmail}
Taken(e) == \E u \in Users : email[u] = e
NoArg ==
    [user |-> NoUser, subject |-> NoUser, from |-> NoEmail, to |-> NoEmail, late |-> FALSE]

Init ==
    /\ email = [u \in Users |-> NoEmail]
    /\ confirmed = [u \in Users |-> FALSE]
    /\ hasPassword = [u \in Users |-> FALSE]
    /\ pending = [u \in Users |-> NoEmail]
    /\ bits = [u \in Users |-> {}]
    /\ tickets = {} /\ links = {}
    /\ identity = [s \in Subjects |-> NoUser]
    /\ pc = [r \in Requests |-> "idle"]
    /\ arg = [r \in Requests |-> NoArg]
    /\ asks = [u \in Users |-> 0]
    /\ proven = {} /\ clicked = {} /\ refused = {}

-----------------------------------------------------------------------------
(* Creating accounts and proving inboxes.                                  *)

Create(u, e, pw, conf) ==
    /\ email[u] = NoEmail
    /\ ~Taken(e)
    /\ email' = [email EXCEPT ![u] = e]
    /\ hasPassword' = [hasPassword EXCEPT ![u] = pw]
    /\ confirmed' = [confirmed EXCEPT ![u] = conf]

\* mutant of Signup: the address counts as proven from the start
Signup_StampsConfirmed(u, e) ==
    /\ Create(u, e, TRUE, TRUE)
    /\ UNCHANGED <<pending, bits, tickets, links, identity, requestVars, historyVars>>

(***************************************************************************)
(* signup: the unique index decides, whatever the select before it saw.    *)
(***************************************************************************)
Signup(u, e) ==
    /\ Create(u, e, TRUE, FALSE)
    /\ UNCHANGED <<pending, bits, tickets, links, identity, requestVars, historyVars>>

\* A consumer pre-creates a row without a password.
Invite(u, e) ==
    /\ Create(u, e, FALSE, FALSE)
    /\ UNCHANGED <<pending, bits, tickets, links, identity, requestVars, historyVars>>

MailLink(u) ==
    /\ u \in Accounts
    /\ links' = links \cup {[user |-> u, inbox |-> email[u]]}
    /\ UNCHANGED <<email, confirmed, hasPassword, pending, bits, tickets, identity,
                   requestVars, historyVars>>

(***************************************************************************)
(* verify_magic_link and verify_signup_confirm take the token alone; otp   *)
(* and recover also compare the address.  recover sets a password.         *)
(***************************************************************************)
VerifyLink(l, setsPassword) ==
    /\ l \in links
    /\ setsPassword => email[l.user] = l.inbox
    /\ links' = links \ {l}
    /\ confirmed' = [confirmed EXCEPT ![l.user] = TRUE]
    /\ hasPassword' = [hasPassword EXCEPT ![l.user] = @ \/ setsPassword]
    /\ proven' = proven \cup {<<l.user, l.inbox>>}
    /\ UNCHANGED <<email, pending, bits, tickets, identity, requestVars, asks, clicked, refused>>

Expire ==
    /\ \/ \E l \in links : links' = links \ {l} /\ UNCHANGED tickets
       \/ \E t \in tickets : tickets' = tickets \ {t} /\ UNCHANGED links
    /\ UNCHANGED <<email, confirmed, hasPassword, pending, bits, identity, requestVars,
                   historyVars>>

-----------------------------------------------------------------------------
(* oauth_finish, from the profile the provider returned: subject s, whose  *)
(* address e the provider vouches for.                                     *)

Goto(r, label, a) ==
    /\ pc' = [pc EXCEPT ![r] = label]
    /\ arg' = [arg EXCEPT ![r] = a]

\* An account whose address was never proven, with a password.
Conflict(u) == ~confirmed[u] /\ hasPassword[u]

(***************************************************************************)
(* The statements before the transaction: no identity yet, no conflict.    *)
(***************************************************************************)
OAuthCheck(r, s, e) ==
    /\ pc[r] = "idle"
    /\ identity[s] = NoUser
    /\ \A u \in Users : email[u] = e => ~Conflict(u)
    /\ Goto(r, "transaction", [NoArg EXCEPT !.subject = s, !.to = e])
    /\ UNCHANGED <<rowVars, historyVars>>

\* mutant of OAuthRead: the conflict is not looked for again
OAuthRead_NoRecheck(r, u) ==
    /\ pc[r] = "transaction"
    /\ IF Taken(arg[r].to) THEN email[u] = arg[r].to ELSE email[u] = NoEmail
    /\ Goto(r, IF Taken(arg[r].to) THEN "link" ELSE "insert", [arg[r] EXCEPT !.user = u])
    /\ UNCHANGED <<rowVars, historyVars>>

(***************************************************************************)
(* The select inside the transaction, and the check on what it found.      *)
(***************************************************************************)
OAuthRead(r, u) ==
    /\ pc[r] = "transaction"
    /\ IF Taken(arg[r].to) THEN email[u] = arg[r].to ELSE email[u] = NoEmail
    /\ CASE email[u] = NoEmail -> Goto(r, "insert", arg[r])
         [] email[u] # NoEmail /\ Conflict(u) -> Goto(r, "idle", NoArg)
         [] OTHER -> Goto(r, "link", [arg[r] EXCEPT !.user = u])
    /\ UNCHANGED <<rowVars, historyVars>>

(***************************************************************************)
(* "on conflict do nothing": an identity linked meanwhile stays as it is.  *)
(***************************************************************************)
LinkIdentity(r, u) ==
    /\ identity' = IF identity[arg[r].subject] = NoUser
                   THEN [identity EXCEPT ![arg[r].subject] = u] ELSE identity
    /\ proven' = proven \cup {<<u, arg[r].to>>}
    /\ Goto(r, "idle", NoArg)
    /\ UNCHANGED <<pending, bits, tickets, links, asks, clicked, refused>>

(***************************************************************************)
(* No row was seen: insert one.  The index refuses when somebody else did. *)
(***************************************************************************)
OAuthInsert(r, u) ==
    /\ pc[r] = "insert"
    /\ IF Taken(arg[r].to)
       THEN /\ Goto(r, "idle", NoArg)
            /\ UNCHANGED <<rowVars, historyVars>>
       ELSE Create(u, arg[r].to, FALSE, TRUE) /\ LinkIdentity(r, u)

(***************************************************************************)
(* The row that was seen is marked and linked.  It is not locked between   *)
(* the select and here.                                                    *)
(***************************************************************************)
OAuthLink(r, u) ==
    /\ pc[r] = "link"
    /\ u = arg[r].user
    /\ confirmed' = [confirmed EXCEPT ![u] = TRUE]
    /\ LinkIdentity(r, u)
    /\ UNCHANGED <<email, hasPassword>>

-----------------------------------------------------------------------------
(* PUT /user with an email, and the confirmation by both inboxes.          *)

AskReads(r, u, from, e) ==
    /\ pc[r] = "idle"
    /\ u \in Accounts
    /\ hasPassword[u] \/ confirmed[u]
    /\ ~Taken(e)
    /\ Goto(r, "ask", [NoArg EXCEPT !.user = u, !.from = from, !.to = e])
    /\ UNCHANGED <<rowVars, historyVars>>

\* mutant of AskRead: the select returns the id alone
AskRead_IdOnly(r, u, e) == AskReads(r, u, NoEmail, e)

(***************************************************************************)
(* The statements before the transaction.  The bearer token is one that a  *)
(* password or the proof of an inbox gave.                                 *)
(***************************************************************************)
AskRead(r, u, e) == AskReads(r, u, email[u], e)

Ticket(r, side) ==
    [user |-> arg[r].user, side |-> side, asked |-> arg[r].to,
     inbox |-> IF side = "new" THEN arg[r].to ELSE arg[r].from,
     request |-> asks[arg[r].user] + 1, late |-> arg[r].late]

AskWith(r, keep, status) ==
    /\ pc[r] = "ask"
    /\ asks[arg[r].user] < MaxAsks
    /\ asks' = [asks EXCEPT ![arg[r].user] = @ + 1]
    /\ pending' = [pending EXCEPT ![arg[r].user] = arg[r].to]
    /\ bits' = [bits EXCEPT ![arg[r].user] = status]
    /\ tickets' = {t \in tickets : t.user # arg[r].user \/ t \in keep}
                     \cup {Ticket(r, "current"), Ticket(r, "new")}
    /\ Goto(r, "idle", NoArg)
    /\ UNCHANGED <<email, confirmed, hasPassword, links, identity, proven, clicked, refused>>

\* mutant of Ask: superseded tokens stay good
Ask_KeepsTickets(r) == AskWith(r, tickets, {})

\* mutant of Ask: the bits of the superseded request stay set
Ask_KeepsStatus(r) == AskWith(r, {}, bits[arg[r].user])

(***************************************************************************)
(* The transaction of request_email_change.  The old address is the one    *)
(* read before it began.                                                   *)
(***************************************************************************)
Ask(r) == AskWith(r, {}, {})

Confirm(t) ==
    /\ tickets' = tickets \ {t}
    /\ clicked' = clicked \cup {t}
    /\ proven' = proven \cup {<<t.user, t.inbox>>}

(***************************************************************************)
(* One side confirms and the other is still awaited.                       *)
(***************************************************************************)
VerifyOneSide(t) ==
    /\ t \in tickets
    /\ pending[t.user] # NoEmail
    /\ bits[t.user] \cup {t.side} # Sides
    /\ bits' = [bits EXCEPT ![t.user] = @ \cup {t.side}]
    /\ Confirm(t)
    /\ UNCHANGED <<email, confirmed, hasPassword, pending, links, identity, requestVars, asks,
                   refused>>

BothSides(t) == bits[t.user] \cup {t.side} = Sides

\* Somebody else has the address: "where email = $1 and id != $2".
TakenFrom(u) == \E w \in Users \ {u} : email[w] = pending[u]

\* History: a request that has read the address of u reads it before this.
Overtaken(u) ==
    [r \in Requests |->
        IF pc[r] = "ask" /\ arg[r].user = u
        THEN [arg[r] EXCEPT !.late = @ \/ email[u] # pending[u]] ELSE arg[r]]

VerifyApplies(t) ==
    /\ t \in tickets
    /\ pending[t.user] # NoEmail
    /\ BothSides(t)
    /\ ~TakenFrom(t.user)
    /\ arg' = Overtaken(t.user)
    /\ email' = [email EXCEPT ![t.user] = pending[t.user]]
    /\ confirmed' = [confirmed EXCEPT ![t.user] = TRUE]
    /\ pending' = [pending EXCEPT ![t.user] = NoEmail]
    /\ bits' = [bits EXCEPT ![t.user] = {}]
    /\ Confirm(t)
    /\ UNCHANGED <<hasPassword, links, identity, pc, asks, refused>>

(***************************************************************************)
(* The address was taken meanwhile.  The update that clears the request    *)
(* is followed by a raise inside the transaction: nothing of it remains.   *)
(***************************************************************************)
VerifyTaken(t) ==
    /\ t \in tickets
    /\ pending[t.user] # NoEmail
    /\ BothSides(t)
    /\ TakenFrom(t.user)
    /\ refused' = refused \cup {t.user}
    /\ UNCHANGED <<rowVars, requestVars, asks, proven, clicked>>

-----------------------------------------------------------------------------

Next ==
    \/ \E u \in Users, e \in Emails : Signup(u, e) \/ Invite(u, e)
    \/ \E u \in Users : MailLink(u)
    \/ \E l \in links : \E setsPassword \in BOOLEAN : VerifyLink(l, setsPassword)
    \/ Expire
    \/ \E r \in Requests :
        \/ \E s \in Subjects, e \in Emails : OAuthCheck(r, s, e)
        \/ \E u \in Users : OAuthRead(r, u) \/ OAuthInsert(r, u) \/ OAuthLink(r, u)
        \/ \E u \in Users, e \in Emails : AskRead(r, u, e)
        \/ Ask(r)
    \/ \E t \in tickets : VerifyOneSide(t) \/ VerifyApplies(t) \/ VerifyTaken(t)

Spec == Init /\ [][Next]_vars

-----------------------------------------------------------------------------
(* Properties.                                                             *)

TypeOK ==
    /\ email \in [Users -> Emails \cup {NoEmail}]
    /\ confirmed \in [Users -> BOOLEAN]
    /\ hasPassword \in [Users -> BOOLEAN]
    /\ pending \in [Users -> Emails \cup {NoEmail}]
    /\ bits \in [Users -> SUBSET Sides]
    /\ tickets \subseteq Tickets
    /\ links \subseteq [user : Users, inbox : Emails]
    /\ identity \in [Subjects -> Users \cup {NoUser}]
    /\ pc \in [Requests -> {"idle", "transaction", "insert", "link", "ask"}]
    /\ asks \in [Users -> 0..MaxAsks]
    /\ proven \subseteq Users \X Emails
    /\ clicked \subseteq Tickets
    /\ refused \subseteq Users

(***************************************************************************)
(* email_confirmed_at "means inbox ownership proven": of the address the   *)
(* account has now, however often it changed and by whichever flow.        *)
(***************************************************************************)
ConfirmedMeansProven == \A u \in Users : confirmed[u] => <<u, email[u]>> \in proven

(***************************************************************************)
(* request_email_change: "the change only applies once each side has       *)
(* verified".  An account's address moves when the inbox it moves to and   *)
(* the inbox of the address it has until then have both redeemed a ticket  *)
(* of one and the same request, the last that was made.  One order breaks  *)
(* that: a request reads the address, an earlier one is applied, and only  *)
(* then the first one's transaction mails its "current" ticket, to the     *)
(* address that was.  Such a ticket is late, and nothing else is excused.  *)
(***************************************************************************)
AgreedTo(u, new) ==
    \E c, n \in clicked' :
        /\ c.user = u /\ c.side = "current" /\ c.request = asks[u] /\ c.asked = new
        /\ n.user = u /\ n.side = "new" /\ n.request = asks[u] /\ n.inbox = new
        /\ c.inbox = email[u] \/ c.late

BothInboxesAgreed ==
    [][\A u \in Accounts : email'[u] # email[u] => AgreedTo(u, email'[u])]_vars

(***************************************************************************)
(* What can still be redeemed belongs to the pending request, not to an    *)
(* earlier one for the same address, and to a side that has not confirmed. *)
(***************************************************************************)
TicketsAreCurrent ==
    \A t \in tickets :
        /\ t.asked = pending[t.user] /\ t.request = asks[t.user]
        /\ t.side \notin bits[t.user]

(***************************************************************************)
(* The pre-hijack defence of oauth_finish: no identity is linked to an     *)
(* account that has a password and never proved its address, also when     *)
(* that account was created while the callback was under way.              *)
(***************************************************************************)
NoUnprovenLink ==
    [][\A s \in Subjects : identity'[s] # identity[s] =>
        email[identity'[s]] = NoEmail \/ ~Conflict(identity'[s])]_vars

(***************************************************************************)
(* verify_email_change: "clear the stale request rather than leave it      *)
(* half-confirmed forever".                                                *)
(***************************************************************************)
TakenClearsRequest ==
    [][\A u \in refused' \ refused : pending'[u] = NoEmail]_vars

=============================================================================
