--------------------------- MODULE AccountsProofs ---------------------------
(***************************************************************************)
(* Proofs about Accounts, for any users, addresses, subjects and requests. *)
(***************************************************************************)
EXTENDS Accounts, TLAPS

-----------------------------------------------------------------------------
(* The inductive invariant.                                                *)

Args == [user : Users \cup {NoUser}, subject : Subjects \cup {NoUser},
         from : Emails \cup {NoEmail}, to : Emails \cup {NoEmail}, late : BOOLEAN]

\* What a request has read is of its type once it has read it.
ArgsOK ==
    /\ arg \in [Requests -> Args]
    /\ \A r \in Requests :
        /\ pc[r] # "idle" => arg[r].to \in Emails
        /\ pc[r] \in {"transaction", "insert", "link"} => arg[r].subject \in Subjects
        /\ pc[r] \in {"link", "ask"} => arg[r].user \in Users
        /\ pc[r] = "ask" => arg[r].from \in Emails

\* A request has the address of its account, unless it was overtaken.
AsksAreFresh ==
    \A r \in Requests : pc[r] = "ask" => arg[r].from = email[arg[r].user] \/ arg[r].late

\* A ticket is in the inbox of its side, unless it is late.
Placed(t) ==
    /\ t.side = "new" => t.inbox = t.asked
    /\ t.side = "current" => t.inbox = email[t.user] \/ t.late

\* A side of a user's change can be redeemed with one ticket, in its inbox.
OneTicketEach ==
    /\ \A s, t \in tickets : s.user = t.user /\ s.side = t.side => s = t
    /\ \A t \in tickets : Placed(t)

\* A side that has confirmed did so with a ticket of the pending request.
BitsAreClicked ==
    \A u \in Users : \A side \in bits[u] :
        /\ \E t \in clicked :
            /\ t.user = u /\ t.side = side
            /\ t.asked = pending[u] /\ t.request = asks[u]
            /\ Placed(t)
        /\ side = "new" => <<u, pending[u]>> \in proven

\* Whatever address u gets after its first one has been proven.
Vouched(u, e) == email[u] = e \/ <<u, email[u]>> \in proven

LinksAreVouched == \A l \in links : Vouched(l.user, l.inbox)

\* The row that oauth_finish found has no conflict until it is linked.
FoundIsLinkable ==
    \A r \in Requests : pc[r] = "link" =>
        /\ email[arg[r].user] # NoEmail
        /\ Vouched(arg[r].user, arg[r].to)
        /\ confirmed[arg[r].user] \/ ~hasPassword[arg[r].user]

ChangeInv == TicketsAreCurrent /\ OneTicketEach /\ BitsAreClicked
ProofInv == ConfirmedMeansProven /\ LinksAreVouched /\ FoundIsLinkable
IInv == TypeOK /\ ArgsOK /\ AsksAreFresh /\ ChangeInv /\ ProofInv

USE NoEmailAssumption, NoUserAssumption, MaxAsksAssumption DEF rowVars, requestVars, historyVars

\* Nothing is known of a user who has no row yet.
LEMMA CreateIsFirst ==
  ASSUME IInv, NEW u \in Users, email[u] = NoEmail
  PROVE  /\ \A x \in Emails : ~Vouched(u, x)
         /\ \A l \in links : l.user # u
         /\ \A r \in Requests : pc[r] = "link" => arg[r].user # u
<1>1. \A x \in Emails : ~Vouched(u, x)
  BY DEF IInv, TypeOK, Vouched
<1>2. \A l \in links : l.user # u
  BY <1>1 DEF IInv, TypeOK, ProofInv, LinksAreVouched
<1>3. \A r \in Requests : pc[r] = "link" => arg[r].user # u
  BY DEF IInv, ProofInv, FoundIsLinkable
<1> QED
  BY <1>1, <1>2, <1>3

LEMMA SignupStep ==
  ASSUME IInv, NEW u \in Users, NEW e \in Emails, Signup(u, e)
  PROVE  IInv'
<1>1. TypeOK'
  BY DEF IInv, TypeOK, ArgsOK, Args, Tickets, Sides, Placed, Create, Signup
<1>2. ArgsOK'
  BY DEF IInv, TypeOK, ArgsOK, Args, Create, Signup
<1>3. ChangeInv'
  BY DEF IInv, TypeOK, ArgsOK, Args, Tickets, Sides, Placed, ChangeInv,
     TicketsAreCurrent, OneTicketEach, BitsAreClicked, Create, Signup
<1>4. ProofInv'
  <2>1. ConfirmedMeansProven'
    BY DEF Signup, Create, IInv, TypeOK, ProofInv, ConfirmedMeansProven
  <2>2. LinksAreVouched' /\ FoundIsLinkable'
    BY CreateIsFirst
    DEF Signup, Create, IInv, TypeOK, ArgsOK, ProofInv, LinksAreVouched, FoundIsLinkable, Vouched
  <2> QED
    BY <2>1, <2>2 DEF ProofInv
<1>5. AsksAreFresh'
  BY DEF IInv, TypeOK, ArgsOK, AsksAreFresh, Args, Create, Signup
<1> QED
  BY <1>1, <1>2, <1>3, <1>4, <1>5 DEF IInv

LEMMA InviteStep ==
  ASSUME IInv, NEW u \in Users, NEW e \in Emails, Invite(u, e)
  PROVE  IInv'
<1>1. TypeOK'
  BY DEF IInv, TypeOK, ArgsOK, Args, Tickets, Sides, Placed, Create, Invite
<1>2. ArgsOK'
  BY DEF IInv, TypeOK, ArgsOK, Args, Create, Invite
<1>3. ChangeInv'
  BY DEF IInv, TypeOK, ArgsOK, Args, Tickets, Sides, Placed, ChangeInv,
     TicketsAreCurrent, OneTicketEach, BitsAreClicked, Create, Invite
<1>4. ProofInv'
  <2>1. ConfirmedMeansProven'
    BY DEF Invite, Create, IInv, TypeOK, ProofInv, ConfirmedMeansProven
  <2>2. LinksAreVouched' /\ FoundIsLinkable'
    BY CreateIsFirst
    DEF Invite, Create, IInv, TypeOK, ArgsOK, ProofInv, LinksAreVouched, FoundIsLinkable, Vouched
  <2> QED
    BY <2>1, <2>2 DEF ProofInv
<1>5. AsksAreFresh'
  BY DEF IInv, TypeOK, ArgsOK, AsksAreFresh, Args, Create, Invite
<1> QED
  BY <1>1, <1>2, <1>3, <1>4, <1>5 DEF IInv

LEMMA MailLinkStep ==
  ASSUME IInv, NEW u \in Users, MailLink(u)
  PROVE  IInv'
<1>1. TypeOK'
  BY DEF IInv, TypeOK, ArgsOK, Args, Tickets, Sides, Placed, Accounts, MailLink
<1>2. ArgsOK'
  BY DEF IInv, TypeOK, ArgsOK, Args, Accounts, MailLink
<1>3. ChangeInv'
  BY DEF IInv, TypeOK, ArgsOK, Args, Tickets, Sides, Placed, ChangeInv,
     TicketsAreCurrent, OneTicketEach, BitsAreClicked, Accounts, MailLink
<1>4. ProofInv'
  BY DEF IInv, TypeOK, ArgsOK, Args, Tickets, Sides, Placed, ChangeInv,
     TicketsAreCurrent, OneTicketEach, BitsAreClicked, ProofInv,
     ConfirmedMeansProven, LinksAreVouched, FoundIsLinkable, Vouched, Accounts,
     MailLink
<1>5. AsksAreFresh'
  BY DEF IInv, TypeOK, ArgsOK, AsksAreFresh, Args, Accounts, MailLink
<1> QED
  BY <1>1, <1>2, <1>3, <1>4, <1>5 DEF IInv

LEMMA VerifyLinkStep ==
  ASSUME IInv, NEW l \in links, NEW b \in BOOLEAN, VerifyLink(l, b)
  PROVE  IInv'
<1>1. TypeOK'
  BY DEF IInv, TypeOK, ArgsOK, Args, Tickets, Sides, Placed, VerifyLink
<1>2. ArgsOK'
  BY DEF IInv, TypeOK, ArgsOK, Args, VerifyLink
<1>3. ChangeInv'
  BY DEF IInv, TypeOK, ArgsOK, Args, Tickets, Sides, Placed, ChangeInv,
     TicketsAreCurrent, OneTicketEach, BitsAreClicked, VerifyLink
<1>4. ProofInv'
  BY DEF IInv, TypeOK, ArgsOK, Args, Tickets, Sides, Placed, ChangeInv,
     TicketsAreCurrent, OneTicketEach, BitsAreClicked, ProofInv,
     ConfirmedMeansProven, LinksAreVouched, FoundIsLinkable, Vouched,
     VerifyLink
<1>5. AsksAreFresh'
  BY DEF IInv, TypeOK, ArgsOK, AsksAreFresh, Args, VerifyLink
<1> QED
  BY <1>1, <1>2, <1>3, <1>4, <1>5 DEF IInv

LEMMA ExpireStep ==
  ASSUME IInv, Expire
  PROVE  IInv'
<1>1. TypeOK'
  BY DEF IInv, TypeOK, ArgsOK, Args, Tickets, Sides, Placed, Expire
<1>2. ArgsOK'
  BY DEF IInv, TypeOK, ArgsOK, Args, Expire
<1>3. ChangeInv'
  BY DEF IInv, TypeOK, ArgsOK, Args, Tickets, Sides, Placed, ChangeInv,
     TicketsAreCurrent, OneTicketEach, BitsAreClicked, Expire
<1>4. ProofInv'
  BY DEF IInv, TypeOK, ArgsOK, Args, Tickets, Sides, Placed, ChangeInv,
     TicketsAreCurrent, OneTicketEach, BitsAreClicked, ProofInv,
     ConfirmedMeansProven, LinksAreVouched, FoundIsLinkable, Vouched, Expire
<1>5. AsksAreFresh'
  BY DEF IInv, TypeOK, ArgsOK, AsksAreFresh, Args, Expire
<1> QED
  BY <1>1, <1>2, <1>3, <1>4, <1>5 DEF IInv

LEMMA OAuthCheckStep ==
  ASSUME IInv, NEW r \in Requests, NEW s \in Subjects, NEW e \in Emails, OAuthCheck(r, s, e)
  PROVE  IInv'
<1>1. TypeOK'
  BY DEF IInv, TypeOK, ArgsOK, Args, Tickets, Sides, Placed, Goto, NoArg, OAuthCheck
<1>2. ArgsOK'
  BY DEF IInv, TypeOK, ArgsOK, Args, Goto, NoArg, OAuthCheck
<1>3. ChangeInv'
  BY DEF IInv, TypeOK, ArgsOK, Args, Tickets, Sides, Placed, ChangeInv,
     TicketsAreCurrent, OneTicketEach, BitsAreClicked, Goto, NoArg, OAuthCheck
<1>4. ProofInv'
  BY DEF IInv, TypeOK, ArgsOK, Args, Tickets, Sides, Placed, ChangeInv,
     TicketsAreCurrent, OneTicketEach, BitsAreClicked, ProofInv,
     ConfirmedMeansProven, LinksAreVouched, FoundIsLinkable, Vouched, Goto,
     NoArg, OAuthCheck
<1>5. AsksAreFresh'
  BY DEF IInv, TypeOK, ArgsOK, AsksAreFresh, Args, Goto, NoArg, OAuthCheck
<1> QED
  BY <1>1, <1>2, <1>3, <1>4, <1>5 DEF IInv

LEMMA OAuthReadStep ==
  ASSUME IInv, NEW r \in Requests, NEW u \in Users, OAuthRead(r, u)
  PROVE  IInv'
<1>1. TypeOK'
  BY DEF IInv, TypeOK, ArgsOK, Args, Tickets, Sides, Placed, Goto, NoArg, Conflict,
     Taken, OAuthRead
<1>2. ArgsOK'
  <2>1. CASE Goto(r, "insert", arg[r])
    BY <2>1 DEF IInv, TypeOK, ArgsOK, Args, Goto, OAuthRead
  <2>2. CASE Goto(r, "idle", NoArg)
    BY <2>2 DEF IInv, TypeOK, ArgsOK, Args, Goto, NoArg, OAuthRead
  <2>3. CASE Goto(r, "link", [arg[r] EXCEPT !.user = u])
    BY <2>3 DEF IInv, TypeOK, ArgsOK, Args, Goto, OAuthRead
  <2> QED
    BY <2>1, <2>2, <2>3 DEF OAuthRead
<1>3. ChangeInv'
  BY DEF IInv, TypeOK, ArgsOK, Args, Tickets, Sides, Placed, ChangeInv,
     TicketsAreCurrent, OneTicketEach, BitsAreClicked, Goto, NoArg, Conflict,
     Taken, OAuthRead
<1>4. ProofInv'
  BY DEF IInv, TypeOK, ArgsOK, Args, Tickets, Sides, Placed, ChangeInv,
     TicketsAreCurrent, OneTicketEach, BitsAreClicked, ProofInv,
     ConfirmedMeansProven, LinksAreVouched, FoundIsLinkable, Vouched, Goto,
     NoArg, Conflict, Taken, OAuthRead
<1>5. AsksAreFresh'
  BY DEF IInv, TypeOK, ArgsOK, AsksAreFresh, Args, Goto, NoArg, Conflict, Taken, OAuthRead
<1> QED
  BY <1>1, <1>2, <1>3, <1>4, <1>5 DEF IInv

LEMMA OAuthInsertStep ==
  ASSUME IInv, NEW r \in Requests, NEW u \in Users, OAuthInsert(r, u)
  PROVE  IInv'
<1>1. TypeOK'
  <2>1. CASE Taken(arg[r].to)
    BY <2>1 DEF IInv, TypeOK, OAuthInsert, Goto
  <2>2. CASE ~Taken(arg[r].to)
    <3>1. arg[r].to \in Emails /\ arg[r].subject \in Subjects
      BY DEF IInv, ArgsOK, OAuthInsert
    <3>2. Create(u, arg[r].to, FALSE, TRUE) /\ LinkIdentity(r, u)
      BY <2>2 DEF OAuthInsert
    <3> QED
      BY <3>1, <3>2 DEF IInv, TypeOK, Create, LinkIdentity, Goto
  <2> QED
    BY <2>1, <2>2
<1>2. ArgsOK'
  <2>1. Goto(r, "idle", NoArg)
    BY DEF OAuthInsert, LinkIdentity
  <2> QED
    BY <2>1 DEF IInv, TypeOK, ArgsOK, Args, Goto, NoArg
<1>3. ChangeInv'
  BY DEF IInv, TypeOK, ArgsOK, Args, Tickets, Sides, Placed, ChangeInv,
     TicketsAreCurrent, OneTicketEach, BitsAreClicked, Create, LinkIdentity,
     Goto, NoArg, Taken, OAuthInsert
<1>4. ProofInv'
  <2>1. CASE Taken(arg[r].to)
    BY <2>1
    DEF IInv, TypeOK, ArgsOK, ProofInv, ConfirmedMeansProven, LinksAreVouched,
        FoundIsLinkable, Vouched, OAuthInsert, Goto
  <2>2. CASE ~Taken(arg[r].to)
    <3>1. arg[r].to \in Emails
      BY DEF IInv, ArgsOK, OAuthInsert
    <3>2. Create(u, arg[r].to, FALSE, TRUE) /\ LinkIdentity(r, u)
      BY <2>2 DEF OAuthInsert
    <3>4. ConfirmedMeansProven'
      BY <3>1, <3>2
      DEF Create, LinkIdentity, IInv, TypeOK, ProofInv, ConfirmedMeansProven
    <3>5. LinksAreVouched' /\ FoundIsLinkable'
      BY <3>1, <3>2, CreateIsFirst
      DEF Create, LinkIdentity, Goto, IInv, TypeOK, ArgsOK, ProofInv, LinksAreVouched,
          FoundIsLinkable, Vouched
    <3> QED
      BY <3>4, <3>5 DEF ProofInv
  <2> QED
    BY <2>1, <2>2
<1>5. AsksAreFresh'
  BY DEF IInv, TypeOK, ArgsOK, AsksAreFresh, Args, Create, LinkIdentity, Goto, NoArg, Taken, OAuthInsert
<1> QED
  BY <1>1, <1>2, <1>3, <1>4, <1>5 DEF IInv

LEMMA OAuthLinkStep ==
  ASSUME IInv, NEW r \in Requests, NEW u \in Users, OAuthLink(r, u)
  PROVE  IInv'
<1>1. TypeOK'
  BY DEF IInv, TypeOK, ArgsOK, Args, Tickets, Sides, Placed, LinkIdentity, Goto, NoArg,
     OAuthLink
<1>2. ArgsOK'
  BY DEF IInv, TypeOK, ArgsOK, Args, LinkIdentity, Goto, NoArg, OAuthLink
<1>3. ChangeInv'
  BY DEF IInv, TypeOK, ArgsOK, Args, Tickets, Sides, Placed, ChangeInv,
     TicketsAreCurrent, OneTicketEach, BitsAreClicked, LinkIdentity, Goto,
     NoArg, OAuthLink
<1>4. ProofInv'
  BY DEF IInv, TypeOK, ArgsOK, Args, Tickets, Sides, Placed, ChangeInv,
     TicketsAreCurrent, OneTicketEach, BitsAreClicked, ProofInv,
     ConfirmedMeansProven, LinksAreVouched, FoundIsLinkable, Vouched,
     LinkIdentity, Goto, NoArg, OAuthLink
<1>5. AsksAreFresh'
  BY DEF IInv, TypeOK, ArgsOK, AsksAreFresh, Args, LinkIdentity, Goto, NoArg, OAuthLink
<1> QED
  BY <1>1, <1>2, <1>3, <1>4, <1>5 DEF IInv

LEMMA AskReadStep ==
  ASSUME IInv, NEW r \in Requests, NEW u \in Users, NEW e \in Emails, AskRead(r, u, e)
  PROVE  IInv'
<1>1. TypeOK'
  BY DEF IInv, TypeOK, ArgsOK, Args, Tickets, Sides, Placed, AskReads, Goto, NoArg,
     Accounts, AskRead
<1>2. ArgsOK'
  BY DEF IInv, TypeOK, ArgsOK, Args, AskReads, Goto, NoArg, Accounts, AskRead
<1>3. ChangeInv'
  BY DEF IInv, TypeOK, ArgsOK, Args, Tickets, Sides, Placed, ChangeInv,
     TicketsAreCurrent, OneTicketEach, BitsAreClicked, AskReads, Goto, NoArg,
     Accounts, AskRead
<1>4. ProofInv'
  BY DEF IInv, TypeOK, ArgsOK, Args, Tickets, Sides, Placed, ChangeInv,
     TicketsAreCurrent, OneTicketEach, BitsAreClicked, ProofInv,
     ConfirmedMeansProven, LinksAreVouched, FoundIsLinkable, Vouched, AskReads,
     Goto, NoArg, Accounts, AskRead
<1>5. AsksAreFresh'
  BY DEF IInv, TypeOK, ArgsOK, AsksAreFresh, Args, AskReads, Goto, NoArg, Accounts, AskRead
<1> QED
  BY <1>1, <1>2, <1>3, <1>4, <1>5 DEF IInv

LEMMA AskStep ==
  ASSUME IInv, NEW r \in Requests, Ask(r)
  PROVE  IInv'
<1>1. TypeOK'
  BY DEF IInv, TypeOK, ArgsOK, Args, Tickets, Sides, Placed, AskWith, Ticket, Goto,
     NoArg, Ask
<1>2. ArgsOK'
  BY DEF IInv, TypeOK, ArgsOK, Args, AskWith, Ticket, Goto, NoArg, Ask
<1>3. ChangeInv'
  <2> DEFINE v == arg[r].user
  <2>1. v \in Users /\ asks \in [Users -> Nat]
    BY DEF IInv, ArgsOK, TypeOK, Ask, AskWith
  <2>2. pending' = [pending EXCEPT ![v] = arg[r].to] /\ bits' = [bits EXCEPT ![v] = {}]
        /\ asks' = [asks EXCEPT ![v] = asks[v] + 1]
        /\ tickets' = {t \in tickets : t.user # v} \cup {Ticket(r, "current"), Ticket(r, "new")}
        /\ UNCHANGED <<email, clicked, proven>>
    BY DEF Ask, AskWith
  <2>3. \A side \in Sides :
          /\ Ticket(r, side).user = v /\ Ticket(r, side).side = side
          /\ Ticket(r, side).asked = arg[r].to /\ Ticket(r, side).request = asks[v] + 1
    BY DEF Ticket, Sides
  <2>4. Placed(Ticket(r, "current")) /\ Placed(Ticket(r, "new"))
    BY DEF Ticket, Placed, Ask, AskWith, IInv, AsksAreFresh
  <2> HIDE DEF v
  <2>5. TicketsAreCurrent'
    BY <2>1, <2>2, <2>3 DEF TicketsAreCurrent, IInv, TypeOK, Tickets, Sides, ChangeInv
  <2>6. OneTicketEach'
    BY <2>1, <2>2, <2>3, <2>4 DEF OneTicketEach, Placed, IInv, TypeOK, Tickets, Sides, ChangeInv
  <2>7. BitsAreClicked'
    BY <2>1, <2>2 DEF BitsAreClicked, Placed, IInv, TypeOK, Tickets, ChangeInv
  <2> QED
    BY <2>5, <2>6, <2>7 DEF ChangeInv
<1>4. ProofInv'
  BY DEF IInv, TypeOK, ArgsOK, Args, Tickets, Sides, Placed, ChangeInv,
     TicketsAreCurrent, OneTicketEach, BitsAreClicked, ProofInv,
     ConfirmedMeansProven, LinksAreVouched, FoundIsLinkable, Vouched, AskWith,
     Ticket, Goto, NoArg, Ask
<1>5. AsksAreFresh'
  BY DEF IInv, TypeOK, ArgsOK, AsksAreFresh, Args, AskWith, Ticket, Goto, NoArg, Ask
<1> QED
  BY <1>1, <1>2, <1>3, <1>4, <1>5 DEF IInv

LEMMA VerifyOneSideStep ==
  ASSUME IInv, NEW t \in tickets, VerifyOneSide(t)
  PROVE  IInv'
<1>1. TypeOK'
  BY DEF IInv, TypeOK, ArgsOK, Args, Tickets, Sides, Placed, Confirm, VerifyOneSide
<1>2. ArgsOK'
  BY DEF IInv, TypeOK, ArgsOK, Args, Confirm, VerifyOneSide
<1>3. ChangeInv'
  BY DEF IInv, TypeOK, ArgsOK, Args, Tickets, Sides, Placed, ChangeInv,
     TicketsAreCurrent, OneTicketEach, BitsAreClicked, Confirm, VerifyOneSide
<1>4. ProofInv'
  BY DEF IInv, TypeOK, ArgsOK, Args, Tickets, Sides, Placed, ChangeInv,
     TicketsAreCurrent, OneTicketEach, BitsAreClicked, ProofInv,
     ConfirmedMeansProven, LinksAreVouched, FoundIsLinkable, Vouched, Confirm,
     VerifyOneSide
<1>5. AsksAreFresh'
  BY DEF IInv, TypeOK, ArgsOK, AsksAreFresh, Args, Confirm, VerifyOneSide
<1> QED
  BY <1>1, <1>2, <1>3, <1>4, <1>5 DEF IInv

LEMMA VerifyAppliesStep ==
  ASSUME IInv, NEW t \in tickets, VerifyApplies(t)
  PROVE  IInv'
<1>1. TypeOK'
  BY DEF IInv, TypeOK, ArgsOK, Args, Tickets, Sides, Placed, BothSides, Confirm, TakenFrom,
     Overtaken, VerifyApplies
<1>0. /\ pc' = pc
      /\ arg' \in [Requests -> Args]
      /\ \A r \in Requests :
          /\ arg'[r].user = arg[r].user /\ arg'[r].subject = arg[r].subject
          /\ arg'[r].from = arg[r].from /\ arg'[r].to = arg[r].to
          /\ arg[r].late => arg'[r].late
          /\ pc[r] = "ask" /\ arg[r].user = t.user /\ email[t.user] # pending[t.user] => arg'[r].late
  <2>1. pc' = pc /\ arg' = Overtaken(t.user) /\ arg \in [Requests -> Args]
    BY DEF VerifyApplies, IInv, ArgsOK
  <2>2. ASSUME NEW r \in Requests
        PROVE  /\ arg'[r] \in Args
               /\ arg'[r].user = arg[r].user /\ arg'[r].subject = arg[r].subject
               /\ arg'[r].from = arg[r].from /\ arg'[r].to = arg[r].to
               /\ arg[r].late => arg'[r].late
               /\ pc[r] = "ask" /\ arg[r].user = t.user /\ email[t.user] # pending[t.user]
                    => arg'[r].late
    <3>1. CASE pc[r] = "ask" /\ arg[r].user = t.user
      <4>1. arg'[r] = [arg[r] EXCEPT !.late = arg[r].late \/ email[t.user] # pending[t.user]]
        BY <2>1, <3>1 DEF Overtaken
      <4> QED
        BY <2>1, <4>1 DEF Args
    <3>2. CASE ~(pc[r] = "ask" /\ arg[r].user = t.user)
      BY <2>1, <3>2 DEF Overtaken
    <3> QED
      BY <3>1, <3>2
  <2>3. arg' \in [Requests -> Args]
    BY <2>1, <2>2 DEF Overtaken
  <2> QED
    BY <2>1, <2>2, <2>3
<1>2. ArgsOK'
  BY <1>0 DEF IInv, ArgsOK
<1>3. ChangeInv'
  BY DEF IInv, TypeOK, ArgsOK, Args, Tickets, Sides, Placed, ChangeInv,
     TicketsAreCurrent, OneTicketEach, BitsAreClicked, BothSides, Confirm,
     TakenFrom, Overtaken, VerifyApplies
<1>4. ProofInv'
  <2>1. ConfirmedMeansProven' /\ LinksAreVouched'
    BY DEF IInv, TypeOK, Tickets, Sides, Placed, ChangeInv, TicketsAreCurrent, OneTicketEach,
       BitsAreClicked, ProofInv, ConfirmedMeansProven, LinksAreVouched, Vouched, BothSides,
       Confirm, VerifyApplies
  <2>2. FoundIsLinkable'
    BY <1>0, <1>2
    DEF IInv, TypeOK, Tickets, Sides, Placed, ArgsOK, ChangeInv, TicketsAreCurrent,
        OneTicketEach, BitsAreClicked, ProofInv, FoundIsLinkable, Vouched, BothSides, Confirm,
        VerifyApplies
  <2> QED
    BY <2>1, <2>2 DEF ProofInv
<1>5. AsksAreFresh'
  BY <1>0 DEF IInv, TypeOK, ArgsOK, AsksAreFresh, VerifyApplies
<1> QED
  BY <1>1, <1>2, <1>3, <1>4, <1>5 DEF IInv

LEMMA VerifyTakenStep ==
  ASSUME IInv, NEW t \in tickets, VerifyTaken(t)
  PROVE  IInv'
<1>1. TypeOK'
  BY DEF IInv, TypeOK, ArgsOK, Args, Tickets, Sides, Placed, BothSides, TakenFrom, VerifyTaken
<1>2. ArgsOK'
  BY DEF IInv, TypeOK, ArgsOK, Args, BothSides, TakenFrom, VerifyTaken
<1>3. ChangeInv'
  BY DEF IInv, TypeOK, ArgsOK, Args, Tickets, Sides, Placed, ChangeInv,
     TicketsAreCurrent, OneTicketEach, BitsAreClicked, BothSides, TakenFrom, VerifyTaken
<1>4. ProofInv'
  BY DEF IInv, TypeOK, ArgsOK, Args, Tickets, Sides, Placed, ChangeInv,
     TicketsAreCurrent, OneTicketEach, BitsAreClicked, ProofInv,
     ConfirmedMeansProven, LinksAreVouched, FoundIsLinkable, Vouched,
     BothSides, TakenFrom, VerifyTaken
<1>5. AsksAreFresh'
  BY DEF IInv, TypeOK, ArgsOK, AsksAreFresh, Args, BothSides, TakenFrom, VerifyTaken
<1> QED
  BY <1>1, <1>2, <1>3, <1>4, <1>5 DEF IInv

HIDE DEF rowVars, requestVars, historyVars

LEMMA IInvInit == Init => IInv
<1> SUFFICES ASSUME Init
             PROVE  IInv
  OBVIOUS
<1>1. TypeOK /\ ArgsOK /\ AsksAreFresh
  BY DEF Init, TypeOK, ArgsOK, AsksAreFresh, Args, NoArg
<1>2. ChangeInv
  BY DEF Init, ChangeInv, TicketsAreCurrent, OneTicketEach, BitsAreClicked
<1>3. ProofInv
  BY DEF Init, ProofInv, ConfirmedMeansProven, LinksAreVouched, FoundIsLinkable
<1> QED
  BY <1>1, <1>2, <1>3 DEF IInv

LEMMA IInvNext == IInv /\ [Next]_vars => IInv'
<1> SUFFICES ASSUME IInv, [Next]_vars
             PROVE  IInv'
  OBVIOUS
<1>1. ASSUME NEW u \in Users, NEW e \in Emails, Signup(u, e) \/ Invite(u, e)
      PROVE  IInv'
  BY <1>1, SignupStep, InviteStep
<1>2. ASSUME NEW u \in Users, MailLink(u)
      PROVE  IInv'
  BY <1>2, MailLinkStep
<1>3. ASSUME NEW l \in links, NEW setsPassword \in BOOLEAN, VerifyLink(l, setsPassword)
      PROVE  IInv'
  BY <1>3, VerifyLinkStep
<1>4. CASE Expire
  BY <1>4, ExpireStep
<1>5. ASSUME NEW r \in Requests, NEW s \in Subjects, NEW e \in Emails, OAuthCheck(r, s, e)
      PROVE  IInv'
  BY <1>5, OAuthCheckStep
<1>6. ASSUME NEW r \in Requests, NEW u \in Users,
             OAuthRead(r, u) \/ OAuthInsert(r, u) \/ OAuthLink(r, u)
      PROVE  IInv'
  BY <1>6, OAuthReadStep, OAuthInsertStep, OAuthLinkStep
<1>7. ASSUME NEW r \in Requests,
             (\E u \in Users, e \in Emails : AskRead(r, u, e)) \/ Ask(r)
      PROVE  IInv'
  BY <1>7, AskReadStep, AskStep
<1>8. ASSUME NEW t \in tickets, VerifyOneSide(t) \/ VerifyApplies(t) \/ VerifyTaken(t)
      PROVE  IInv'
  BY <1>8, VerifyOneSideStep, VerifyAppliesStep, VerifyTakenStep
<1>9. CASE UNCHANGED vars
  BY <1>9
  DEF vars, rowVars, requestVars, historyVars, IInv, TypeOK, ArgsOK, AsksAreFresh, ChangeInv,
      TicketsAreCurrent, OneTicketEach, BitsAreClicked, ProofInv, ConfirmedMeansProven,
      LinksAreVouched, FoundIsLinkable, Vouched, Placed
<1> QED
  BY <1>1, <1>2, <1>3, <1>4, <1>5, <1>6, <1>7, <1>8, <1>9 DEF Next

LEMMA Invariance == Spec => []IInv
BY IInvInit, IInvNext, PTL DEF Spec

-----------------------------------------------------------------------------
(* Every column, token and request is of its type.                         *)
THEOREM TypeCorrect == Spec => []TypeOK
<1>1. IInv => TypeOK
  BY DEF IInv
<1> QED
  BY <1>1, Invariance, PTL

(* An address marked confirmed has been proven by its inbox, whichever of  *)
(* the flows marked it and however often the address changed in between    *)
(* (verify_magic_link, oauth_finish, verify_email_change).  It rests on    *)
(* what is proven once an address is not the first one.                    *)
THEOREM ConfirmedIsProven == Spec => []ConfirmedMeansProven
<1>1. IInv => ConfirmedMeansProven
  BY DEF IInv, ProofInv
<1> QED
  BY <1>1, Invariance, PTL

(* A ticket that can still be redeemed belongs to the pending change, on a *)
(* side that has not confirmed (request_email_change burns the others).    *)
THEOREM TicketsBelong == Spec => []TicketsAreCurrent
<1>1. IInv => TicketsAreCurrent
  BY DEF IInv, ChangeInv
<1> QED
  BY <1>1, Invariance, PTL

\* What a step of the specification is made of, for the action properties.
LEMMA EmailChanges ==
  ASSUME IInv, [Next]_vars, NEW u \in Accounts, email'[u] # email[u]
  PROVE  \E t \in tickets : VerifyApplies(t) /\ t.user = u
<1>1. u \in Users /\ email[u] # NoEmail
  BY DEF Accounts
<1>2. ASSUME NEW v \in Users, NEW e, NEW pw, NEW conf, Create(v, e, pw, conf)
      PROVE  FALSE
  BY <1>1, <1>2 DEF Create, IInv, TypeOK
<1>3. ~UNCHANGED email
  OBVIOUS
<1>4. \E t \in tickets : VerifyApplies(t)
  <2>1. ASSUME NEW v \in Users, NEW e \in Emails, Signup(v, e) \/ Invite(v, e)
        PROVE  FALSE
    BY <1>2, <2>1 DEF Signup, Invite
  <2>2. ASSUME NEW r \in Requests, NEW v \in Users,
               OAuthRead(r, v) \/ OAuthInsert(r, v) \/ OAuthLink(r, v)
        PROVE  UNCHANGED email
    BY <1>2, <2>2 DEF OAuthRead, OAuthInsert, OAuthLink, rowVars
  <2>3. ASSUME NEW r \in Requests, Ask(r)
        PROVE  UNCHANGED email
    BY <2>3 DEF Ask, AskWith
  <2>4. ASSUME NEW r \in Requests, NEW v \in Users, NEW e \in Emails, AskRead(r, v, e)
        PROVE  UNCHANGED email
    BY <2>4 DEF AskRead, AskReads, rowVars
  <2>5. ASSUME NEW r \in Requests, NEW s \in Subjects, NEW e \in Emails, OAuthCheck(r, s, e)
        PROVE  UNCHANGED email
    BY <2>5 DEF OAuthCheck, rowVars
  <2>6. ASSUME NEW v \in Users, MailLink(v)
        PROVE  UNCHANGED email
    BY <2>6 DEF MailLink
  <2>7. ASSUME NEW l \in links, NEW b \in BOOLEAN, VerifyLink(l, b)
        PROVE  UNCHANGED email
    BY <2>7 DEF VerifyLink
  <2>8. Expire => UNCHANGED email
    BY DEF Expire
  <2>9. ASSUME NEW t \in tickets, VerifyOneSide(t) \/ VerifyTaken(t)
        PROVE  UNCHANGED email
    BY <2>9 DEF VerifyOneSide, VerifyTaken, rowVars
  <2> QED
    BY <1>3, <2>1, <2>2, <2>3, <2>4, <2>5, <2>6, <2>7, <2>8, <2>9 DEF Next, vars, rowVars
<1>5. PICK t \in tickets : VerifyApplies(t)
  BY <1>4
<1>6. t.user = u
  BY <1>1, <1>5 DEF VerifyApplies, IInv, TypeOK
<1> QED
  BY <1>5, <1>6

(* An account's address changes when its inbox so far and the new one have *)
(* both redeemed a ticket of one request, the last; the first of them may  *)
(* be the address before it for a request that a change overtook between   *)
(* its read and its transaction (request_email_change, verify_email_change) *)
THEOREM ChangesAreAgreed == Spec => BothInboxesAgreed
<1>1. ASSUME IInv, [Next]_vars, NEW u \in Accounts, email'[u] # email[u]
      PROVE  AgreedTo(u, email'[u])
  <2>1. PICK t \in tickets : VerifyApplies(t) /\ t.user = u
    BY <1>1, EmailChanges
  <2>2. clicked' = clicked \cup {t} /\ bits[u] \cup {t.side} = Sides
    BY <2>1 DEF VerifyApplies, BothSides, Confirm
  <2>3. u \in Users /\ email'[u] = pending[u]
    BY <1>1, <2>1 DEF VerifyApplies, IInv, TypeOK, Accounts
  <2>4. ASSUME NEW side \in Sides
        PROVE  \E c \in clicked' :
                  /\ c.user = u /\ c.side = side
                  /\ c.asked = pending[u] /\ c.request = asks[u]
                  /\ Placed(c)
    <3>1. CASE side = t.side
      BY <1>1, <2>1, <2>2, <3>1 DEF IInv, ChangeInv, TicketsAreCurrent, OneTicketEach
    <3>2. CASE side \in bits[u]
      <4>1. PICK c \in clicked :
                /\ c.user = u /\ c.side = side
                /\ c.asked = pending[u] /\ c.request = asks[u]
                /\ Placed(c)
        BY <1>1, <2>3, <3>2 DEF IInv, ChangeInv, BitsAreClicked
      <4> QED
        BY <2>2, <4>1
    <3> QED
      BY <2>2, <3>1, <3>2
  <2>5. PICK c \in clicked' : c.user = u /\ c.side = "current" /\ c.asked = pending[u]
                                /\ c.request = asks[u] /\ Placed(c)
    BY <2>4 DEF Sides
  <2>6. PICK n \in clicked' : n.user = u /\ n.side = "new" /\ n.asked = pending[u]
                                /\ n.request = asks[u] /\ Placed(n)
    BY <2>4 DEF Sides
  <2> QED
    BY <2>3, <2>5, <2>6 DEF AgreedTo, Placed
<1>2. IInv /\ [Next]_vars => \A u \in Accounts : email'[u] # email[u] => AgreedTo(u, email'[u])
  BY <1>1
<1> QED
  BY <1>2, Invariance, PTL DEF Spec, BothInboxesAgreed

(* No identity is linked to an account with a password whose address was   *)
(* never proven, also when it was created while the callback was under way *)
(* (oauth_finish).                                                         *)
THEOREM LinksAreProven == Spec => NoUnprovenLink
<1>1. ASSUME IInv, [Next]_vars, NEW s \in Subjects, identity'[s] # identity[s]
      PROVE  email[identity'[s]] = NoEmail \/ ~Conflict(identity'[s])
  <2>1. PICK r \in Requests, u \in Users : LinkIdentity(r, u) /\ (OAuthInsert(r, u) \/ OAuthLink(r, u))
    <3>1. ASSUME NEW v \in Users, NEW e \in Emails, Signup(v, e) \/ Invite(v, e)
          PROVE  UNCHANGED identity
      BY <3>1 DEF Signup, Invite
    <3>2. ASSUME NEW r \in Requests, NEW v \in Users,
                 OAuthRead(r, v) \/ OAuthInsert(r, v) \/ OAuthLink(r, v), ~UNCHANGED identity
          PROVE  LinkIdentity(r, v) /\ (OAuthInsert(r, v) \/ OAuthLink(r, v))
      BY <3>2 DEF OAuthRead, OAuthInsert, OAuthLink, rowVars
    <3>3. ASSUME NEW r \in Requests, Ask(r)
          PROVE  UNCHANGED identity
      BY <3>3 DEF Ask, AskWith
    <3>4. ASSUME NEW r \in Requests, NEW v \in Users, NEW e \in Emails, AskRead(r, v, e)
          PROVE  UNCHANGED identity
      BY <3>4 DEF AskRead, AskReads, rowVars
    <3>5. ASSUME NEW r \in Requests, NEW x \in Subjects, NEW e \in Emails, OAuthCheck(r, x, e)
          PROVE  UNCHANGED identity
      BY <3>5 DEF OAuthCheck, rowVars
    <3>6. ASSUME NEW v \in Users, MailLink(v)
          PROVE  UNCHANGED identity
      BY <3>6 DEF MailLink
    <3>7. ASSUME NEW l \in links, NEW b \in BOOLEAN, VerifyLink(l, b)
          PROVE  UNCHANGED identity
      BY <3>7 DEF VerifyLink
    <3>8. Expire => UNCHANGED identity
      BY DEF Expire
    <3>9. ASSUME NEW t \in tickets, VerifyOneSide(t) \/ VerifyApplies(t) \/ VerifyTaken(t)
          PROVE  UNCHANGED identity
      BY <3>9 DEF VerifyOneSide, VerifyApplies, VerifyTaken, rowVars
    <3> QED
      BY <1>1, <3>1, <3>2, <3>3, <3>4, <3>5, <3>6, <3>7, <3>8, <3>9 DEF Next, vars, rowVars
  <2>2. identity'[s] = u
    BY <1>1, <2>1 DEF LinkIdentity, IInv, TypeOK
  <2>3. CASE OAuthInsert(r, u)
    BY <1>1, <2>2, <2>3 DEF OAuthInsert, Create, rowVars
  <2>4. CASE OAuthLink(r, u)
    BY <1>1, <2>2, <2>4 DEF OAuthLink, Conflict, IInv, ProofInv, FoundIsLinkable
  <2> QED
    BY <2>1, <2>3, <2>4
<1>2. IInv /\ [Next]_vars =>
        \A s \in Subjects : identity'[s] # identity[s] =>
            email[identity'[s]] = NoEmail \/ ~Conflict(identity'[s])
  BY <1>1
<1> QED
  BY <1>2, Invariance, PTL DEF Spec, NoUnprovenLink
=============================================================================
