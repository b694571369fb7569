---------------------------- MODULE AuthSessions ----------------------------
(***************************************************************************)
(* The sessions of one user: the rows of auth.refresh_tokens, the password *)
(* and the gate of auth.users, the emailed one-time tokens, and requests   *)
(* that run concurrently.  Rows of different users never meet.             *)
(*                                                                         *)
(* A request that runs several statements on an autocommit connection is   *)
(* several actions; a statement, or a transaction, is one.  A transaction  *)
(* that revokes sessions is atomic here although it runs at READ COMMITTED: *)
(* a rotation that commits under it leaves exactly what the rotation would *)
(* leave if it came just after.                                            *)
(***************************************************************************)
EXTENDS Naturals, FiniteSets

CONSTANTS
    MaxTokens,    \* bound: refresh tokens ever issued (ids of the bigserial)
    Requests,     \* slots for concurrent requests
    Passwords,
    NoPassword,   \* encrypted_password is null
    Links,        \* one-time tokens ever mailed
    Reasons,      \* why an account may be refused from the start
    MaxResets,    \* bound: password changes, by the user or by recovery
    MaxBans       \* bound: bans

ASSUME SessionAssumption ==
    /\ MaxTokens \in Nat
    /\ NoPassword \notin Passwords
    /\ Reasons \subseteq {"inactive", "unconfirmed"}
    /\ MaxResets \in Nat /\ MaxBans \in Nat

VARIABLES
    issued,    \* refresh tokens issued so far are 1 .. issued
    revoked,   \* the tokens whose revoked column is true
    parent,    \* the token a token was rotated from; 0 for none
    password,  \* what encrypted_password verifies
    blocked,   \* the reasons _assert_can_authenticate would refuse for
    link,      \* one-time tokens: "unsent", "recover", "signin" or "dead"
    pc,        \* where a request is
    arg,       \* the token, or the password, that it read or will write
    resets, bans, \* counters of the bounds
    killed,    \* history: tokens revoked by a sign-out, not by a rotation
    late,      \* history: tokens that a stale request issued, and their heirs
    stale,     \* history: requests whose read was overtaken by a sign-out
    graced,    \* history: requests that had passed the gate when a ban fell
    proof,     \* history: the password that was valid when the credential
               \* behind a token was checked
    gone       \* history: tokens presented again after their rotation

rowVars == <<issued, revoked, parent, password, blocked, link>>
requestVars == <<pc, arg>>
boundVars == <<resets, bans>>
historyVars == <<killed, late, stale, graced, proof, gone>>
vars == <<rowVars, requestVars, boundVars, historyVars>>

Ids == 1 .. MaxTokens
Tokens == 1 .. issued
Live == Tokens \ revoked
Eligible == blocked = {}

(***************************************************************************)
(* The tokens of T and all that was rotated from them, however far: the    *)
(* least set that holds T and is closed under children.                    *)
(***************************************************************************)
Family(T) ==
    {t \in Tokens : \A S \in SUBSET Tokens :
        T \subseteq S /\ (\A c \in Tokens : parent[c] \in S => c \in S) => t \in S}

Children(t) == {c \in Tokens : parent[c] = t}

Init ==
    /\ issued = 0
    /\ revoked = {}
    /\ parent = [t \in Ids |-> 0]
    /\ password \in Passwords \cup {NoPassword}
    /\ blocked \in SUBSET Reasons
    /\ link = [l \in Links |-> "unsent"]
    /\ pc = [r \in Requests |-> "idle"]
    /\ arg = [r \in Requests |-> 0]
    /\ resets = 0 /\ bans = 0
    /\ killed = {} /\ late = {} /\ stale = {} /\ graced = {} /\ gone = {}
    /\ proof = [t \in Ids |-> NoPassword]

-----------------------------------------------------------------------------
(* What the actions are made of.                                           *)

Goto(r, label, a) ==
    /\ pc' = [pc EXCEPT ![r] = label]
    /\ arg' = [arg EXCEPT ![r] = a]

\* The request r ends; whatever history said of it is forgotten.
Done(r) == Goto(r, "idle", 0)

(***************************************************************************)
(* The requests that read one of T as not yet revoked.                     *)
(***************************************************************************)
Readers(T) == {r \in Requests : pc[r] \in {"gate", "rotate"} /\ arg[r] \in T}

(***************************************************************************)
(* The requests that checked a password, and have not used it yet.         *)
(***************************************************************************)
Verified == {r \in Requests : pc[r] \in {"activate", "grantGate", "grant", "change"}}

(***************************************************************************)
(* A row is inserted with parent p, for a credential that was checked      *)
(* when the password was pw.                                               *)
(***************************************************************************)
Insert(p, pw, isLate) ==
    /\ issued < MaxTokens
    /\ issued' = issued + 1
    /\ parent' = [parent EXCEPT ![issued + 1] = p]
    /\ proof' = [proof EXCEPT ![issued + 1] = pw]
    /\ late' = IF isLate THEN late \cup {issued + 1} ELSE late

\* mutant of SignOut: the update matches no row
SignOut_NoRow(T) == UNCHANGED revoked /\ killed' = killed \cup T

(***************************************************************************)
(* The sessions of T are signed out by a request other than their own.     *)
(***************************************************************************)
SignOut(T) ==
    /\ revoked' = revoked \cup T
    /\ killed' = killed \cup T

-----------------------------------------------------------------------------
(* POST /token: password_grant, and every other proof that ends in         *)
(* _issue_pair on a connection without a transaction (signup, OAuth).      *)

PasswordRead(r) ==
    /\ pc[r] = "idle"
    /\ password # NoPassword
    /\ Goto(r, "grantGate", password)
    /\ UNCHANGED <<rowVars, boundVars, historyVars>>

(***************************************************************************)
(* oauth_finish up to its transaction: the provider vouches for the        *)
(* address.  An unconfirmed account that has a password is refused.        *)
(***************************************************************************)
ProviderProof(r) ==
    /\ pc[r] = "idle"
    /\ "unconfirmed" \in blocked => password = NoPassword
    /\ blocked' = blocked \ {"unconfirmed"}
    /\ Goto(r, "activate", password)
    /\ UNCHANGED <<issued, revoked, parent, password, link, boundVars, historyVars>>

\* The statement after it: the account is activated, whatever the gate will say.
ProviderActivate(r) ==
    /\ pc[r] = "activate"
    /\ blocked' = blocked \ {"inactive"}
    /\ Goto(r, "grantGate", arg[r])
    /\ UNCHANGED <<issued, revoked, parent, password, link, boundVars, historyVars>>

Gate(r, from, to) ==
    /\ pc[r] = from
    /\ IF Eligible
       THEN Goto(r, to, arg[r]) /\ UNCHANGED <<stale, graced>>
       ELSE Done(r) /\ stale' = stale \ {r} /\ graced' = graced \ {r}
    /\ UNCHANGED <<rowVars, boundVars, killed, late, proof, gone>>

GrantGate(r) == Gate(r, "grantGate", "grant")

Grant(r) ==
    /\ pc[r] = "grant"
    /\ Insert(0, arg[r], r \in stale)
    /\ Done(r)
    /\ stale' = stale \ {r} /\ graced' = graced \ {r}
    /\ UNCHANGED <<revoked, password, blocked, link, boundVars, killed, gone>>

-----------------------------------------------------------------------------
(* POST /refresh: refresh_grant.                                           *)

RefreshRead(r, t) ==
    /\ pc[r] = "idle"
    /\ Goto(r, IF t \in revoked THEN "reuse" ELSE "gate", t)
    /\ UNCHANGED <<rowVars, boundVars, historyVars>>

RevokeReused(r, D) ==
    /\ pc[r] = "reuse"
    /\ SignOut(D)
    /\ stale' = stale \cup Readers(D)
    /\ gone' = gone \cup {arg[r]}
    /\ Done(r)
    /\ UNCHANGED <<issued, parent, password, blocked, link, boundVars, late, graced, proof>>

\* mutant of ReuseRevoke: the walk stops after one generation
ReuseRevoke_ChildrenOnly(r) == RevokeReused(r, Children(arg[r]))

(***************************************************************************)
(* A revoked token was presented: the transaction revokes its descendants. *)
(***************************************************************************)
ReuseRevoke(r) == RevokeReused(r, Family(Children(arg[r])))

\* mutant of RefreshGate: refresh_grant mints its own pair and forgets the gate
RefreshGate_Skipped(r) ==
    /\ pc[r] = "gate"
    /\ Goto(r, "rotate", arg[r])
    /\ UNCHANGED <<rowVars, boundVars, historyVars>>

RefreshGate(r) == Gate(r, "gate", "rotate")

RotateInto(r, T) ==
    /\ pc[r] = "rotate"
    /\ Insert(arg[r], proof[arg[r]], r \in stale \/ arg[r] \in late)
    /\ revoked' = revoked \cup T
    /\ stale' = (stale \cup Readers(T)) \ {r}
    /\ graced' = graced \ {r}
    /\ Done(r)
    /\ UNCHANGED <<password, blocked, link, boundVars, killed, gone>>

\* mutant of Rotate: the old token is not revoked
Rotate_KeepsParent(r) == RotateInto(r, {})

(***************************************************************************)
(* The transaction that revokes the old token and inserts its successor.   *)
(* Nothing in it looks at the revoked column again.                        *)
(***************************************************************************)
Rotate(r) == RotateInto(r, {arg[r]})

-----------------------------------------------------------------------------
(* POST /logout, and the admin's buttons.                                  *)

SignOutSet(T) ==
    /\ SignOut(T)
    /\ stale' = stale \cup Readers(T)
    /\ UNCHANGED <<issued, parent, password, blocked, link, requestVars, boundVars,
                   late, graced, proof, gone>>

\* mutant of LogoutLocal: only the presented token is revoked
LogoutLocal_OneToken(t) == SignOutSet({t})

LogoutLocal(t) == SignOutSet(Family({t}))

LogoutGlobal == SignOutSet(Live)

LogoutOthers(t) == SignOutSet(Live \ {t})

(***************************************************************************)
(* The admin revokes one row; its successors, if any, are left alone.      *)
(* History calls it signed out only when it was the live one.              *)
(***************************************************************************)
RevokeRow(t) ==
    /\ revoked' = revoked \cup {t}
    /\ killed' = killed \cup ({t} \cap Live)
    /\ stale' = stale \cup Readers({t})
    /\ UNCHANGED <<issued, parent, password, blocked, link, requestVars, boundVars,
                   late, graced, proof, gone>>

-----------------------------------------------------------------------------
(* PUT /user: update_password.                                             *)

ChangeRead(r, new) ==
    /\ pc[r] = "idle"
    /\ resets < MaxResets
    /\ Goto(r, "change", new)
    /\ UNCHANGED <<rowVars, boundVars, historyVars>>

(***************************************************************************)
(* One transaction: the password becomes pw, the sessions T end, and a     *)
(* first session of the new epoch is issued.                               *)
(***************************************************************************)
Reset(pw, T) ==
    /\ resets < MaxResets
    /\ resets' = resets + 1
    /\ password' = pw
    /\ SignOut(T)
    /\ Insert(0, pw, FALSE)

\* mutant of ChangeCommit: the other sessions are not revoked
ChangeCommit_KeepsSessions(r) ==
    /\ pc[r] = "change"
    /\ Eligible
    /\ Reset(arg[r], {})
    /\ stale' = (stale \cup Verified) \ {r}
    /\ Done(r)
    /\ UNCHANGED <<blocked, link, bans, graced, gone>>

ChangeCommit(r) ==
    /\ pc[r] = "change"
    /\ Eligible
    /\ Reset(arg[r], Live)
    /\ stale' = (stale \cup Verified \cup Readers(Live)) \ {r}
    /\ Done(r)
    /\ UNCHANGED <<blocked, link, bans, graced, gone>>

\* _issue_pair refuses inside the transaction: all of it is rolled back.
ChangeRefused(r) ==
    /\ pc[r] = "change"
    /\ ~Eligible
    /\ Done(r)
    /\ stale' = stale \ {r}
    /\ UNCHANGED <<rowVars, boundVars, killed, late, graced, proof, gone>>

-----------------------------------------------------------------------------
(* One-time tokens.  A refusal rolls the burn back, so it is no step.      *)

Mail(l, kind) ==
    /\ link[l] = "unsent"
    /\ link' = [link EXCEPT ![l] = kind]
    /\ UNCHANGED <<issued, revoked, parent, password, blocked, requestVars, boundVars,
                   historyVars>>

Expire(l) ==
    /\ link[l] \in {"recover", "signin"}
    /\ link' = [link EXCEPT ![l] = "dead"]
    /\ UNCHANGED <<issued, revoked, parent, password, blocked, requestVars, boundVars,
                   historyVars>>

(***************************************************************************)
(* verify_magic_link, verify_otp, verify_signup_confirm, and the second    *)
(* side of verify_email_change: the proof of the inbox is recorded before  *)
(* the gate is consulted.                                                  *)
(***************************************************************************)
VerifySignin(l) ==
    /\ link[l] = "signin"
    /\ blocked \subseteq {"unconfirmed"}
    /\ link' = [link EXCEPT ![l] = "dead"]
    /\ blocked' = {}
    /\ Insert(0, password, FALSE)
    /\ UNCHANGED <<revoked, password, requestVars, boundVars, killed, stale, graced, gone>>

RecoverWith(l, L, new) ==
    /\ link[l] = "recover"
    /\ blocked \subseteq {"unconfirmed"}
    /\ link' = [k \in Links |-> IF k \in L THEN "dead" ELSE link[k]]
    /\ blocked' = {}
    /\ Reset(new, Live)
    /\ stale' = stale \cup Verified \cup Readers(Live)
    /\ UNCHANGED <<requestVars, bans, graced, gone>>

\* mutant of VerifyRecover: the other recovery mails stay good
VerifyRecover_OneLink(l, new) == RecoverWith(l, {l}, new)

VerifyRecover(l, new) == RecoverWith(l, {k \in Links : link[k] = "recover"}, new)

-----------------------------------------------------------------------------
(* The gate, and time.                                                     *)

Ban ==
    /\ bans < MaxBans
    /\ bans' = bans + 1
    /\ blocked' = blocked \cup {"banned"}
    /\ graced' = graced \cup {r \in Requests : pc[r] \in {"grant", "rotate"}}
    /\ UNCHANGED <<issued, revoked, parent, password, link, requestVars, resets,
                   killed, late, stale, proof, gone>>

\* unban_user, or banned_until passes.
Unban ==
    /\ "banned" \in blocked
    /\ blocked' = blocked \ {"banned"}
    /\ UNCHANGED <<issued, revoked, parent, password, link, requestVars, boundVars,
                   historyVars>>

ActivateUser ==
    /\ "inactive" \in blocked
    /\ blocked' = blocked \ {"inactive"}
    /\ UNCHANGED <<issued, revoked, parent, password, link, requestVars, boundVars,
                   historyVars>>

-----------------------------------------------------------------------------

RequestStep(r) ==
    \/ PasswordRead(r) \/ ProviderProof(r) \/ ProviderActivate(r)
    \/ GrantGate(r) \/ Grant(r)
    \/ \E t \in Tokens : RefreshRead(r, t)
    \/ ReuseRevoke(r) \/ RefreshGate(r) \/ Rotate(r)
    \/ \E new \in Passwords : ChangeRead(r, new)
    \/ ChangeCommit(r) \/ ChangeRefused(r)

Next ==
    \/ \E r \in Requests : RequestStep(r)
    \/ \E t \in Tokens : \/ LogoutLocal(t) \/ LogoutOthers(t) \/ RevokeRow(t)
    \/ LogoutGlobal
    \/ \E l \in Links : \/ Mail(l, "recover") \/ Mail(l, "signin") \/ Expire(l)
                        \/ VerifySignin(l)
                        \/ \E new \in Passwords : VerifyRecover(l, new)
    \/ Ban \/ Unban \/ ActivateUser

Spec == Init /\ [][Next]_vars

-----------------------------------------------------------------------------
(* Properties.                                                             *)

Labels == {"idle", "activate", "grantGate", "grant", "gate", "rotate", "reuse", "change"}

TypeOK ==
    /\ issued \in 0 .. MaxTokens
    /\ revoked \subseteq Tokens
    /\ parent \in [Ids -> 0 .. MaxTokens]
    /\ password \in Passwords \cup {NoPassword}
    /\ blocked \subseteq {"banned", "inactive", "unconfirmed"}
    /\ link \in [Links -> {"unsent", "recover", "signin", "dead"}]
    /\ pc \in [Requests -> Labels]
    /\ arg \in [Requests -> (0 .. MaxTokens) \cup Passwords \cup {NoPassword}]
    /\ \A r \in Requests :
        /\ pc[r] \in {"gate", "rotate", "reuse"} => arg[r] \in Tokens
        /\ pc[r] \in {"activate", "grantGate", "grant", "change"} =>
              arg[r] \in Passwords \cup {NoPassword}
    /\ resets \in Nat /\ bans \in Nat
    /\ killed \subseteq revoked /\ late \subseteq Tokens
    /\ gone \subseteq Tokens
    /\ stale \subseteq Requests /\ graced \subseteq Requests
    /\ proof \in [Ids -> Passwords \cup {NoPassword}]

(***************************************************************************)
(* Rotation: a token that has a successor is revoked, for good, and it has *)
(* one successor, unless further requests had read it before its rotation. *)
(***************************************************************************)
RedeemedOnce ==
    \A s \in Tokens : parent[s] # 0 =>
        /\ parent[s] \in revoked
        /\ \A t \in Tokens \ {s} : parent[t] = parent[s] => {s, t} \cap late # {}

(***************************************************************************)
(* A sign-out, of a session or of all of them, by the user, the admin, a   *)
(* password change, a recovery or the detection of a reuse, ends the whole *)
(* family: the only sessions that come out of it are those of requests     *)
(* that were already past their read.                                      *)
(***************************************************************************)
SignedOutStaysOut == Live \cap Family(killed) \subseteq late

(***************************************************************************)
(* A token that was presented once too often has no live heir, but for     *)
(* requests that were already past their read.                             *)
(***************************************************************************)
ReuseIsContained == Live \cap Family(gone) \subseteq late

(***************************************************************************)
(* Changing the password signs everyone else out: a live session descends  *)
(* from a credential that was checked under the password of today, unless  *)
(* the check was already done when the password changed.                   *)
(***************************************************************************)
SurvivorsAreCurrent == \A t \in Live \ late : proof[t] = password

(***************************************************************************)
(* Completing a recovery kills every other pending recovery: what is still *)
(* pending was mailed later.                                               *)
(***************************************************************************)
OneRecoveryEach ==
    [][\A l \in Links : link[l] = "recover" /\ resets' # resets /\ link' # link
                            => link'[l] = "dead"]_vars

(***************************************************************************)
(* "An in-flight session dies at its next refresh": while the account is   *)
(* refused no request issues a session, except one that had passed the     *)
(* gate when the ban fell.                                                 *)
(***************************************************************************)
NoSessionWhileBlocked ==
    [][issued' # issued /\ blocked' # {}
        => \E r \in graced : pc[r] \in {"grant", "rotate"} /\ pc'[r] = "idle"]_vars

(***************************************************************************)
(* update_password: "the caller keeps a session, everyone else is signed   *)
(* out" - without the exception for requests under way.                    *)
(***************************************************************************)
EveryoneElseIsOut == \A t \in Live : proof[t] = password

-----------------------------------------------------------------------------
(* The strengthening that makes the safety properties inductive.           *)

\* A parent is issued before its child.
ParentsFirst == \A t \in Tokens : parent[t] < t

\* A refresh that nothing overtook read a token that is still live.
FreshReads ==
    \A r \in Requests \ stale : pc[r] \in {"gate", "rotate"} => arg[r] \in Live

\* What was reported as a reuse, or will be, is a revoked token.
ReuseReads ==
    /\ gone \subseteq revoked
    /\ \A r \in Requests : pc[r] = "reuse" => arg[r] \in revoked

\* A grant that nothing overtook checked the password of today.
FreshProofs ==
    \A r \in Requests \ stale :
        pc[r] \in {"activate", "grantGate", "grant"} => arg[r] = password

\* Generation by generation, the heirs of what was signed out or reused are
\* signed out too, or late; and the heirs of late tokens are late.
HeirsOut ==
    \A c \in Tokens :
        /\ parent[c] \in killed \cup gone => c \in killed \cup late
        /\ parent[c] \in late => c \in late

\* Past the gate of a refused account are only those a ban overtook there.
PastTheGate ==
    blocked # {} => \A r \in Requests : pc[r] \in {"grant", "rotate"} => r \in graced

(***************************************************************************)
(* The inductive invariant of the proofs about sessions: the types, the    *)
(* meaning of what requests have read, the order of generations, and the   *)
(* two properties that hold by induction together with them.               *)
(***************************************************************************)
IInv ==
    /\ TypeOK
    /\ ParentsFirst
    /\ FreshReads /\ ReuseReads /\ FreshProofs
    /\ HeirsOut
    /\ PastTheGate
    /\ RedeemedOnce
    /\ SurvivorsAreCurrent

=============================================================================
