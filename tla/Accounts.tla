------------------------------ MODULE Accounts ------------------------------
(***************************************************************************)
(* The logins of the back office: accounts, their sessions, the second     *)
(* factor, and the two scripts that open and close a demo database.  A     *)
(* route that hashes or verifies between two transactions is a request     *)
(* with a state of its own: what it read first may no longer hold when it  *)
(* commits.  A route of the form "write" checks its session again inside   *)
(* its one transaction and is one action.                                  *)
(*                                                                         *)
(* Time is counted in TOTP steps.  Random values (session tokens, secrets) *)
(* never repeat: a new one is any that nothing refers to any more.         *)
(***************************************************************************)
EXTENDS Integers, FiniteSets

CONSTANTS
  None,
  Users,        \* logins that may exist
  RoleOf,       \* role of each login; no route changes it
  PartnerOf,    \* its partner, None for BATYEO staff
  DemoUsers,    \* those created by the demo seed
  DemoPartners, \* the partners it creates
  WithPhone,    \* those who set up a second factor
  Tokens,       \* session tokens
  Secrets,      \* secrets of the second factor
  Steps,        \* steps the codes of the phones are for
  Requests,     \* requests in flight at once
  SessionLife,  \* life of a session, in TOTP steps
  MaxTime,      \* bound of the clock
  MaxVersion    \* bound of the password changes of one account

Roles == {"SUPER_ADMIN", "ADMIN", "OPERATIONS", "PARTNER_ADMIN", "PARTNER_USER"}
IsPartnerRole(role) == role \in {"PARTNER_ADMIN", "PARTNER_USER"}

\* Staff have no partner and a partner's login has one, as actorForUser requires.
ASSUME RolesAssumption ==
  /\ RoleOf \in [Users -> Roles]
  /\ None \notin Users \cup Tokens \cup Secrets \cup Steps
  /\ \A u \in Users : PartnerOf[u] = None <=> ~IsPartnerRole(RoleOf[u])
ASSUME DemoAssumption == DemoUsers \subseteq Users /\ \E u \in DemoUsers : RoleOf[u] = "SUPER_ADMIN"
ASSUME AccountBounds == Steps \subseteq Nat /\ SessionLife \in Nat /\ MaxTime \in Nat /\ MaxVersion \in Nat

VARIABLES
  users,     \* the accounts created so far
  sessions,  \* stored sessions; "proof" and "code" record what opened them
  request,   \* what each request in flight has read
  spent,     \* history: codes a login was opened with, per set-up of the second factor
  now        \* the clock
vars == <<users, sessions, request, spent, now>>

\* A stored hash stands for a password and its salt: two hashes of one account differ.  It is
\* numbered by the version that made it, and Legacy in the form the demo seed writes.
Legacy == -1
Hash == Nat \cup {Legacy}
Account == [hash : Hash, disabled : BOOLEAN, version : Nat,
            secret : Secrets \cup {None}, enabled : BOOLEAN, last : Nat \cup {None}]
Code == [secret : Secrets, step : Nat]
Session == [id : Tokens, user : Users, version : Nat, expires : Nat,
            proof : Nat, code : Code \cup {None}]
Asking(op, user, hash, token, step, secret) ==
  [op |-> op, user |-> user, hash |-> hash, token |-> token, step |-> step, secret |-> secret]
Idle == Asking("idle", None, None, None, None, None)

\* Mutant: an account made without its authVersion.
NewAccountUnversioned(hash) ==
  [hash |-> hash, disabled |-> FALSE, version |-> None, secret |-> None, enabled |-> FALSE, last |-> None]
NewAccount(hash) ==
  [hash |-> hash, disabled |-> FALSE, version |-> 0, secret |-> None, enabled |-> FALSE, last |-> None]

\* An empty database, or one holding the demo seed, whose hashes are of the old form.
Init ==
  /\ \E created \in {{}, DemoUsers} : users = [u \in created |-> NewAccount(Legacy)]
  /\ sessions = {}
  /\ request = [p \in Requests |-> Idle]
  /\ spent = {}
  /\ now = 1

-----------------------------------------------------------------------------
(* Who a session stands for, and what a role may do. *)

Known == DOMAIN users
\* actorForDigest and actorForUser.
Authenticated(s) ==
  /\ s.expires > now
  /\ s.user \in Known
  /\ users[s.user].version = s.version
  /\ ~users[s.user].disabled
Actors == {s \in sessions : Authenticated(s)}

MayUse(capability) ==
  CASE capability = "read"     -> Roles
    [] capability = "settings" -> {"SUPER_ADMIN", "ADMIN", "PARTNER_ADMIN"}
\* authorize, inside the transaction of "write".
Writers(capability) == {s \in Actors : RoleOf[s.user] \in MayUse(capability)}

\* Mutant: one's own account may be managed like any other.
ManagesSelf(a, u) ==
  /\ u \in Known
  /\ RoleOf[a] = "PARTNER_ADMIN" => PartnerOf[u] = PartnerOf[a]
  /\ ~(RoleOf[a] = "ADMIN" /\ RoleOf[u] = "SUPER_ADMIN")

\* managed: whom an actor may disable or give a new password.
Manages(a, u) ==
  /\ u \in Known
  /\ u # a
  /\ RoleOf[a] = "PARTNER_ADMIN" => PartnerOf[u] = PartnerOf[a]
  /\ ~(RoleOf[a] = "ADMIN" /\ RoleOf[u] = "SUPER_ADMIN")

\* verifyTotp: the step of the code, one before or one after; never one already used.
Accepts(step, last) == step \in now - 1 .. now + 1 /\ (last # None => step > last)

\* A random value: one that no session, account or request refers to.
NewTokens == Tokens \ ({s.id : s \in sessions} \cup {request[p].token : p \in Requests})
NewSecrets ==
  Secrets \ ({users[u].secret : u \in Known} \cup {request[p].secret : p \in Requests}
              \cup {c.secret : c \in spent})
Busy(p, op) == request[p].op = op
Done(p) == request' = [request EXCEPT ![p] = Idle]
Dropping(u) == {s \in sessions : s.user # u}

-----------------------------------------------------------------------------
(* Signing in. *)

\* The password and the code are verified against the account as it is read here.
LoginRead(p, u, step) ==
  /\ Busy(p, "idle")
  /\ u \in Known
  /\ IF users[u].enabled /\ users[u].secret # None
       THEN Accepts(step, users[u].last)
       ELSE step = None
  /\ request' = [request EXCEPT ![p] =
       Asking("login", u, users[u].hash, None, step, users[u].secret)]
  /\ UNCHANGED <<users, sessions, spent, now>>

\* The version whose password a hash was made from.  A hash of the old form, always version 0,
\* is replaced at login by one of the new form.
PasswordOf(hash) == IF hash = Legacy THEN 0 ELSE hash

\* Mutants: the transaction forgets the password, the closed account, or the used code.
CanLoginAnyHash(r) ==
  /\ ~users[r.user].disabled
  /\ (r.step # None /\ users[r.user].last # None) => r.step > users[r.user].last
CanLoginDisabled(r) ==
  /\ users[r.user].hash = r.hash
  /\ (r.step # None /\ users[r.user].last # None) => r.step > users[r.user].last
CanLoginReplay(r) ==
  /\ users[r.user].hash = r.hash
  /\ ~users[r.user].disabled

CanLogin(r) ==
  /\ users[r.user].hash = r.hash
  /\ ~users[r.user].disabled
  /\ (r.step # None /\ users[r.user].last # None) => r.step > users[r.user].last

\* The session this browser had, if any, ends with it.
LoginCommit(p, old) ==
  /\ Busy(p, "login")
  /\ LET r == request[p]
         code == IF r.step = None THEN None ELSE [secret |-> r.secret, step |-> r.step]
     IN \E token \in NewTokens :
        /\ CanLogin(r)
        /\ users' = [users EXCEPT
             ![r.user].hash = PasswordOf(r.hash),
             ![r.user].last = IF r.step = None THEN @ ELSE r.step]
        /\ sessions' = {s \in sessions : s.expires > now /\ s # old} \cup
             {[id |-> token, user |-> r.user, version |-> users[r.user].version,
               expires |-> now + SessionLife, proof |-> PasswordOf(r.hash), code |-> code]}
        /\ spent' = spent \cup ({code} \ {None})
  /\ Done(p)
  /\ UNCHANGED now

Logout(s) ==
  /\ sessions' = sessions \ {s}
  /\ UNCHANGED <<users, request, spent, now>>

-----------------------------------------------------------------------------
(* Administering the accounts of others: one transaction each. *)

\* A partner comes with its first login and neither is ever deleted.
Partners ==
  ({PartnerOf[u] : u \in Known} \ {None}) \cup (IF DemoUsers \subseteq Known THEN DemoPartners ELSE {})
WithNew(u) == [v \in Known \cup {u} |-> IF v = u THEN NewAccount(0) ELSE users[v]]

CreatePartner(s, u) ==
  /\ s \in Writers("settings") /\ RoleOf[s.user] \in {"SUPER_ADMIN", "ADMIN"}
  /\ u \notin Known /\ RoleOf[u] = "PARTNER_ADMIN" /\ PartnerOf[u] \notin Partners
  /\ users' = WithNew(u)
  /\ UNCHANGED <<sessions, request, spent, now>>

CreateTeamMember(s, u) ==
  /\ s \in Writers("settings")
  /\ u \notin Known /\ PartnerOf[u] \in Partners
  /\ RoleOf[s.user] = "PARTNER_ADMIN" => PartnerOf[u] = PartnerOf[s.user]
  /\ users' = WithNew(u)
  /\ UNCHANGED <<sessions, request, spent, now>>

SetUserDisabled(s, u, disabled) ==
  /\ s \in Writers("settings")
  /\ Manages(s.user, u)
  /\ users' = [users EXCEPT ![u].disabled = disabled]
  /\ sessions' = IF disabled THEN Dropping(u) ELSE sessions
  /\ UNCHANGED <<request, spent, now>>

\* Also the way back for a lost phone: the second factor is switched off.
ResetUserPassword(s, u) ==
  /\ s \in Writers("settings")
  /\ Manages(s.user, u) /\ users[u].version < MaxVersion
  /\ LET version == users[u].version + 1 IN
       users' = [users EXCEPT ![u] = [@ EXCEPT
         !.hash = version, !.version = version,
         !.secret = None, !.enabled = FALSE, !.last = None]]
  /\ sessions' = Dropping(u)
  /\ UNCHANGED <<request, spent, now>>

-----------------------------------------------------------------------------
(* One's own account.  The session is checked when the request starts and   *)
(* not again when it commits.                                              *)

Starts(p, s, what) ==
  /\ Busy(p, "idle")
  /\ s \in Writers("read")
  /\ request' = [request EXCEPT ![p] = what]
  /\ UNCHANGED <<users, sessions, spent, now>>

SetupRead(p, s) ==
  /\ s.user \in WithPhone
  /\ \E secret \in NewSecrets :
       Starts(p, s, Asking("setup", s.user, None, None, None, secret))
SetupCommit(p) ==
  /\ Busy(p, "setup")
  /\ ~users[request[p].user].enabled
  /\ users' = [users EXCEPT ![request[p].user].secret = request[p].secret]
  /\ Done(p)
  /\ UNCHANGED <<sessions, spent, now>>

EnableRead(p, s, step) ==
  /\ users[s.user].secret # None /\ ~users[s.user].enabled
  /\ Accepts(step, None)
  /\ Starts(p, s, Asking("enable", s.user, None, None, step, users[s.user].secret))
\* Mutant: the secret is not compared with the one the code was verified for.
EnableCommitUnchecked(p) ==
  /\ Busy(p, "enable")
  /\ LET r == request[p] IN
       /\ users' = [users EXCEPT ![r.user].enabled = TRUE, ![r.user].last = r.step]
       /\ spent' = {c \in spent : c.secret # r.secret} \cup {[secret |-> r.secret, step |-> r.step]}
  /\ Done(p)
  /\ UNCHANGED <<sessions, now>>

\* A new set-up: the history of codes starts again for this secret.
EnableCommit(p) ==
  /\ Busy(p, "enable")
  /\ LET r == request[p] IN
       /\ users[r.user].secret = r.secret
       /\ users' = [users EXCEPT ![r.user].enabled = TRUE, ![r.user].last = r.step]
       /\ spent' = {c \in spent : c.secret # r.secret} \cup {[secret |-> r.secret, step |-> r.step]}
  /\ Done(p)
  /\ UNCHANGED <<sessions, now>>

DisableRead(p, s, step) ==
  /\ users[s.user].enabled /\ users[s.user].secret # None
  /\ Accepts(step, users[s.user].last)
  /\ Starts(p, s, Asking("disable", s.user, None, None, None, None))
DisableCommit(p) ==
  /\ Busy(p, "disable")
  /\ users' = [users EXCEPT ![request[p].user] =
       [@ EXCEPT !.secret = None, !.enabled = FALSE, !.last = None]]
  /\ Done(p)
  /\ UNCHANGED <<sessions, spent, now>>

PasswordRead(p, s) ==
  /\ users[s.user].version < MaxVersion
  /\ Starts(p, s, Asking("password", s.user, users[s.user].hash, s.id, None, None))
\* applyOwnPassword: the session that asked for it survives, the others of this account do not.
PasswordCommit(p) ==
  /\ Busy(p, "password")
  /\ LET r == request[p]
         version == users[r.user].version + 1
     IN /\ users[r.user].hash = r.hash
        /\ users' = [users EXCEPT ![r.user].hash = version, ![r.user].version = version]
        /\ sessions' = {s \in sessions : s.user # r.user} \cup
             {[s EXCEPT !.version = version, !.proof = version] :
                s \in {t \in sessions : t.user = r.user /\ t.id = r.token}}
  /\ Done(p)
  /\ UNCHANGED <<spent, now>>

\* The transaction refuses, or the server stops.
Refused(p) ==
  /\ ~Busy(p, "idle")
  /\ Done(p)
  /\ UNCHANGED <<users, sessions, spent, now>>

-----------------------------------------------------------------------------
(* Scripts and the nightly job. *)

\* bootstrapOperator: refused once a real account exists.
BootstrapOperator(u) ==
  /\ Known \subseteq DemoUsers
  /\ u \notin DemoUsers /\ RoleOf[u] = "SUPER_ADMIN"
  /\ users' = WithNew(u)
  /\ UNCHANGED <<sessions, request, spent, now>>

RetireDemoAccounts ==
  /\ \E u \in Known \ DemoUsers : RoleOf[u] = "SUPER_ADMIN" /\ ~users[u].disabled
  /\ users' = [u \in Known |-> IF u \in DemoUsers THEN [users[u] EXCEPT !.disabled = TRUE] ELSE users[u]]
  /\ sessions' = {s \in sessions : s.user \notin DemoUsers}
  /\ UNCHANGED <<request, spent, now>>

PurgeExpiredRecords ==
  /\ sessions' = {s \in sessions : s.expires > now}
  /\ UNCHANGED <<users, request, spent, now>>

Tick ==
  /\ now < MaxTime
  /\ now' = now + 1
  /\ UNCHANGED <<users, sessions, request, spent>>

SignIn(p) ==
  \/ \E u \in Users, step \in Steps \cup {None} : LoginRead(p, u, step)
  \/ \E old \in sessions \cup {None} : LoginCommit(p, old)
-----------------------------------------------------------------------------
(* The forms of the portal, on the dashboard of a session. *)

\* TwoFactorCard: switch off what is on, else set up, then confirm with a first code.
TwoFactorCard(p, s) ==
  \/ SetupRead(p, s)
  \/ \E step \in Steps : EnableRead(p, s, step) \/ DisableRead(p, s, step)

\* The button offers the opposite of what the row showed, which may have changed since.
TeamRowActions(s, u) ==
  \/ \E shown \in BOOLEAN : SetUserDisabled(s, u, ~shown)
  \/ ResetUserPassword(s, u)
\* Staff pick the partner of a new login; a partner's login gives its own.
TeamPanel(s) == \E u \in Users : CreateTeamMember(s, u) \/ TeamRowActions(s, u)

OwnAccount(p) ==
  \/ \E s \in sessions : TwoFactorCard(p, s) \/ PasswordRead(p, s)
  \/ SetupCommit(p) \/ EnableCommit(p) \/ DisableCommit(p) \/ PasswordCommit(p)
Administration ==
  \E s \in sessions : TeamPanel(s) \/ \E u \in Users : CreatePartner(s, u)

Next ==
  \/ \E p \in Requests : SignIn(p) \/ OwnAccount(p) \/ Refused(p)
  \/ Administration
  \/ \E s \in sessions : Logout(s)
  \/ \E u \in Users : BootstrapOperator(u)
  \/ RetireDemoAccounts
  \/ PurgeExpiredRecords
  \/ Tick

Spec == Init /\ [][Next]_vars

-----------------------------------------------------------------------------
(* Properties *)

TypeOK ==
  /\ Known \subseteq Users /\ users \in [Known -> Account]
  /\ sessions \subseteq Session
  /\ DOMAIN request = Requests
  /\ now \in Nat
  /\ spent \subseteq Code

\* Somebody can always administer the platform: whatever two administrators do to each other
\* at the same time, and whether or not the demo accounts are retired, an active SUPER_ADMIN
\* remains once there is one (managed, actorForDigest, retireDemoAccounts).
SomeoneOwns ==
  Known # {} => \E u \in Known : RoleOf[u] = "SUPER_ADMIN" /\ ~users[u].disabled

\* "Disabling takes effect on the very next request": no session of a disabled account is kept,
\* not even one whose login was being verified meanwhile, so enabling it again revives none.  And a
\* session that is accepted was opened with the password of today, or made the change itself: a
\* login that verified the old password does not survive a reset (authVersion and passwordHash).
SessionIsCurrent ==
  /\ \A s \in sessions : s.user \in Known /\ ~users[s.user].disabled
  /\ \A s \in Actors : s.proof = PasswordOf(users[s.user].hash) /\ s.proof = users[s.user].version

\* The rows keep their types, and login asks for a code only where there is one: an account with
\* the second factor on has its secret, however set-up, confirmation, switch-off and reset overlap.
AccountsConsistent ==
  TypeOK /\ \A u \in Known : users[u].enabled => users[u].secret # None

\* A code opens at most one session while its secret stays set up, although it is verified
\* before the transaction and two logins may carry it together (totpLastStep).
Opens(s) == s.id \notin {t.id : t \in sessions} /\ s.code # None
CodeOpensOneSession ==
  [][\A s \in sessions' :
       (Opens(s) /\ users[s.user].secret = s.code.secret) => s.code \notin spent]_vars
=============================================================================
