--------------------------- MODULE AccountsProofs ---------------------------
(***************************************************************************)
(* What holds of the accounts for any number of logins, sessions, secrets, *)
(* requests in flight and codes: somebody can always administer, a session *)
(* is one of its account as it stands today, and a code opens one session. *)
(***************************************************************************)
EXTENDS Accounts, TLAPS

-----------------------------------------------------------------------------
(* The inductive invariant.                                                  *)

Request == [op : {"idle", "login", "setup", "enable", "disable", "password"},
            user : Users \cup {None}, hash : Hash \cup {None}, token : Tokens \cup {None},
            step : Steps \cup {None}, secret : Secrets \cup {None}]
Rows ==
  /\ users \in [Known -> Account] /\ Known \subseteq Users
  /\ sessions \subseteq Session
  /\ request \in [Requests -> Request]
  /\ spent \subseteq Code
  /\ now \in Nat

\* A request in flight names an account, and holds what its kind of request has read.
Reads(r) ==
  /\ r.op # "idle" => r.user \in Known
  /\ r.op \in {"login", "password"} => r.hash \in Hash
  /\ (r.op = "login" /\ r.step # None) => r.secret \in Secrets
  /\ r.op \in {"enable", "setup"} => r.secret \in Secrets
  /\ r.op = "enable" => r.step \in Steps
InFlight == \A p \in Requests : Reads(request[p])

\* The stored hash is that of the password of today, and the second factor has its secret.
Coherent(a) ==
  /\ PasswordOf(a.hash) = a.version
  /\ a.enabled => a.secret # None
Accounted == \A u \in Known : Coherent(users[u])

\* No session of before a change of password is kept, and none of a closed account.
Signed ==
  \A s \in sessions :
    /\ s.user \in Known /\ ~users[s.user].disabled
    /\ s.version = users[s.user].version /\ s.proof = s.version

\* A secret is one account's: that of the request that carries it, and nobody's yet in a set-up.
Private ==
  /\ \A u, v \in Known : (users[u].secret # None /\ users[u].secret = users[v].secret) => u = v
  /\ \A p \in Requests, v \in Known :
       (request[p].op # "setup" /\ request[p].secret # None /\ request[p].secret = users[v].secret)
         => request[p].user = v
New(p) ==
  /\ \A v \in Known : users[v].secret # request[p].secret
  /\ \A c \in spent : c.secret # request[p].secret
  /\ \A q \in Requests \ {p} : request[q].secret # request[p].secret
Unseen == \A p \in Requests : request[p].op = "setup" => New(p)

\* A code spent on the secret of an account is not later than the last one the account accepted.
Spent ==
  \A c \in spent, u \in Known :
    users[u].secret = c.secret => users[u].last # None /\ c.step <= users[u].last

AccountsInv ==
  Rows /\ InFlight /\ Accounted /\ Signed /\ Private /\ Unseen /\ Spent /\ SomeoneOwns

-----------------------------------------------------------------------------
(* It holds at first.                                                        *)

LEMMA NewAccountTyped ==
  \A hash \in {0, Legacy} : NewAccount(hash) \in Account /\ Coherent(NewAccount(hash))
    /\ NewAccount(hash).secret = None /\ ~NewAccount(hash).disabled
BY DEF NewAccount, Account, Hash, Legacy, Coherent, PasswordOf

LEMMA AccountsStart == Init => AccountsInv
<1> SUFFICES ASSUME Init PROVE AccountsInv
  OBVIOUS
<1>1. PICK created \in {{}, DemoUsers} : users = [u \in created |-> NewAccount(Legacy)]
  BY DEF Init
<1>2. Known = created /\ Known \subseteq Users /\ \A u \in Known : users[u] = NewAccount(Legacy)
  BY <1>1, DemoAssumption DEF Known
<1>3. /\ users \in [Known -> Account]
     /\ \A u \in Known : Coherent(users[u]) /\ users[u].secret = None /\ ~users[u].disabled
  BY <1>1, <1>2, NewAccountTyped
<1>4. Rows
  BY <1>2, <1>3 DEF Init, Rows, Idle, Asking, Request
<1>5. InFlight /\ Unseen
  BY DEF Init, InFlight, Reads, Idle, Asking, Unseen
<1>6. Accounted /\ Signed /\ Spent
  BY <1>3 DEF Init, Accounted, Signed, Spent
<1>7. Private
  BY <1>3 DEF Init, Private, Idle, Asking
<1>8. SomeoneOwns
  BY <1>2, <1>3, DemoAssumption DEF SomeoneOwns
<1> QED
  BY <1>4, <1>5, <1>6, <1>7, <1>8 DEF AccountsInv

-----------------------------------------------------------------------------
(* What a session proves.                                                    *)

\* The session a route was called with is of an account, open today.
LEMMA ActorKnown ==
  ASSUME AccountsInv, NEW capability \in {"read", "settings"}, NEW s \in Writers(capability)
  PROVE  s \in sessions /\ s.user \in Known /\ ~users[s.user].disabled
BY DEF Writers, Actors, Authenticated

\* Nobody but a SUPER_ADMIN manages one, and never oneself.
LEMMA OwnersManageOwners ==
  ASSUME AccountsInv, NEW s \in Writers("settings"), NEW u \in Users, Manages(s.user, u),
         RoleOf[u] = "SUPER_ADMIN"
  PROVE  RoleOf[s.user] = "SUPER_ADMIN" /\ s.user # u
<1>1. RoleOf[s.user] \in {"SUPER_ADMIN", "ADMIN", "PARTNER_ADMIN"} /\ s.user \in Users
  BY ActorKnown DEF Writers, MayUse, AccountsInv, Rows
<1>2. RoleOf[s.user] # "ADMIN" /\ s.user # u
  BY DEF Manages
<1>3. RoleOf[s.user] # "PARTNER_ADMIN"
  BY <1>1, RolesAssumption DEF Manages, IsPartnerRole
<1> QED
  BY <1>1, <1>2, <1>3

-----------------------------------------------------------------------------
(* One account changes, or one is new.                                       *)

\* The other accounts stay as they are.
Changes(u) ==
  /\ Known' = Known /\ users' \in [Known -> Account]
  /\ \A v \in Known \ {u} : users'[v] = users[v]

LEMMA Created ==
  ASSUME AccountsInv, NEW u \in Users \ Known, users' = WithNew(u)
  PROVE  /\ Known' = Known \cup {u} /\ users' \in [Known' -> Account]
         /\ users'[u] = NewAccount(0) /\ \A v \in Known : users'[v] = users[v]
BY NewAccountTyped DEF AccountsInv, Rows, WithNew, Known

\* A new login disturbs nothing: it has no session, no request and no secret.
LEMMA CreateStep ==
  ASSUME AccountsInv, NEW u \in Users \ Known, users' = WithNew(u),
         UNCHANGED <<sessions, request, spent, now>>,
         Known = {} => RoleOf[u] = "SUPER_ADMIN"
  PROVE  AccountsInv'
<1> USE Created, NewAccountTyped
<1>1. Rows'
  BY DEF AccountsInv, Rows
<1>2. InFlight'
  BY DEF AccountsInv, InFlight, Reads
<1>3. Accounted'
  BY DEF AccountsInv, Accounted
<1>4. Signed'
  BY DEF AccountsInv, Signed
<1>5. Private'
  BY DEF AccountsInv, Private
<1>6. Unseen'
  <2>1. \A p \in Requests : request[p].op = "setup" => request[p].secret # None
    BY RolesAssumption DEF AccountsInv, InFlight, Reads
  <2> QED
    BY <2>1 DEF AccountsInv, Unseen, New
<1>7. Spent'
  <2>1. \A c \in spent : c.secret # None
    BY RolesAssumption DEF AccountsInv, Rows, Code
  <2> QED
    BY <2>1 DEF AccountsInv, Spent
<1>8. SomeoneOwns'
  BY DEF AccountsInv, SomeoneOwns
<1> QED
  BY <1>1, <1>2, <1>3, <1>4, <1>5, <1>6, <1>7, <1>8 DEF AccountsInv

-----------------------------------------------------------------------------
(* A request starts or ends.                                                 *)

LEMMA IdleTyped == Idle \in Request /\ Reads(Idle) /\ Idle.op = "idle" /\ Idle.secret = None
BY DEF Idle, Asking, Request, Reads

\* A request that starts carries the secret of its account, or one nobody has yet.
LEMMA AskStep ==
  ASSUME AccountsInv, NEW p \in Requests, NEW r \in Request, Reads(r),
         request' = [request EXCEPT ![p] = r], UNCHANGED <<users, sessions, spent, now>>,
         \/ r.secret = None
         \/ r.op = "setup" /\ r.secret \in NewSecrets
         \/ r.op \notin {"setup", "idle"} /\ r.secret = users[r.user].secret
  PROVE  AccountsInv'
<1>1. request'[p] = r /\ \A q \in Requests \ {p} : request'[q] = request[q]
  BY DEF AccountsInv, Rows
<1>2. Known' = Known
  BY DEF Known
<1>3. Rows' /\ Accounted' /\ Signed' /\ Spent' /\ SomeoneOwns'
  BY <1>2 DEF AccountsInv, Rows, Accounted, Signed, Spent, SomeoneOwns
<1>4. InFlight'
  BY <1>1, <1>2 DEF AccountsInv, InFlight, Reads
<1>5. Private'
  <2>1. r.op \notin {"setup", "idle"} => r.user \in Known
    BY DEF Reads
  <2> QED
    BY <1>1, <1>2, <2>1 DEF AccountsInv, Private
<1>6. Unseen'
  <2> SUFFICES ASSUME NEW q \in Requests, request'[q].op = "setup" PROVE New(q)'
    BY DEF Unseen
  <2>1. CASE q = p
    <3>1. r.secret \in NewSecrets
      BY <1>1, <2>1, RolesAssumption DEF Reads
    <3> QED
      BY <1>1, <1>2, <2>1, <3>1 DEF New, NewSecrets
  <2>2. CASE q # p
    <3>1. New(q) /\ request'[q] = request[q] /\ request[q].secret # None
      BY <1>1, <2>2, RolesAssumption DEF AccountsInv, Unseen, InFlight, Reads
    <3>2. request[q].secret # r.secret
      <4>1. r.secret \in NewSecrets => r.secret # request[q].secret
        BY DEF NewSecrets
      <4>2. r.op \notin {"setup", "idle"} => r.user \in Known
        BY DEF Reads
      <4> QED
        BY <3>1, <4>1, <4>2 DEF New
    <3> QED
      BY <1>1, <1>2, <2>2, <3>1, <3>2 DEF New
  <2> QED
    BY <2>1, <2>2
<1> QED
  BY <1>3, <1>4, <1>5, <1>6 DEF AccountsInv

LEMMA RefusedStep ==
  ASSUME AccountsInv, NEW p \in Requests, Refused(p)
  PROVE  AccountsInv'
BY AskStep, IdleTyped DEF Refused, Done

LEMMA LoginReadStep ==
  ASSUME AccountsInv, NEW p \in Requests, NEW u \in Users, NEW step \in Steps \cup {None},
         LoginRead(p, u, step)
  PROVE  AccountsInv'
<1> DEFINE r == Asking("login", u, users[u].hash, None, step, users[u].secret)
<1>1. u \in Known /\ users[u] \in Account
  BY DEF LoginRead, AccountsInv, Rows
<1>2. r = [op |-> "login", user |-> u, hash |-> users[u].hash, token |-> None, step |-> step,
           secret |-> users[u].secret]
  BY DEF Asking
<1>3. step # None => users[u].secret # None
  BY DEF LoginRead
<1>4. r \in Request /\ Reads(r)
  BY <1>1, <1>2, <1>3 DEF Request, Reads, Account
<1>5. request' = [request EXCEPT ![p] = r] /\ UNCHANGED <<users, sessions, spent, now>>
  BY DEF LoginRead
<1>6. r.op = "login" /\ r.secret = users[r.user].secret
  BY <1>2
<1> HIDE DEF r
<1> QED
  BY <1>4, <1>5, <1>6, AskStep

LEMMA OwnReadStep ==
  ASSUME AccountsInv, NEW p \in Requests, NEW s \in sessions,
         \/ SetupRead(p, s)
         \/ \E step \in Steps : EnableRead(p, s, step) \/ DisableRead(p, s, step)
         \/ PasswordRead(p, s)
  PROVE  AccountsInv'
<1>1. s.user \in Known /\ users[s.user] \in Account /\ s \in Session
  BY DEF AccountsInv, Rows, Signed
<1>2. CASE SetupRead(p, s)
  <2>1. PICK secret \in NewSecrets :
          Starts(p, s, Asking("setup", s.user, None, None, None, secret))
    BY <1>2 DEF SetupRead
  <2> DEFINE r == Asking("setup", s.user, None, None, None, secret)
  <2>2. r = [op |-> "setup", user |-> s.user, hash |-> None, token |-> None, step |-> None,
             secret |-> secret]
    BY DEF Asking
  <2>3. r \in Request /\ Reads(r) /\ r.op = "setup" /\ r.secret \in NewSecrets
    BY <1>1, <2>2 DEF Request, Reads, NewSecrets, AccountsInv, Rows
  <2>4. request' = [request EXCEPT ![p] = r] /\ UNCHANGED <<users, sessions, spent, now>>
    BY <2>1 DEF Starts
  <2> HIDE DEF r
  <2> QED
    BY <2>3, <2>4, AskStep
<1>3. ASSUME NEW step \in Steps, EnableRead(p, s, step) PROVE AccountsInv'
  <2> DEFINE r == Asking("enable", s.user, None, None, step, users[s.user].secret)
  <2>1. r = [op |-> "enable", user |-> s.user, hash |-> None, token |-> None, step |-> step,
             secret |-> users[s.user].secret]
    BY DEF Asking
  <2>2. r \in Request /\ Reads(r) /\ r.op = "enable" /\ r.secret = users[r.user].secret
    BY <1>1, <1>3, <2>1 DEF Request, Reads, EnableRead, Account, AccountsInv, Rows
  <2>3. request' = [request EXCEPT ![p] = r] /\ UNCHANGED <<users, sessions, spent, now>>
    BY <1>3 DEF EnableRead, Starts
  <2> HIDE DEF r
  <2> QED
    BY <2>2, <2>3, AskStep
<1>4. ASSUME NEW step \in Steps, DisableRead(p, s, step) PROVE AccountsInv'
  <2> DEFINE r == Asking("disable", s.user, None, None, None, None)
  <2>1. r = [op |-> "disable", user |-> s.user, hash |-> None, token |-> None, step |-> None,
             secret |-> None]
    BY DEF Asking
  <2>2. r \in Request /\ Reads(r) /\ r.secret = None
    BY <1>1, <2>1 DEF Request, Reads, AccountsInv, Rows
  <2>3. request' = [request EXCEPT ![p] = r] /\ UNCHANGED <<users, sessions, spent, now>>
    BY <1>4 DEF DisableRead, Starts
  <2> HIDE DEF r
  <2> QED
    BY <2>2, <2>3, AskStep
<1>5. CASE PasswordRead(p, s)
  <2> DEFINE r == Asking("password", s.user, users[s.user].hash, s.id, None, None)
  <2>1. r = [op |-> "password", user |-> s.user, hash |-> users[s.user].hash, token |-> s.id,
             step |-> None, secret |-> None]
    BY DEF Asking
  <2>2. r \in Request /\ Reads(r) /\ r.secret = None
    BY <1>1, <2>1 DEF Request, Reads, Account, Session, AccountsInv, Rows
  <2>3. request' = [request EXCEPT ![p] = r] /\ UNCHANGED <<users, sessions, spent, now>>
    BY <1>5 DEF PasswordRead, Starts
  <2> HIDE DEF r
  <2> QED
    BY <2>2, <2>3, AskStep
<1> QED
  BY <1>2, <1>3, <1>4, <1>5

-----------------------------------------------------------------------------
(* An account changes: what the requests and the other accounts keep.        *)

\* A secret comes to an account from its own set-up, or was there; a code is spent by a request
\* that carries its secret.
LEMMA AccountStep ==
  ASSUME AccountsInv, NEW p \in Requests, NEW u \in Known, Changes(u), Coherent(users'[u]),
         request' = request \/ request' = [request EXCEPT ![p] = Idle],
         \/ users'[u].secret \in {None, users[u].secret}
         \/ request[p].op = "setup" /\ request[p].user = u /\ request[p].secret = users'[u].secret
            /\ request' = [request EXCEPT ![p] = Idle],
         spent' \subseteq Code,
         \A c \in spent' : c \in spent \/ (request[p].op # "setup" /\ c.secret = request[p].secret
                                          /\ request[p].secret # None)
  PROVE  /\ InFlight' /\ Accounted' /\ Private' /\ Unseen'
         /\ request' \in [Requests -> Request]
<1>1. /\ Known' = Known /\ users' \in [Known -> Account]
      /\ \A v \in Known \ {u} : users'[v] = users[v]
  BY DEF Changes
<1>2. \A q \in Requests : request'[q] = request[q] \/ (q = p /\ request'[q] = Idle)
  BY DEF AccountsInv, Rows
<1>3. request' \in [Requests -> Request]
  BY IdleTyped DEF AccountsInv, Rows
<1>4. InFlight'
  BY <1>1, <1>2, IdleTyped DEF AccountsInv, InFlight, Reads
<1>5. Accounted'
  BY <1>1 DEF AccountsInv, Accounted
<1>6. Private'
  <2>1. CASE users'[u].secret \in {None, users[u].secret}
    BY <1>1, <1>2, <2>1, IdleTyped DEF AccountsInv, Private
  <2>2. CASE /\ request[p].op = "setup" /\ request[p].user = u /\ request[p].secret = users'[u].secret
             /\ request' = [request EXCEPT ![p] = Idle]
    <3>1. New(p) /\ request'[p] = Idle
      BY <2>2 DEF AccountsInv, Unseen, Rows
    <3>2. \A v, w \in Known : (users'[v].secret # None /\ users'[v].secret = users'[w].secret) => v = w
      BY <1>1, <2>2, <3>1 DEF AccountsInv, Private, New
    <3>3. \A q \in Requests, v \in Known :
            (request'[q].op # "setup" /\ request'[q].secret # None
               /\ request'[q].secret = users'[v].secret) => request'[q].user = v
      BY <1>1, <1>2, <2>2, <3>1, IdleTyped DEF AccountsInv, Private, New
    <3> QED
      BY <1>1, <3>2, <3>3 DEF Private
  <2> QED
    BY <2>1, <2>2
<1>7. Unseen'
  <2> SUFFICES ASSUME NEW q \in Requests, request'[q].op = "setup" PROVE New(q)'
    BY DEF Unseen
  <2>1. request'[q] = request[q] /\ New(q) /\ request[q].secret # None
    BY <1>2, IdleTyped, RolesAssumption DEF AccountsInv, Unseen, InFlight, Reads
  <2>2. request[p].op # "setup" => p # q
    BY <2>1
  <2>3. request' = [request EXCEPT ![p] = Idle] => p # q
    BY IdleTyped DEF AccountsInv, Rows
  <2>4. \A v \in Known' : users'[v].secret # request[q].secret
    BY <1>1, <2>1, <2>3 DEF New
  <2>5. \A c \in spent' : c.secret # request[q].secret
    BY <2>1, <2>2 DEF New
  <2>6. \A o \in Requests \ {q} : request'[o].secret # request[q].secret
    BY <1>2, <2>1, IdleTyped DEF New
  <2> QED
    BY <2>1, <2>4, <2>5, <2>6 DEF New
<1> QED
  BY <1>3, <1>4, <1>5, <1>6, <1>7

\* What is left to show where the account stays as open, and its owner as entitled, as it was.
LEMMA AsOpen ==
  ASSUME AccountsInv, NEW u \in Known, Changes(u), users'[u].disabled = users[u].disabled
  PROVE  /\ SomeoneOwns' /\ Known' \subseteq Users
         /\ \A v \in Known : users'[v].disabled = users[v].disabled
BY DEF AccountsInv, Rows, SomeoneOwns, Changes

LEMMA SetupCommitStep ==
  ASSUME AccountsInv, NEW p \in Requests, SetupCommit(p)
  PROVE  AccountsInv'
<1> DEFINE r == request[p]  u == r.user
<1>1. /\ u \in Known /\ r.op = "setup" /\ r.secret \in Secrets /\ New(p) /\ ~users[u].enabled
      /\ users[u] \in Account /\ Coherent(users[u])
  BY DEF SetupCommit, Busy, AccountsInv, InFlight, Reads, Unseen, Rows, Accounted
<1>2. /\ users' = [users EXCEPT ![u].secret = r.secret] /\ request' = [request EXCEPT ![p] = Idle]
      /\ UNCHANGED <<sessions, spent, now>>
  BY DEF SetupCommit, Done
<1> HIDE DEF r, u
<1>3. Changes(u)
  BY <1>1, <1>2 DEF Changes, Account, Known, AccountsInv, Rows
<1>4. /\ users'[u].secret = r.secret /\ users'[u].hash = users[u].hash
      /\ users'[u].version = users[u].version /\ users'[u].enabled = users[u].enabled
      /\ users'[u].disabled = users[u].disabled /\ users'[u].last = users[u].last
  BY <1>1, <1>2 DEF Account, Known, AccountsInv, Rows
<1>5. Coherent(users'[u])
  BY <1>1, <1>4 DEF Coherent
<1>6. InFlight' /\ Accounted' /\ Private' /\ Unseen' /\ request' \in [Requests -> Request]
  <2>1. request[p].op = "setup" /\ request[p].user = u /\ request[p].secret = users'[u].secret
    BY <1>1, <1>4 DEF r, u
  <2>2. spent' \subseteq Code /\ spent' = spent
    BY <1>2 DEF AccountsInv, Rows
  <2> QED
    BY <1>1, <1>2, <1>3, <1>5, <2>1, <2>2, AccountStep
<1>7. Rows' /\ SomeoneOwns'
  BY <1>1, <1>2, <1>3, <1>4, <1>6, AsOpen DEF AccountsInv, Rows, Changes
<1>8. Signed'
  BY <1>1, <1>2, <1>3, <1>4 DEF AccountsInv, Signed, Changes
<1>9. Spent'
  BY <1>1, <1>2, <1>3, <1>4 DEF AccountsInv, Spent, Changes, New, r
<1> QED
  BY <1>6, <1>7, <1>8, <1>9 DEF AccountsInv

LEMMA EnableCommitStep ==
  ASSUME AccountsInv, NEW p \in Requests, EnableCommit(p)
  PROVE  AccountsInv'
<1> DEFINE r == request[p]  u == r.user
<1>1. /\ u \in Known /\ r.op = "enable" /\ r.secret \in Secrets /\ r.step \in Steps
      /\ users[u].secret = r.secret /\ users[u] \in Account /\ Coherent(users[u])
  BY DEF EnableCommit, Busy, AccountsInv, InFlight, Reads, Rows, Accounted
<1>2. /\ users' = [users EXCEPT ![u].enabled = TRUE, ![u].last = r.step]
      /\ spent' = {c \in spent : c.secret # r.secret} \cup {[secret |-> r.secret, step |-> r.step]}
      /\ request' = [request EXCEPT ![p] = Idle] /\ UNCHANGED <<sessions, now>>
  BY DEF EnableCommit, Done
<1> HIDE DEF r, u
<1>3. Changes(u)
  BY <1>1, <1>2, AccountBounds DEF Changes, Account, Known, AccountsInv, Rows
<1>4. /\ users'[u].secret = users[u].secret /\ users'[u].hash = users[u].hash
      /\ users'[u].version = users[u].version /\ users'[u].disabled = users[u].disabled
      /\ users'[u].last = r.step
  BY <1>1, <1>2 DEF Account, Known, AccountsInv, Rows
<1>5. Coherent(users'[u])
  BY <1>1, <1>4, RolesAssumption DEF Coherent
<1>6. spent' \subseteq Code
  BY <1>1, <1>2, AccountBounds DEF AccountsInv, Rows, Code
<1>7. InFlight' /\ Accounted' /\ Private' /\ Unseen' /\ request' \in [Requests -> Request]
  <2>1. r.secret # None
    BY <1>1, RolesAssumption
  <2>2. \A c \in spent' : c \in spent \/ (request[p].op # "setup" /\ c.secret = request[p].secret
                                           /\ request[p].secret # None)
    BY <1>1, <1>2, <2>1 DEF r
  <2> QED
    BY <1>1, <1>2, <1>3, <1>4, <1>5, <1>6, <2>2, AccountStep
<1>8. Rows' /\ SomeoneOwns'
  BY <1>1, <1>2, <1>3, <1>4, <1>6, <1>7, AsOpen DEF AccountsInv, Rows, Changes
<1>9. Signed'
  BY <1>1, <1>2, <1>3, <1>4 DEF AccountsInv, Signed, Changes
<1>10. Spent'
  <2> SUFFICES ASSUME NEW c \in spent', NEW v \in Known, users'[v].secret = c.secret
               PROVE  users'[v].last # None /\ c.step <= users'[v].last
    BY <1>3 DEF Spent, Changes
  <2>1. CASE v = u
    <3>1. c = [secret |-> r.secret, step |-> r.step]
      BY <1>1, <1>2, <1>4, <2>1
    <3>2. c.step = r.step /\ users'[v].last = r.step
      BY <1>4, <2>1, <3>1
    <3>3. r.step # None /\ r.step \in Nat
      BY <1>1, RolesAssumption, AccountBounds
    <3> QED
      BY <3>2, <3>3
  <2>2. CASE v # u
    <3>1. users'[v] = users[v] /\ users[v].secret # r.secret
      BY <1>1, <1>3, <2>2, RolesAssumption DEF Changes, AccountsInv, Private
    <3>2. c \in spent
      BY <1>2, <3>1
    <3> QED
      BY <3>1, <3>2 DEF AccountsInv, Spent
  <2> QED
    BY <2>1, <2>2
<1> QED
  BY <1>7, <1>8, <1>9, <1>10 DEF AccountsInv

LEMMA DisableCommitStep ==
  ASSUME AccountsInv, NEW p \in Requests, DisableCommit(p)
  PROVE  AccountsInv'
<1> DEFINE r == request[p]  u == r.user
<1>1. u \in Known /\ users[u] \in Account /\ Coherent(users[u])
  BY DEF DisableCommit, Busy, AccountsInv, InFlight, Reads, Rows, Accounted
<1>2. /\ users' = [users EXCEPT ![u] = [@ EXCEPT !.secret = None, !.enabled = FALSE, !.last = None]]
      /\ request' = [request EXCEPT ![p] = Idle] /\ UNCHANGED <<sessions, spent, now>>
  BY DEF DisableCommit, Done
<1> HIDE DEF r, u
<1>3. Changes(u)
  BY <1>1, <1>2 DEF Changes, Account, Known, AccountsInv, Rows
<1>4. /\ users'[u].secret = None /\ users'[u].hash = users[u].hash
      /\ users'[u].version = users[u].version /\ users'[u].disabled = users[u].disabled
      /\ users'[u].enabled = FALSE
  BY <1>1, <1>2 DEF Account, Known, AccountsInv, Rows
<1>5. Coherent(users'[u])
  BY <1>1, <1>4 DEF Coherent
<1>6. InFlight' /\ Accounted' /\ Private' /\ Unseen' /\ request' \in [Requests -> Request]
  <2>1. spent' \subseteq Code /\ spent' = spent
    BY <1>2 DEF AccountsInv, Rows
  <2> QED
    BY <1>1, <1>2, <1>3, <1>4, <1>5, <2>1, AccountStep
<1>7. Rows' /\ SomeoneOwns'
  BY <1>1, <1>2, <1>3, <1>4, <1>6, AsOpen DEF AccountsInv, Rows, Changes
<1>8. Signed'
  BY <1>1, <1>2, <1>3, <1>4 DEF AccountsInv, Signed, Changes
<1>9. Spent'
  BY <1>1, <1>2, <1>3, <1>4, RolesAssumption DEF AccountsInv, Rows, Spent, Code, Changes
<1> QED
  BY <1>6, <1>7, <1>8, <1>9 DEF AccountsInv

LEMMA ResetStep ==
  ASSUME AccountsInv, NEW s \in sessions, NEW u \in Users, ResetUserPassword(s, u)
  PROVE  AccountsInv'
<1> DEFINE n == users[u].version + 1
<1>1. u \in Known /\ users[u] \in Account /\ n \in Nat
  BY DEF ResetUserPassword, Manages, AccountsInv, Rows, Account
<1>2. /\ users' = [users EXCEPT ![u] = [@ EXCEPT !.hash = n, !.version = n,
                     !.secret = None, !.enabled = FALSE, !.last = None]]
      /\ sessions' = Dropping(u) /\ UNCHANGED <<request, spent, now>>
  BY DEF ResetUserPassword
<1> HIDE DEF n
<1>3. Changes(u)
  BY <1>1, <1>2 DEF Changes, Account, Hash, Known, AccountsInv, Rows
<1>4. /\ users'[u].secret = None /\ users'[u].hash = n /\ users'[u].version = n
      /\ users'[u].disabled = users[u].disabled /\ users'[u].enabled = FALSE
  BY <1>1, <1>2 DEF Account, Known, AccountsInv, Rows
<1>5. Coherent(users'[u])
  BY <1>1, <1>4 DEF Coherent, PasswordOf, Legacy
<1>6. InFlight' /\ Accounted' /\ Private' /\ Unseen' /\ request' \in [Requests -> Request]
  <2>1. CASE Requests = {}
    BY <1>2, <2>1, <1>3, <1>4, <1>5 DEF AccountsInv, Rows, InFlight, Accounted, Private, Unseen, Changes
  <2>2. ASSUME NEW p \in Requests
        PROVE  InFlight' /\ Accounted' /\ Private' /\ Unseen' /\ request' \in [Requests -> Request]
    <3>1. spent' \subseteq Code /\ spent' = spent
      BY <1>2 DEF AccountsInv, Rows
    <3> QED
      BY <1>1, <1>2, <1>3, <1>4, <1>5, <3>1, AccountStep
  <2> QED
    BY <2>1, <2>2
<1>7. Rows' /\ SomeoneOwns'
  BY <1>1, <1>2, <1>3, <1>4, <1>6, AsOpen DEF AccountsInv, Rows, Changes, Dropping
<1>8. Signed'
  BY <1>1, <1>2, <1>3, <1>4 DEF AccountsInv, Signed, Changes, Dropping
<1>9. Spent'
  BY <1>1, <1>2, <1>3, <1>4, RolesAssumption DEF AccountsInv, Rows, Spent, Code, Changes
<1> QED
  BY <1>6, <1>7, <1>8, <1>9 DEF AccountsInv

\* The code of a login is later than the last one accepted, so it was never spent.
LEMMA LoginIsNew ==
  ASSUME AccountsInv, NEW p \in Requests, NEW old, LoginCommit(p, old), request[p].step # None,
         users[request[p].user].secret = request[p].secret
  PROVE  \A c \in spent : c.secret = request[p].secret => c.step < request[p].step
<1> DEFINE r == request[p]  u == r.user
<1>1. u \in Known /\ CanLogin(r) /\ r.step \in Nat
  BY AccountBounds DEF LoginCommit, Busy, AccountsInv, InFlight, Reads, Rows, Request
<1>2. ASSUME NEW c \in spent, c.secret = r.secret
      PROVE  c.step < r.step
  <2>1. users[u].last # None /\ c.step <= users[u].last
    BY <1>1, <1>2 DEF AccountsInv, Spent
  <2>2. r.step > users[u].last
    BY <1>1, <2>1 DEF CanLogin
  <2>3. users[u].last \in Nat /\ c.step \in Nat
    BY <1>1, <1>2, <2>1 DEF AccountsInv, Rows, Account, Code
  <2> QED
    BY <1>1, <2>1, <2>2, <2>3
<1> QED
  BY <1>2

LEMMA LoginCommitStep ==
  ASSUME AccountsInv, NEW p \in Requests, NEW old, LoginCommit(p, old)
  PROVE  AccountsInv'
<1> DEFINE r == request[p]  u == r.user
           code == IF r.step = None THEN None ELSE [secret |-> r.secret, step |-> r.step]
<1>1. /\ u \in Known /\ r.op = "login" /\ r.hash \in Hash /\ r.step \in Steps \cup {None}
      /\ users[u] \in Account /\ Coherent(users[u]) /\ CanLogin(r)
      /\ r.step # None => r.secret \in Secrets
  BY DEF LoginCommit, Busy, AccountsInv, InFlight, Reads, Rows, Accounted, Request
<1>2. PICK token \in NewTokens :
      /\ users' = [users EXCEPT ![u].hash = PasswordOf(r.hash),
                                ![u].last = IF r.step = None THEN @ ELSE r.step]
      /\ sessions' = {s \in sessions : s.expires > now /\ s # old} \cup
           {[id |-> token, user |-> u, version |-> users[u].version,
             expires |-> now + SessionLife, proof |-> PasswordOf(r.hash), code |-> code]}
      /\ spent' = spent \cup ({code} \ {None})
  BY DEF LoginCommit
<1>3. request' = [request EXCEPT ![p] = Idle] /\ now' = now
  BY DEF LoginCommit, Done
<1>4. /\ PasswordOf(r.hash) \in Nat /\ PasswordOf(r.hash) = users[u].version
      /\ PasswordOf(PasswordOf(r.hash)) = users[u].version /\ ~users[u].disabled
  BY <1>1 DEF CanLogin, Coherent, PasswordOf, Hash, Legacy, Account
<1>5. /\ code \in Code \cup {None}
      /\ code # None => (r.step # None /\ r.secret # None)
      /\ r.step # None => r.step \in Nat
  BY <1>1, RolesAssumption, AccountBounds DEF Code
<1>6. code # None => code.secret = r.secret /\ code.step = r.step
  BY <1>5
<1>7. LoginCommit(p, old)
  OBVIOUS
<1>8. r.step # None /\ users[u].secret = r.secret
        => \A c \in spent : c.secret = r.secret => c.step < r.step
  BY <1>7, LoginIsNew
<1> HIDE DEF r, u, code
<1>9. Changes(u)
  BY <1>1, <1>2, <1>4, <1>5 DEF Changes, Account, Hash, Known, AccountsInv, Rows
<1>10. /\ users'[u].secret = users[u].secret /\ users'[u].hash = PasswordOf(r.hash)
       /\ users'[u].version = users[u].version /\ users'[u].disabled = users[u].disabled
       /\ users'[u].enabled = users[u].enabled
       /\ users'[u].last = IF r.step = None THEN users[u].last ELSE r.step
  BY <1>1, <1>2 DEF Account, Known, AccountsInv, Rows
<1>11. Coherent(users'[u])
  BY <1>1, <1>4, <1>10 DEF Coherent
<1>12. spent' \subseteq Code
  BY <1>2, <1>5 DEF AccountsInv, Rows
<1>13. InFlight' /\ Accounted' /\ Private' /\ Unseen' /\ request' \in [Requests -> Request]
  <2>1. \A c \in spent' : c \in spent \/ (request[p].op # "setup" /\ c.secret = request[p].secret
                                           /\ request[p].secret # None)
    BY <1>1, <1>2, <1>5, <1>6 DEF r
  <2> QED
    BY <1>1, <1>3, <1>9, <1>10, <1>11, <1>12, <2>1, AccountStep
<1>14. Rows' /\ SomeoneOwns'
  <2>1. sessions' \subseteq Session
    BY <1>1, <1>2, <1>4, <1>5, AccountBounds DEF AccountsInv, Rows, Session, Account, NewTokens
  <2> QED
    BY <1>1, <1>3, <1>9, <1>10, <1>12, <1>13, <2>1, AsOpen DEF AccountsInv, Rows, Changes
<1>15. Signed'
  <2> SUFFICES ASSUME NEW s \in sessions'
               PROVE  /\ s.user \in Known' /\ ~users'[s.user].disabled
                      /\ s.version = users'[s.user].version /\ s.proof = s.version
    BY DEF Signed
  <2>1. CASE s \in sessions
    <3>1. /\ s.user \in Known /\ ~users[s.user].disabled
          /\ s.version = users[s.user].version /\ s.proof = s.version
      BY <2>1 DEF AccountsInv, Signed
    <3> QED
      BY <3>1, <1>9, <1>10 DEF Changes
  <2>2. CASE s \notin sessions
    <3>1. s = [id |-> token, user |-> u, version |-> users[u].version,
               expires |-> now + SessionLife, proof |-> PasswordOf(r.hash), code |-> code]
      BY <1>2, <2>2
    <3>2. s.user = u /\ s.version = users[u].version /\ s.proof = PasswordOf(r.hash)
      BY <3>1
    <3> QED
      BY <3>2, <1>1, <1>4, <1>9, <1>10 DEF Changes
  <2> QED
    BY <2>1, <2>2
<1>16. Spent'
  <2> SUFFICES ASSUME NEW c \in spent', NEW v \in Known, users'[v].secret = c.secret
               PROVE  users'[v].last # None /\ c.step <= users'[v].last
    BY <1>9 DEF Spent, Changes
  <2>1. v # u => users'[v] = users[v]
    BY <1>9 DEF Changes
  <2>2. CASE c \notin spent
    <3>1. r.step # None /\ c.secret = r.secret /\ c.step = r.step /\ r.secret # None
      BY <1>2, <1>5, <1>6, <2>2
    <3>2. v = u
      <4>1. v # u => users[v].secret = request[p].secret /\ request[p].secret # None
                       /\ request[p].op # "setup"
        BY <1>1, <2>1, <3>1 DEF r
      <4>2. v # u => request[p].user = v
        BY <4>1 DEF AccountsInv, Private
      <4> QED
        BY <4>2 DEF u, r
    <3> QED
      BY <1>5, <1>10, <3>1, <3>2
  <2>3. CASE c \in spent /\ v # u
    BY <2>1, <2>3 DEF AccountsInv, Spent
  <2>4. CASE c \in spent /\ v = u
    <3>1. users[u].last # None /\ c.step <= users[u].last /\ c.step \in Nat
          /\ users[u].last \in Nat
      BY <1>1, <1>10, <2>4 DEF AccountsInv, Rows, Spent, Code, Account
    <3>2. r.step # None => r.step > users[u].last
      BY <1>1, <3>1 DEF CanLogin, u
    <3> QED
      BY <1>5, <1>10, <2>4, <3>1, <3>2
  <2> QED
    BY <2>2, <2>3, <2>4
<1> QED
  BY <1>13, <1>14, <1>15, <1>16 DEF AccountsInv

LEMMA PasswordCommitStep ==
  ASSUME AccountsInv, NEW p \in Requests, PasswordCommit(p)
  PROVE  AccountsInv'
<1> DEFINE r == request[p]  u == r.user  n == users[u].version + 1
<1>1. u \in Known /\ users[u] \in Account /\ Coherent(users[u]) /\ n \in Nat
  <2>1. u \in Known /\ users[u] \in Account /\ Coherent(users[u])
    BY DEF PasswordCommit, Busy, AccountsInv, InFlight, Reads, Rows, Accounted
  <2> QED
    BY <2>1 DEF Account
<1>2. /\ users' = [users EXCEPT ![u].hash = n, ![u].version = n]
      /\ sessions' = {s \in sessions : s.user # u} \cup
           {[s EXCEPT !.version = n, !.proof = n] :
              s \in {t \in sessions : t.user = u /\ t.id = r.token}}
      /\ request' = [request EXCEPT ![p] = Idle] /\ UNCHANGED <<spent, now>>
  BY DEF PasswordCommit, Done
<1> HIDE DEF r, u, n
<1>3. Changes(u)
  BY <1>1, <1>2 DEF Changes, Account, Hash, Known, AccountsInv, Rows
<1>4. /\ users'[u].secret = users[u].secret /\ users'[u].hash = n /\ users'[u].version = n
      /\ users'[u].disabled = users[u].disabled /\ users'[u].enabled = users[u].enabled
      /\ users'[u].last = users[u].last
  BY <1>1, <1>2 DEF Account, Known, AccountsInv, Rows
<1>5. Coherent(users'[u])
  BY <1>1, <1>4 DEF Coherent, PasswordOf, Legacy
<1>6. InFlight' /\ Accounted' /\ Private' /\ Unseen' /\ request' \in [Requests -> Request]
  <2>1. spent' \subseteq Code /\ spent' = spent
    BY <1>2 DEF AccountsInv, Rows
  <2> QED
    BY <1>1, <1>2, <1>3, <1>4, <1>5, <2>1, AccountStep
<1>7. sessions' \subseteq Session /\ Signed'
  <2> SUFFICES ASSUME NEW s \in sessions'
               PROVE  /\ s \in Session /\ s.user \in Known' /\ ~users'[s.user].disabled
                      /\ s.version = users'[s.user].version /\ s.proof = s.version
    BY DEF Signed
  <2>1. CASE s \in sessions /\ s.user # u
    <3>1. /\ s \in Session /\ s.user \in Known /\ ~users[s.user].disabled
          /\ s.version = users[s.user].version /\ s.proof = s.version
      BY <2>1 DEF AccountsInv, Rows, Signed
    <3> QED
      BY <2>1, <3>1, <1>3 DEF Changes
  <2>2. CASE ~ (s \in sessions /\ s.user # u)
    <3>1. PICK t \in sessions : t.user = u /\ s = [t EXCEPT !.version = n, !.proof = n]
      BY <1>2, <2>2
    <3>2. t \in Session /\ ~users[u].disabled
      BY <3>1 DEF AccountsInv, Rows, Signed
    <3>3. s \in Session /\ s.user = u /\ s.version = n /\ s.proof = n
      BY <1>1, <3>1, <3>2 DEF Session
    <3> QED
      BY <1>1, <1>3, <1>4, <3>2, <3>3 DEF Changes
  <2> QED
    BY <2>1, <2>2
<1>8. Rows' /\ SomeoneOwns'
  BY <1>1, <1>2, <1>3, <1>4, <1>6, <1>7, AsOpen DEF AccountsInv, Rows, Changes
<1>9. Spent'
  <2>1. spent' = spent
    BY <1>2
  <2> QED
    BY <1>1, <1>3, <1>4, <2>1 DEF AccountsInv, Spent, Changes
<1> QED
  BY <1>6, <1>7, <1>8, <1>9 DEF AccountsInv

LEMMA DisableUserStep ==
  ASSUME AccountsInv, NEW s \in sessions, NEW u \in Users, NEW disabled \in BOOLEAN,
         SetUserDisabled(s, u, disabled)
  PROVE  AccountsInv'
<1>1. u \in Known /\ users[u] \in Account /\ Coherent(users[u])
  BY DEF SetUserDisabled, Manages, AccountsInv, Rows, Accounted
<1>2. /\ users' = [users EXCEPT ![u].disabled = disabled]
      /\ sessions' = IF disabled THEN Dropping(u) ELSE sessions
      /\ UNCHANGED <<request, spent, now>>
  BY DEF SetUserDisabled
<1>3. Changes(u)
  BY <1>1, <1>2 DEF Changes, Account, Known, AccountsInv, Rows
<1>4. /\ users'[u].secret = users[u].secret /\ users'[u].hash = users[u].hash
      /\ users'[u].version = users[u].version /\ users'[u].disabled = disabled
      /\ users'[u].enabled = users[u].enabled /\ users'[u].last = users[u].last
  BY <1>1, <1>2 DEF Account, Known, AccountsInv, Rows
<1>5. Coherent(users'[u])
  BY <1>1, <1>4 DEF Coherent
<1>6. InFlight' /\ Accounted' /\ Private' /\ Unseen' /\ request' \in [Requests -> Request]
  <2>1. CASE Requests = {}
    BY <1>2, <2>1, <1>3, <1>4, <1>5 DEF AccountsInv, Rows, InFlight, Accounted, Private, Unseen, Changes
  <2>2. ASSUME NEW p \in Requests
        PROVE  InFlight' /\ Accounted' /\ Private' /\ Unseen' /\ request' \in [Requests -> Request]
    <3>1. spent' \subseteq Code /\ spent' = spent
      BY <1>2 DEF AccountsInv, Rows
    <3> QED
      BY <1>1, <1>2, <1>3, <1>4, <1>5, <3>1, AccountStep
  <2> QED
    BY <2>1, <2>2
<1>7. Rows'
  BY <1>1, <1>2, <1>3, <1>6 DEF AccountsInv, Rows, Changes, Dropping
<1>8. SomeoneOwns'
  <2>1. s \in Writers("settings") /\ Manages(s.user, u)
    BY DEF SetUserDisabled
  <2>2. CASE RoleOf[u] = "SUPER_ADMIN"
    <3>1. RoleOf[s.user] = "SUPER_ADMIN" /\ s.user # u
      BY <2>1, <2>2, OwnersManageOwners
    <3>2. s.user \in Known /\ ~users[s.user].disabled
      BY <2>1, ActorKnown
    <3> QED
      BY <1>3, <3>1, <3>2 DEF SomeoneOwns, Changes
  <2>3. CASE RoleOf[u] # "SUPER_ADMIN"
    BY <1>1, <1>3, <2>3 DEF AccountsInv, SomeoneOwns, Changes
  <2> QED
    BY <2>2, <2>3
<1>9. Signed'
  BY <1>1, <1>2, <1>3, <1>4 DEF AccountsInv, Signed, Changes, Dropping
<1>10. Spent'
  BY <1>1, <1>2, <1>3, <1>4 DEF AccountsInv, Spent, Changes
<1> QED
  BY <1>6, <1>7, <1>8, <1>9, <1>10 DEF AccountsInv

\* Closing the demo accounts closes what they have open, and leaves a real owner.
LEMMA RetireStep ==
  ASSUME AccountsInv, RetireDemoAccounts
  PROVE  AccountsInv'
<1>1. PICK o \in Known \ DemoUsers : RoleOf[o] = "SUPER_ADMIN" /\ ~users[o].disabled
  BY DEF RetireDemoAccounts
<1>2. /\ users' = [u \in Known |-> IF u \in DemoUsers
                                     THEN [users[u] EXCEPT !.disabled = TRUE] ELSE users[u]]
      /\ sessions' = {s \in sessions : s.user \notin DemoUsers}
      /\ UNCHANGED <<request, spent, now>>
  BY DEF RetireDemoAccounts
<1>3. Known' = Known /\ users \in [Known -> Account]
  BY <1>2 DEF Known, AccountsInv, Rows
<1>4. ASSUME NEW u \in Known
      PROVE  /\ users'[u] \in Account
             /\ users'[u].secret = users[u].secret /\ users'[u].hash = users[u].hash
             /\ users'[u].version = users[u].version /\ users'[u].enabled = users[u].enabled
             /\ users'[u].last = users[u].last
             /\ u \notin DemoUsers => users'[u].disabled = users[u].disabled
  BY <1>2, <1>3 DEF Account
<1>5. Rows'
  <2>1. users' \in [Known -> Account]
    BY <1>2, <1>4
  <2> QED
    BY <1>2, <1>3, <2>1 DEF AccountsInv, Rows
<1>6. InFlight' /\ Accounted' /\ Signed'
  BY <1>2, <1>3, <1>4 DEF AccountsInv, InFlight, Reads, Accounted, Coherent, Signed
<1>7. Private' /\ Unseen' /\ Spent'
  BY <1>2, <1>3, <1>4 DEF AccountsInv, Private, Unseen, New, Spent
<1>8. SomeoneOwns'
  BY <1>1, <1>3, <1>4 DEF SomeoneOwns
<1> QED
  BY <1>5, <1>6, <1>7, <1>8 DEF AccountsInv

LEMMA CreatorsStep ==
  ASSUME AccountsInv, NEW u \in Users,
         \/ \E s \in sessions : CreatePartner(s, u) \/ CreateTeamMember(s, u)
         \/ BootstrapOperator(u)
  PROVE  AccountsInv'
<1>1. CASE BootstrapOperator(u)
  <2>1. u \notin Known
    BY <1>1, CreateStep DEF BootstrapOperator
  <2> QED
    BY <1>1, <2>1, CreateStep DEF BootstrapOperator
<1>2. ASSUME NEW s \in sessions, CreatePartner(s, u) \/ CreateTeamMember(s, u)
      PROVE  AccountsInv'
  <2>1. s.user \in Known
    BY DEF AccountsInv, Signed
  <2> QED
    BY <1>2, <2>1, CreateStep DEF CreatePartner, CreateTeamMember
<1> QED
  BY <1>1, <1>2

\* Sessions end, time passes.
LEMMA RestStep ==
  ASSUME AccountsInv,
         \/ \E s \in sessions : Logout(s)
         \/ PurgeExpiredRecords \/ Tick \/ UNCHANGED vars
  PROVE  AccountsInv'
<1>1. UNCHANGED <<users, request, spent>> /\ sessions' \subseteq sessions /\ now' \in Nat
  BY DEF Logout, PurgeExpiredRecords, Tick, vars, AccountsInv, Rows
<1>2. Known' = Known
  BY <1>1 DEF Known
<1>3. Rows' /\ Signed'
  BY <1>1, <1>2 DEF AccountsInv, Rows, Signed
<1>4. InFlight' /\ Accounted' /\ SomeoneOwns'
  BY <1>1, <1>2 DEF AccountsInv, InFlight, Reads, Accounted, SomeoneOwns
<1>5. Private' /\ Unseen' /\ Spent'
  BY <1>1, <1>2 DEF AccountsInv, Private, Unseen, New, Spent
<1> QED
  BY <1>3, <1>4, <1>5 DEF AccountsInv

-----------------------------------------------------------------------------
(* The theorems.                                                             *)

LEMMA AccountsStep == AccountsInv /\ [Next]_vars => AccountsInv'
<1> SUFFICES ASSUME AccountsInv, [Next]_vars PROVE AccountsInv'
  OBVIOUS
<1>1. ASSUME NEW p \in Requests, SignIn(p) PROVE AccountsInv'
  BY <1>1, LoginReadStep, LoginCommitStep DEF SignIn
<1>2. ASSUME NEW p \in Requests, OwnAccount(p) PROVE AccountsInv'
  <2>1. CASE \E s \in sessions : TwoFactorCard(p, s) \/ PasswordRead(p, s)
    BY <2>1, OwnReadStep DEF TwoFactorCard
  <2>2. CASE SetupCommit(p) \/ EnableCommit(p) \/ DisableCommit(p) \/ PasswordCommit(p)
    BY <2>2, SetupCommitStep, EnableCommitStep, DisableCommitStep, PasswordCommitStep
  <2> QED
    BY <1>2, <2>1, <2>2 DEF OwnAccount
<1>3. ASSUME NEW p \in Requests, Refused(p) PROVE AccountsInv'
  BY <1>3, RefusedStep
<1>4. ASSUME NEW s \in sessions, TeamPanel(s) PROVE AccountsInv'
  <2>1. PICK u \in Users : CreateTeamMember(s, u) \/ TeamRowActions(s, u)
    BY <1>4 DEF TeamPanel
  <2>2. CASE CreateTeamMember(s, u)
    BY <2>2, CreatorsStep
  <2>3. CASE TeamRowActions(s, u)
    BY <2>3, DisableUserStep, ResetStep DEF TeamRowActions
  <2> QED
    BY <2>1, <2>2, <2>3
<1>5. ASSUME NEW s \in sessions, NEW u \in Users, CreatePartner(s, u) PROVE AccountsInv'
  BY <1>5, CreatorsStep
<1>6. CASE Administration
  BY <1>4, <1>5, <1>6 DEF Administration
<1>7. CASE \E u \in Users : BootstrapOperator(u)
  BY <1>7, CreatorsStep
<1>8. CASE RetireDemoAccounts
  BY <1>8, RetireStep
<1>9. CASE (\E s \in sessions : Logout(s)) \/ PurgeExpiredRecords \/ Tick \/ UNCHANGED vars
  BY <1>9, RestStep
<1> QED
  BY <1>1, <1>2, <1>3, <1>6, <1>7, <1>8, <1>9 DEF Next

\* The invariant holds whatever logins, forms, scripts and the clock do in whatever order.
THEOREM AccountsInvariant == Spec => []AccountsInv
<1>1. Init => AccountsInv
  BY AccountsStart
<1>2. AccountsInv /\ [Next]_vars => AccountsInv'
  BY AccountsStep
<1> QED
  BY <1>1, <1>2, PTL DEF Spec

\* Once there is an account, an active SUPER_ADMIN remains, however many administrators disable
\* each other and whenever the demo accounts are retired.
THEOREM SomeoneAlwaysOwns == Spec => []SomeoneOwns
<1>1. AccountsInv => SomeoneOwns
  BY DEF AccountsInv
<1> QED
  BY <1>1, AccountsInvariant, PTL

\* Every stored session is of an open account, and of its password of today.
THEOREM SessionsCurrent == Spec => []SessionIsCurrent
<1>1. AccountsInv => SessionIsCurrent
  <2> SUFFICES ASSUME AccountsInv PROVE SessionIsCurrent
    OBVIOUS
  <2>1. \A s \in sessions : s.user \in Known /\ ~users[s.user].disabled
    BY DEF AccountsInv, Signed
  <2>2. \A s \in Actors : s.proof = PasswordOf(users[s.user].hash) /\ s.proof = users[s.user].version
    BY DEF AccountsInv, Signed, Accounted, Coherent, Actors
  <2> QED
    BY <2>1, <2>2 DEF SessionIsCurrent
<1> QED
  BY <1>1, AccountsInvariant, PTL

\* The rows keep their types, and a second factor that is on has its secret.
THEOREM RowsConsistent == Spec => []AccountsConsistent
<1>1. AccountsInv => AccountsConsistent
  <2> SUFFICES ASSUME AccountsInv PROVE AccountsConsistent
    OBVIOUS
  <2>1. TypeOK
    BY DEF AccountsInv, Rows, TypeOK
  <2>2. \A u \in Known : users[u].enabled => users[u].secret # None
    BY DEF AccountsInv, Accounted, Coherent
  <2> QED
    BY <2>1, <2>2 DEF AccountsConsistent
<1> QED
  BY <1>1, AccountsInvariant, PTL

LoginCommits(p) == \E old \in sessions \cup {None} : LoginCommit(p, old)

\* Only a login opens a session.
LEMMA OthersOpenNone ==
  ASSUME AccountsInv, [Next]_vars, \A p \in Requests : ~LoginCommits(p), NEW s \in sessions'
  PROVE  \E t \in sessions : t.id = s.id
<1>1. CASE sessions' \subseteq sessions
  BY <1>1
<1>2. CASE \E p \in Requests : PasswordCommit(p)
  <2>1. PICK p \in Requests : PasswordCommit(p)
    BY <1>2
  <2>2. CASE s \in sessions
    BY <2>2
  <2>3. CASE s \notin sessions
    <3>1. PICK t \in sessions : \E n \in {users[request[p].user].version + 1} :
                                  s = [t EXCEPT !.version = n, !.proof = n]
      BY <2>1, <2>3 DEF PasswordCommit
    <3>2. t \in Session
      BY DEF AccountsInv, Rows
    <3>3. s.id = t.id
      BY <3>1, <3>2 DEF Session
    <3> QED
      BY <3>3
  <2> QED
    BY <2>2, <2>3
<1>3. (\A p \in Requests : ~PasswordCommit(p)) => sessions' \subseteq sessions
  <2> USE DEF Starts, Dropping
  <2>1. ASSUME NEW p \in Requests, SignIn(p) \/ Refused(p) PROVE sessions' \subseteq sessions
    BY <2>1 DEF SignIn, LoginCommits, LoginRead, Refused
  <2>2. ASSUME NEW p \in Requests, OwnAccount(p), ~PasswordCommit(p) PROVE sessions' \subseteq sessions
    BY <2>2 DEF OwnAccount, TwoFactorCard, SetupRead, EnableRead, DisableRead, PasswordRead,
                SetupCommit, EnableCommit, DisableCommit
  <2>3. CASE Administration
    BY <2>3 DEF Administration, TeamPanel, TeamRowActions, CreatePartner, CreateTeamMember,
                SetUserDisabled, ResetUserPassword
  <2>4. CASE \/ \E t \in sessions : Logout(t)
             \/ \E u \in Users : BootstrapOperator(u)
             \/ RetireDemoAccounts \/ PurgeExpiredRecords \/ Tick \/ UNCHANGED vars
    BY <2>4 DEF Logout, BootstrapOperator, RetireDemoAccounts, PurgeExpiredRecords, Tick, vars
  <2> QED
    BY <2>1, <2>2, <2>3, <2>4 DEF Next
<1> QED
  BY <1>1, <1>2, <1>3

\* A code of the second factor opens at most one session, for any number of logins at once.
THEOREM OneSessionPerCode == Spec => CodeOpensOneSession
<1> DEFINE Once == \A s \in sessions' :
                     (Opens(s) /\ users[s.user].secret = s.code.secret) => s.code \notin spent
<1>1. AccountsInv /\ [Next]_vars => Once
  <2> SUFFICES ASSUME AccountsInv, [Next]_vars, NEW s \in sessions', Opens(s),
                      users[s.user].secret = s.code.secret
               PROVE  s.code \notin spent
    OBVIOUS
  <2>1. PICK p \in Requests, old \in sessions \cup {None} : LoginCommit(p, old)
    BY OthersOpenNone DEF Opens, LoginCommits
  <2> DEFINE r == request[p]
             code == IF r.step = None THEN None ELSE [secret |-> r.secret, step |-> r.step]
  <2>2. PICK token \in NewTokens :
          sessions' = {t \in sessions : t.expires > now /\ t # old} \cup
            {[id |-> token, user |-> r.user, version |-> users[r.user].version,
              expires |-> now + SessionLife, proof |-> PasswordOf(r.hash), code |-> code]}
    BY <2>1 DEF LoginCommit
  <2> HIDE DEF code
  <2>3. s \notin sessions
    BY DEF Opens
  <2>4. s = [id |-> token, user |-> r.user, version |-> users[r.user].version,
             expires |-> now + SessionLife, proof |-> PasswordOf(r.hash), code |-> code]
    BY <2>2, <2>3
  <2>5. s.user = r.user /\ s.code = code /\ code # None
    BY <2>4 DEF Opens
  <2>6. r.step # None /\ code = [secret |-> r.secret, step |-> r.step]
    BY <2>5 DEF code
  <2>7. \A c \in spent : c.secret = r.secret => c.step < r.step
    <3>1. users[r.user].secret = r.secret
      BY <2>5, <2>6
    <3> QED
      BY <2>1, <2>6, <3>1, LoginIsNew
  <2>8. r.step \in Nat
    BY <2>6, AccountBounds DEF AccountsInv, Rows, Request
  <2> QED
    BY <2>5, <2>6, <2>7, <2>8
<1>2. Spec => [][Once]_vars
  BY <1>1, AccountsInvariant, PTL DEF Spec
<1> QED
  BY <1>2 DEF CodeOpensOneSession
=============================================================================
