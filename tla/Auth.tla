-------------------------------- MODULE Auth --------------------------------
(***************************************************************************)
(* The auth service (services/auth/app): accounts, refresh tokens and the  *)
(* login throttle.                                                         *)
(*                                                                         *)
(* A request is one READ COMMITTED transaction that reads without a lock   *)
(* and writes later what it decided on; get_session commits it, or rolls   *)
(* it back when the service raised.  Requests that only refuse change      *)
(* nothing and have no action; logout and change_role decide on nothing    *)
(* they read and are one step.                                             *)
(***************************************************************************)
EXTENDS Integers, Sequences, FiniteSets

CONSTANTS
    Handlers,             \* requests, or starting replicas, at work at a time
    Emails,               \* addresses people register with
    AdminEmail,           \* BOOTSTRAP_ADMIN_EMAIL
    Mistyped,             \* addresses somebody gives a wrong password for
    LoginMaxAttempts,     \* settings.login_max_attempts
    LoginWindow,          \* settings.login_attempt_window_seconds
    MaxTokens,            \* bound: refresh tokens ever issued
    MaxFaults             \* bound: calls to Redis that fail

ASSUME AuthBounds ==
    /\ {LoginMaxAttempts, LoginWindow} \subseteq Nat \ {0}
    /\ {MaxTokens, MaxFaults} \subseteq Nat
    /\ AdminEmail \notin Emails

VARIABLES
    users,             \* rows of users in the order of their ids
    refresh_tokens,    \* rows of refresh_tokens, oldest first, each with the role that
                       \* the access token of its pair claims
    announced,         \* users with a user.registered row in the outbox, oldest first
    attempts,          \* login:attempts:<email> in Redis: counter, TTL and age
    req,               \* the transaction each handler has open
    faults

authVars == <<users, refresh_tokens, announced, attempts, req, faults>>

Idle == [op |-> "idle"]
NoAttempts == [count |-> 0, ttl |-> 0, age |-> 0]

UserIds  == DOMAIN users
TokenIds == DOMAIN refresh_tokens
Registered(e) == \E u \in UserIds : users[u].email = e
UserOf(e)     == CHOOSE u \in UserIds : users[u].email = e

\* is_usable: neither revoked nor expired, after either of which a token is
\* refused alike.
Usable(t) == refresh_tokens[t].usable

AuthInit ==
    /\ users = <<>> /\ refresh_tokens = <<>> /\ announced = <<>>
    /\ attempts = [e \in Emails \cup {AdminEmail} |-> NoAttempts]
    /\ req = [h \in Handlers |-> Idle]
    /\ faults = 0

Begin(h, r) == req[h] = Idle /\ req' = [req EXCEPT ![h] = r]
End(h)      == req' = [req EXCEPT ![h] = Idle]

\* The service answers once a replica has come through its start-up.
Serving == Registered(AdminEmail)

-----------------------------------------------------------------------------
(* Accounts *)

\* email_exists in register, get_by_email in seed_admin.
Register(h, e) ==
    /\ Serving /\ ~Registered(e)
    /\ Begin(h, [op |-> "create", email |-> e, role |-> "customer"])
    /\ UNCHANGED <<users, refresh_tokens, announced, attempts, faults>>

SeedAdmin(h) ==
    /\ ~Registered(AdminEmail)
    /\ Begin(h, [op |-> "create", email |-> AdminEmail, role |-> "admin"])
    /\ UNCHANGED <<users, refresh_tokens, announced, attempts, faults>>

\* Mutant of CreateUser: no UNIQUE constraint on the address.
CreateUserUnchecked(h) ==
    /\ req[h].op = "create"
    /\ users' = Append(users, [email |-> req[h].email, role |-> req[h].role, active |-> TRUE])
    /\ announced' = IF req[h].role = "customer" THEN Append(announced, Len(users) + 1)
                                                ELSE announced
    /\ End(h)
    /\ UNCHANGED <<refresh_tokens, attempts, faults>>

\* The INSERT, with user.registered in the same transaction for a customer, or
\* an IntegrityError when the address was taken meanwhile.
CreateUser(h) ==
    /\ req[h].op = "create"
    /\ IF Registered(req[h].email) THEN UNCHANGED <<users, announced>>
       ELSE /\ users' = Append(users, [email |-> req[h].email, role |-> req[h].role,
                                       active |-> TRUE])
            /\ announced' = IF req[h].role = "customer" THEN Append(announced, Len(users) + 1)
                                                        ELSE announced
    /\ End(h)
    /\ UNCHANGED <<refresh_tokens, attempts, faults>>

-----------------------------------------------------------------------------
(* Tokens *)

\* Deactivations that have taken the row of user u and are not committed.
Sweeping(u) == {h \in Handlers : req[h].op = "sweep" /\ req[h].user = u /\ req[h].writes}

\* _issue_tokens: a pair with the role that was read; `raced` remembers that the
\* account was deactivated after it was read.
IssueTokens(u, role, raced, tokens) ==
    /\ Len(refresh_tokens) < MaxTokens
    /\ refresh_tokens' = Append(tokens, [user |-> u, usable |-> TRUE, role |-> role,
                                         raced |-> raced \/ Sweeping(u) # {}])

Revoke(T) ==
    [t \in TokenIds |-> [refresh_tokens[t] EXCEPT !.usable = @ /\ t \notin T]]

\* LoginRateLimiter.check.
RateLimiterCheck(e) == attempts[e].count < LoginMaxAttempts

\* Mutant of RecordFailure: EXPIRE without NX.
RecordFailureSlides(e) ==
    attempts' = [attempts EXCEPT ![e].count = @ + 1, ![e].ttl = LoginWindow]

\* INCR and EXPIRE NX in one MULTI: the window starts with the first failure.
RecordFailure(e) ==
    attempts' = [attempts EXCEPT ![e].count = @ + 1,
                                 ![e].ttl = IF @ = 0 THEN LoginWindow ELSE @]

\* Redis does not answer: the throttle lets the attempt pass, or forgets it.
RedisFault == faults < MaxFaults /\ faults' = faults + 1

Login(h, e) ==
    /\ Serving
    /\ \/ RateLimiterCheck(e) /\ UNCHANGED faults
       \/ ~RateLimiterCheck(e) /\ RedisFault
    /\ Begin(h, [op |-> "login", email |-> e])
    /\ UNCHANGED <<users, refresh_tokens, announced, attempts>>

\* An unknown address or a wrong password.
LoginFails(h) ==
    LET e == req[h].email IN
    /\ req[h].op = "login"
    /\ e \in Mistyped
    /\ \/ RecordFailure(e) /\ UNCHANGED faults
       \/ RedisFault /\ UNCHANGED attempts
    /\ End(h)
    /\ UNCHANGED <<users, refresh_tokens, announced>>

\* The right password of an active account: the counter is reset before the
\* transaction ends.  A deactivated one is refused.
LoginPasses(h) ==
    LET e == req[h].email IN
    /\ req[h].op = "login"
    /\ Registered(e)
    /\ IF users[UserOf(e)].active
       THEN /\ \/ attempts' = [attempts EXCEPT ![e] = NoAttempts] /\ UNCHANGED faults
               \/ RedisFault /\ UNCHANGED attempts
            /\ req' = [req EXCEPT ![h] = [op |-> "sign_in", user |-> UserOf(e), raced |-> FALSE,
                                          role |-> users[UserOf(e)].role]]
       ELSE End(h) /\ UNCHANGED <<attempts, faults>>
    /\ UNCHANGED <<users, refresh_tokens, announced>>

\* touch_last_login waits for a deactivation that has the row of the user.
SignIn(h) ==
    /\ req[h].op = "sign_in"
    /\ Sweeping(req[h].user) = {}
    /\ IssueTokens(req[h].user, req[h].role, req[h].raced, refresh_tokens)
    /\ End(h)
    /\ UNCHANGED <<users, announced, attempts, faults>>

\* Mutant of Refresh: it trusts the token and does not look at the account.
RefreshAnyone(h, t) ==
    LET u == refresh_tokens[t].user IN
    /\ Usable(t)
    /\ Begin(h, [op |-> "rotate", token |-> t, user |-> u, raced |-> FALSE,
                 role |-> users[u].role])
    /\ UNCHANGED <<users, refresh_tokens, announced, attempts, faults>>

\* refresh reads the token and, in the same SELECT, its user.  With a revoked
\* token it revokes all others and raises, so that nothing is left of it.
Refresh(h, t) ==
    LET u == refresh_tokens[t].user IN
    /\ Usable(t)
    /\ users[u].active
    /\ Begin(h, [op |-> "rotate", token |-> t, user |-> u, raced |-> FALSE,
                 role |-> users[u].role])
    /\ UNCHANGED <<users, refresh_tokens, announced, attempts, faults>>

\* The presented token is revoked, whatever became of it since, and a new pair
\* is issued.
Rotate(h) ==
    /\ req[h].op = "rotate"
    /\ IssueTokens(req[h].user, req[h].role, req[h].raced, Revoke({req[h].token}))
    /\ End(h)
    /\ UNCHANGED <<users, announced, attempts, faults>>

Logout(t) ==
    /\ Usable(t)
    /\ refresh_tokens' = Revoke({t})
    /\ UNCHANGED <<users, announced, attempts, req, faults>>

-----------------------------------------------------------------------------
(* Administration: require_admin trusts the role in the access token *)

\* An access token is believed until it expires, whatever became of its pair
\* and of its user; that it expires only takes possibilities away.
Admins == {refresh_tokens[t].user : t \in {s \in TokenIds : refresh_tokens[s].role = "admin"}}

\* An UPDATE of a user waits for the transaction that has its row.
ChangeRole(u, role) ==
    /\ Admins \ {u} # {}
    /\ Sweeping(u) = {}
    /\ users[u].role # role
    /\ users' = [users EXCEPT ![u].role = role]
    /\ UNCHANGED <<refresh_tokens, announced, attempts, req, faults>>

\* set_active(False) reads the user: is_active is written only when it changes.
Deactivate(h, u) ==
    /\ Admins \ {u} # {}
    /\ Begin(h, [op |-> "deactivate", user |-> u, writes |-> users[u].active])
    /\ UNCHANGED <<users, refresh_tokens, announced, attempts, faults>>

\* The flush takes the row of the user; then the UPDATE of revoke_all_for_user
\* sees the tokens that are committed when it starts.
Sweep(h) ==
    /\ req[h].op = "deactivate"
    /\ req[h].writes => Sweeping(req[h].user) = {}
    /\ req' = [req EXCEPT ![h] =
                  [op |-> "sweep", user |-> req[h].user, writes |-> req[h].writes,
                   tokens |-> {t \in TokenIds : refresh_tokens[t].user = req[h].user}]]
    /\ UNCHANGED <<users, refresh_tokens, announced, attempts, faults>>

\* COMMIT: whoever has read the account before is out of date.
CommitDeactivation(h) ==
    /\ req[h].op = "sweep"
    /\ users' = [users EXCEPT ![req[h].user].active = @ /\ ~req[h].writes]
    /\ refresh_tokens' = Revoke(req[h].tokens)
    /\ req' = [g \in Handlers |->
                 IF g = h THEN Idle
                 ELSE IF req[g].op \in {"sign_in", "rotate"} /\ req[g].user = req[h].user
                      THEN [req[g] EXCEPT !.raced = @ \/ req[h].writes]
                 ELSE req[g]]
    /\ UNCHANGED <<announced, attempts, faults>>

\* Nothing is revoked, and an admin may do it to their own account.
Activate(u) ==
    /\ Admins # {}
    /\ Sweeping(u) = {}
    /\ ~users[u].active
    /\ users' = [users EXCEPT ![u].active = TRUE]
    /\ UNCHANGED <<refresh_tokens, announced, attempts, req, faults>>

-----------------------------------------------------------------------------
(* Time *)

TokenExpires(t) ==
    /\ Usable(t)
    /\ refresh_tokens' = [refresh_tokens EXCEPT ![t].usable = FALSE]
    /\ UNCHANGED <<users, announced, attempts, req, faults>>

\* One unit of time on a counter; Redis drops it with its TTL.
Tick(e) ==
    LET c == attempts[e] IN
    /\ c.count > 0
    /\ attempts' = [attempts EXCEPT ![e] =
                      IF c.ttl = 1 THEN NoAttempts
                      ELSE [c EXCEPT !.ttl = @ - 1, !.age = @ + 1]]
    /\ UNCHANGED <<users, refresh_tokens, announced, req, faults>>

AuthNext ==
    \/ \E h \in Handlers :
          \/ SeedAdmin(h) \/ CreateUser(h)
          \/ LoginFails(h) \/ LoginPasses(h) \/ SignIn(h) \/ Rotate(h)
          \/ Sweep(h) \/ CommitDeactivation(h)
          \/ \E e \in Emails : Register(h, e)
          \/ \E e \in DOMAIN attempts : Login(h, e)
          \/ \E t \in TokenIds : Refresh(h, t)
          \/ \E u \in UserIds : Deactivate(h, u)
    \/ \E u \in UserIds : Activate(u) \/ \E role \in {"customer", "admin"} : ChangeRole(u, role)
    \/ \E t \in TokenIds : Logout(t) \/ TokenExpires(t)
    \/ \E e \in DOMAIN attempts : Tick(e)

AuthSpec == AuthInit /\ [][AuthNext]_authVars

-----------------------------------------------------------------------------

\* However many sign up at once for an address, or replicas start at once, it
\* gets one account, and user.registered goes out once for each account that was
\* registered and for no other.
OneAccountPerEmail ==
    /\ \A u, v \in UserIds : users[u].email = users[v].email => u = v
    /\ \A i, j \in DOMAIN announced : announced[i] = announced[j] => i = j
    /\ {announced[i] : i \in DOMAIN announced} = {u \in UserIds : users[u].email # AdminEmail}

\* Attempts that were under way together may all be counted, and no other passes
\* a full counter unless Redis failed; what is counted is forgotten one window
\* after the first failure, however many follow.
AttemptsBounded ==
    \A e \in DOMAIN attempts :
        /\ attempts[e].count < LoginMaxAttempts + Cardinality(Handlers) + faults
        /\ attempts[e].count > 0 =>
               attempts[e].age < LoginWindow

\* Of a deactivated account only those refresh tokens can still be used that a
\* request issued which had read the account before the deactivation committed;
\* every other one is revoked, by whichever deactivation came last.  What such a
\* request issued is not shut: its access token is believed until it expires, and
\* its refresh token, refused while the account is inactive, works again once the
\* account is activated.
DeactivatedIsShut ==
    \A t \in TokenIds :
        Usable(t) /\ ~users[refresh_tokens[t].user].active => refresh_tokens[t].raced

\* "No new one can be minted", say the repository and the service of a
\* deactivation; no run checks it, as the raced requests do issue a pair.
NothingMinted ==
    \A t \in TokenIds : Usable(t) => users[refresh_tokens[t].user].active
=============================================================================
