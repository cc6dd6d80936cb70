----------------------------- MODULE AuthProofs -----------------------------
(***************************************************************************)
(* For any number of requests, addresses and tokens: one account for an    *)
(* address, each announced once and in order; the login throttle's bound;  *)
(* and no usable token of a deactivated account but those whose requests   *)
(* overlapped the deactivation.                                            *)
(***************************************************************************)
EXTENDS Auth, FiniteSetTheorems, SequenceTheorems, TLAPS

AllEmails == Emails \cup {AdminEmail}
Roles     == {"customer", "admin"}
UserType  == [email : AllEmails, role : Roles, active : BOOLEAN]
TokenType == [user : Nat, usable : BOOLEAN, role : Roles, raced : BOOLEAN]

\* What a handler may be doing.
CreateReq == {r \in [op : {"create"}, email : AllEmails, role : Roles] :
                 r.role = "customer" <=> r.email # AdminEmail}
LoginReq  == [op : {"login"}, email : AllEmails]
SignInReq == [op : {"sign_in"}, user : Nat, raced : BOOLEAN, role : Roles]
RotateReq == [op : {"rotate"}, token : Nat, user : Nat, raced : BOOLEAN, role : Roles]
CloseReq  == [op : {"deactivate"}, user : Nat, writes : BOOLEAN]
SweepReq  == [op : {"sweep"}, user : Nat, writes : BOOLEAN, tokens : SUBSET Nat]
ReqType   == {Idle} \cup CreateReq \cup LoginReq \cup SignInReq \cup RotateReq
                    \cup CloseReq \cup SweepReq

WithUser == {"sign_in", "rotate", "deactivate", "sweep"}

\* The tables and the requests, with no id of a user that does not exist.
TypeInv ==
    /\ users \in Seq(UserType)
    /\ refresh_tokens \in Seq(TokenType)
    /\ req \in [Handlers -> ReqType]
    /\ \A t \in TokenIds : refresh_tokens[t].user \in UserIds
    /\ \A h \in Handlers : req[h].op \in WithUser => req[h].user \in UserIds

-----------------------------------------------------------------------------
(* Requests, users and tokens *)

LEMMA Requests ==
    /\ Idle.op = "idle"
    /\ \A r \in ReqType :
           /\ r.op = "idle"    => r = Idle
           /\ r.op = "create"  => r \in CreateReq
           /\ r.op = "login"   => r \in LoginReq
           /\ r.op = "sign_in" => r \in SignInReq
           /\ r.op = "rotate"  => r \in RotateReq
           /\ r.op = "deactivate" => r \in CloseReq
           /\ r.op = "sweep"   => r \in SweepReq
    /\ \A r \in CreateReq : r.op = "create"
    /\ \A r \in LoginReq : r.op = "login"
    /\ \A r \in SignInReq : r.op = "sign_in"
    /\ \A r \in RotateReq : r.op = "rotate"
    /\ \A r \in CloseReq : r.op = "deactivate"
    /\ \A r \in SweepReq : r.op = "sweep"
  <1>1. Idle.op = "idle"
    BY DEF Idle
  <1>2. /\ \A r \in CreateReq : r.op = "create"
        /\ \A r \in LoginReq : r.op = "login"
        /\ \A r \in SignInReq : r.op = "sign_in"
        /\ \A r \in RotateReq : r.op = "rotate"
        /\ \A r \in CloseReq : r.op = "deactivate"
        /\ \A r \in SweepReq : r.op = "sweep"
    BY DEF CreateReq, LoginReq, SignInReq, RotateReq, CloseReq, SweepReq
  <1>3. QED
    BY <1>1, <1>2 DEF ReqType

LEMMA Ids ==
    ASSUME TypeInv
    PROVE  UserIds = 1 .. Len(users) /\ TokenIds = 1 .. Len(refresh_tokens)
  BY DEF TypeInv, UserIds, TokenIds

\* One handler goes on to r.
LEMMA ReqMoves ==
    ASSUME TypeInv, NEW h \in Handlers, NEW r \in ReqType, req' = [req EXCEPT ![h] = r]
    PROVE  /\ req' \in [Handlers -> ReqType] /\ req'[h] = r
           /\ \A g \in Handlers \ {h} : req'[g] = req[g]
  BY DEF TypeInv

\* One column of one user is written.
LEMMA UserWritten ==
    ASSUME users \in Seq(UserType), NEW u \in 1 .. Len(users), NEW row \in UserType,
           users' = [users EXCEPT ![u] = row]
    PROVE  /\ users' \in Seq(UserType) /\ Len(users') = Len(users) /\ users'[u] = row
           /\ \A v \in 1 .. Len(users) \ {u} : users'[v] = users[v]
  OBVIOUS

LEMMA UserColumns ==
    ASSUME NEW row \in UserType
    PROVE  /\ \A b \in BOOLEAN : /\ [row EXCEPT !.active = b] \in UserType
                                 /\ [row EXCEPT !.active = b].active = b
                                 /\ [row EXCEPT !.active = b].email = row.email
           /\ \A x \in Roles : /\ [row EXCEPT !.role = x] \in UserType
                               /\ [row EXCEPT !.role = x].active = row.active
                               /\ [row EXCEPT !.role = x].email = row.email
  BY DEF UserType

\* Tokens are revoked, and that is all.
LEMMA Revoked ==
    ASSUME refresh_tokens \in Seq(TokenType), NEW T
    PROVE  /\ Revoke(T) \in Seq(TokenType) /\ Len(Revoke(T)) = Len(refresh_tokens)
           /\ \A t \in 1 .. Len(refresh_tokens) :
                  /\ Revoke(T)[t].user = refresh_tokens[t].user
                  /\ Revoke(T)[t].role = refresh_tokens[t].role
                  /\ Revoke(T)[t].raced = refresh_tokens[t].raced
                  /\ Revoke(T)[t].usable <=> refresh_tokens[t].usable /\ t \notin T
  <1> DEFINE n == Len(refresh_tokens)
             R(t) == [refresh_tokens[t] EXCEPT !.usable = @ /\ t \notin T]
             f == [t \in 1 .. n |-> R(t)]
  <1>1. n \in Nat /\ TokenIds = 1 .. n
    BY DEF TokenIds
  <1>2. Revoke(T) = f
    BY <1>1 DEF Revoke
  <1>3. ASSUME NEW t \in 1 .. n
        PROVE  /\ R(t) \in TokenType
               /\ R(t).user = refresh_tokens[t].user /\ R(t).role = refresh_tokens[t].role
               /\ R(t).raced = refresh_tokens[t].raced
               /\ R(t).usable <=> refresh_tokens[t].usable /\ t \notin T
    <2>1. refresh_tokens[t] \in TokenType
      OBVIOUS
    <2>2. QED
      BY <2>1 DEF TokenType
  <1> HIDE DEF R
  <1>4. f \in Seq(TokenType) /\ Len(f) = n
    BY <1>1, <1>3
  <1>5. \A t \in 1 .. n : f[t] = R(t)
    OBVIOUS
  <1>6. QED
    BY <1>2, <1>3, <1>4, <1>5

\* A new pair is added behind tokens that are otherwise the old ones.
LEMMA Issued ==
    ASSUME TypeInv, NEW u \in UserIds, NEW role \in Roles, NEW raced \in BOOLEAN,
           NEW tokens \in Seq(TokenType), Len(tokens) = Len(refresh_tokens),
           IssueTokens(u, role, raced, tokens)
    PROVE  /\ refresh_tokens' \in Seq(TokenType)
           /\ Len(refresh_tokens') = Len(refresh_tokens) + 1
           /\ refresh_tokens'[Len(refresh_tokens) + 1].user = u
           /\ refresh_tokens'[Len(refresh_tokens) + 1].raced <=> raced \/ Sweeping(u) # {}
           /\ \A t \in 1 .. Len(refresh_tokens) : refresh_tokens'[t] = tokens[t]
  <1> DEFINE n == Len(refresh_tokens)
             new == [user |-> u, usable |-> TRUE, role |-> role,
                     raced |-> raced \/ Sweeping(u) # {}]
  <1>1. new \in TokenType /\ n \in Nat
    BY Ids DEF TokenType, TypeInv
  <1>2. refresh_tokens' = Append(tokens, new)
    BY DEF IssueTokens
  <1> HIDE DEF new
  <1>3. /\ refresh_tokens' \in Seq(TokenType) /\ Len(refresh_tokens') = n + 1
        /\ refresh_tokens'[n + 1] = new
        /\ \A t \in 1 .. n : refresh_tokens'[t] = tokens[t]
    BY <1>1, <1>2
  <1>4. new.user = u /\ (new.raced <=> raced \/ Sweeping(u) # {})
    BY DEF new
  <1>5. QED
    BY <1>3, <1>4

-----------------------------------------------------------------------------
(* TypeInv *)

\* A step that moves one request and no table.
LEMMA TypeRequest ==
    ASSUME TypeInv, NEW h \in Handlers, NEW r \in ReqType, req' = [req EXCEPT ![h] = r],
           r.op \in WithUser => r.user \in UserIds,
           UNCHANGED <<users, refresh_tokens>>
    PROVE  TypeInv'
  <1>1. /\ req' \in [Handlers -> ReqType] /\ req'[h] = r
        /\ \A g \in Handlers \ {h} : req'[g] = req[g]
    BY ReqMoves
  <1>2. UserIds' = UserIds /\ TokenIds' = TokenIds
    BY DEF UserIds, TokenIds
  <1>3. \A g \in Handlers : req'[g].op \in WithUser => req'[g].user \in UserIds
    BY <1>1 DEF TypeInv
  <1>4. QED
    BY <1>1, <1>2, <1>3 DEF TypeInv

\* A step of a handler that ends and leaves the tables well-formed, with the
\* users there were.
LEMMA TypeTables ==
    ASSUME TypeInv, req' \in [Handlers -> ReqType],
           \A g \in Handlers : req'[g].op \in WithUser => req'[g].user \in UserIds,
           users' \in Seq(UserType), Len(users') >= Len(users),
           refresh_tokens' \in Seq(TokenType),
           \A t \in 1 .. Len(refresh_tokens') : refresh_tokens'[t].user \in UserIds
    PROVE  TypeInv'
  <1>1. UserIds = 1 .. Len(users) /\ UserIds' = 1 .. Len(users')
    BY DEF TypeInv, UserIds
  <1>2. TokenIds' = 1 .. Len(refresh_tokens')
    BY DEF TokenIds
  <1>3. UserIds \subseteq UserIds'
    BY <1>1 DEF TypeInv
  <1>4. QED
    BY <1>2, <1>3 DEF TypeInv

\* What a handler starts or goes on with.
LEMMA TypeBegin ==
    ASSUME TypeInv, NEW h \in Handlers, AuthNext,
           \/ SeedAdmin(h) \/ LoginFails(h) \/ LoginPasses(h) \/ Sweep(h)
           \/ \E e \in Emails : Register(h, e)
           \/ \E e \in DOMAIN attempts : e \in AllEmails /\ Login(h, e)
           \/ \E t \in TokenIds : Refresh(h, t)
           \/ \E u \in UserIds : Deactivate(h, u)
    PROVE  TypeInv'
  <1> USE DEF WithUser
  <1>0. /\ UserIds = 1 .. Len(users) /\ TokenIds = 1 .. Len(refresh_tokens)
        /\ Len(users) \in Nat /\ Len(refresh_tokens) \in Nat
    BY Ids DEF TypeInv
  <1>1. CASE SeedAdmin(h)
    <2> DEFINE r == [op |-> "create", email |-> AdminEmail, role |-> "admin"]
    <2>1. r \in CreateReq
      BY DEF CreateReq, AllEmails, Roles
    <2>2. req' = [req EXCEPT ![h] = r] /\ UNCHANGED <<users, refresh_tokens>>
      BY <1>1 DEF SeedAdmin, Begin
    <2> HIDE DEF r
    <2>3. r \in ReqType /\ r.op = "create"
      BY <2>1, Requests DEF ReqType
    <2>4. QED
      BY <2>2, <2>3, TypeRequest
  <1>2. CASE \E e \in Emails : Register(h, e)
    <2>1. PICK e \in Emails : Register(h, e)
      BY <1>2
    <2> DEFINE r == [op |-> "create", email |-> e, role |-> "customer"]
    <2>2. r \in CreateReq
      BY AuthBounds DEF CreateReq, AllEmails, Roles
    <2>3. req' = [req EXCEPT ![h] = r] /\ UNCHANGED <<users, refresh_tokens>>
      BY <2>1 DEF Register, Begin
    <2> HIDE DEF r
    <2>4. r \in ReqType /\ r.op = "create"
      BY <2>2, Requests DEF ReqType
    <2>5. QED
      BY <2>3, <2>4, TypeRequest
  <1>3. CASE \E e \in DOMAIN attempts : e \in AllEmails /\ Login(h, e)
    <2>1. PICK e \in AllEmails : Login(h, e)
      BY <1>3
    <2> DEFINE r == [op |-> "login", email |-> e]
    <2>2. r \in LoginReq
      BY DEF LoginReq
    <2>3. req' = [req EXCEPT ![h] = r] /\ UNCHANGED <<users, refresh_tokens>>
      BY <2>1 DEF Login, Begin
    <2> HIDE DEF r
    <2>4. r \in ReqType /\ r.op = "login"
      BY <2>2, Requests DEF ReqType
    <2>5. QED
      BY <2>3, <2>4, TypeRequest
  <1>4. CASE LoginFails(h)
    <2>1. req' = [req EXCEPT ![h] = Idle] /\ UNCHANGED <<users, refresh_tokens>>
      BY <1>4 DEF LoginFails, End
    <2>2. Idle \in ReqType /\ Idle.op = "idle"
      BY Requests DEF ReqType
    <2>3. QED
      BY <2>1, <2>2, TypeRequest
  <1>5. CASE LoginPasses(h)
    <2> DEFINE u == UserOf(req[h].email)
               r == [op |-> "sign_in", user |-> u, raced |-> FALSE, role |-> users[u].role]
    <2>1. u \in UserIds
      BY <1>5 DEF LoginPasses, Registered, UserOf
    <2>2. users[u] \in UserType
      BY <1>0, <2>1 DEF TypeInv
    <2>3. r \in SignInReq
      BY <1>0, <2>1, <2>2 DEF SignInReq, UserType
    <2>4. /\ UNCHANGED <<users, refresh_tokens>>
          /\ req' = [req EXCEPT ![h] = r] \/ req' = [req EXCEPT ![h] = Idle]
      BY <1>5 DEF LoginPasses, End
    <2>5. r.user = u
      OBVIOUS
    <2> HIDE DEF r
    <2>6. r \in ReqType /\ Idle \in ReqType /\ Idle.op = "idle"
      BY <2>3, Requests DEF ReqType
    <2>7. QED
      BY <2>1, <2>4, <2>5, <2>6, TypeRequest
  <1>6. CASE \E t \in TokenIds : Refresh(h, t)
    <2>1. PICK t \in TokenIds : Refresh(h, t)
      BY <1>6
    <2> DEFINE u == refresh_tokens[t].user
               r == [op |-> "rotate", token |-> t, user |-> u, raced |-> FALSE,
                     role |-> users[u].role]
    <2>2. u \in UserIds
      BY DEF TypeInv
    <2>3. users[u] \in UserType
      BY <1>0, <2>2 DEF TypeInv
    <2>4. r \in RotateReq
      BY <1>0, <2>2, <2>3 DEF RotateReq, UserType
    <2>5. UNCHANGED <<users, refresh_tokens>> /\ req' = [req EXCEPT ![h] = r]
      BY <2>1 DEF Refresh, Begin
    <2>6. r.user = u
      OBVIOUS
    <2> HIDE DEF r
    <2>7. r \in ReqType
      BY <2>4 DEF ReqType
    <2>8. QED
      BY <2>2, <2>5, <2>6, <2>7, TypeRequest
  <1>7. CASE \E u \in UserIds : Deactivate(h, u)
    <2>1. PICK u \in UserIds : Deactivate(h, u)
      BY <1>7
    <2> DEFINE r == [op |-> "deactivate", user |-> u, writes |-> users[u].active]
    <2>2. users[u] \in UserType
      BY <1>0 DEF TypeInv
    <2>3. r \in CloseReq
      BY <1>0, <2>2 DEF CloseReq, UserType
    <2>4. UNCHANGED <<users, refresh_tokens>> /\ req' = [req EXCEPT ![h] = r]
      BY <2>1 DEF Deactivate, Begin
    <2>5. r.user = u
      OBVIOUS
    <2> HIDE DEF r
    <2>6. r \in ReqType
      BY <2>3 DEF ReqType
    <2>7. QED
      BY <2>4, <2>5, <2>6, TypeRequest
  <1>8. CASE Sweep(h)
    <2> DEFINE T == {t \in TokenIds : refresh_tokens[t].user = req[h].user}
               r == [op |-> "sweep", user |-> req[h].user, writes |-> req[h].writes, tokens |-> T]
    <2>1. req[h] \in CloseReq /\ req[h].user \in UserIds
      BY <1>8, Requests DEF Sweep, TypeInv
    <2>2. T \in SUBSET Nat
      BY <1>0
    <2> HIDE DEF T
    <2>3. r \in SweepReq
      BY <2>1, <2>2 DEF SweepReq, CloseReq
    <2>4. UNCHANGED <<users, refresh_tokens>> /\ req' = [req EXCEPT ![h] = r]
      BY <1>8 DEF Sweep, T
    <2>5. r.user = req[h].user
      OBVIOUS
    <2> HIDE DEF r
    <2>6. r \in ReqType
      BY <2>3 DEF ReqType
    <2>7. QED
      BY <2>1, <2>4, <2>5, <2>6, TypeRequest
  <1>9. QED
    BY <1>1, <1>2, <1>3, <1>4, <1>5, <1>6, <1>7, <1>8

LEMMA TypeEnds ==
    ASSUME TypeInv, NEW h \in Handlers, End(h)
    PROVE  /\ req' \in [Handlers -> ReqType] /\ req'[h] = Idle
           /\ \A g \in Handlers \ {h} : req'[g] = req[g]
           /\ \A g \in Handlers : req'[g].op \in WithUser => req'[g].user \in UserIds
  <1>1. Idle \in ReqType /\ Idle.op \notin WithUser
    BY Requests DEF ReqType, WithUser
  <1>2. /\ req' \in [Handlers -> ReqType] /\ req'[h] = Idle
        /\ \A g \in Handlers \ {h} : req'[g] = req[g]
    BY <1>1, ReqMoves DEF End
  <1>3. QED
    BY <1>1, <1>2 DEF TypeInv

\* A row is inserted, or none is.
LEMMA Created ==
    ASSUME TypeInv, NEW h \in Handlers, CreateUser(h)
    PROVE  \/ UNCHANGED <<users, announced>> /\ Registered(req[h].email)
           \/ /\ ~Registered(req[h].email) /\ req[h] \in CreateReq
              /\ users' \in Seq(UserType) /\ Len(users') = Len(users) + 1
              /\ users'[Len(users) + 1].email = req[h].email
              /\ users'[Len(users) + 1].active = TRUE
              /\ \A u \in 1 .. Len(users) : users'[u] = users[u]
              /\ announced' = IF req[h].role = "customer" THEN Append(announced, Len(users) + 1)
                              ELSE announced
  <1> DEFINE new == [email |-> req[h].email, role |-> req[h].role, active |-> TRUE]
             n   == Len(users) + 1
  <1>1. CASE Registered(req[h].email)
    BY <1>1 DEF CreateUser
  <1>2. CASE ~Registered(req[h].email)
    <2>1. req[h] \in CreateReq
      BY Requests DEF CreateUser, TypeInv
    <2>2. new \in UserType
      BY <2>1 DEF CreateReq, UserType
    <2>3. users' = Append(users, new) /\ users \in Seq(UserType)
      BY <1>2 DEF CreateUser, TypeInv
    <2>4. announced' = IF req[h].role = "customer" THEN Append(announced, n) ELSE announced
      BY <1>2 DEF CreateUser
    <2> HIDE DEF new
    <2>5. /\ users' \in Seq(UserType) /\ Len(users') = n /\ users'[n] = new
          /\ \A u \in 1 .. Len(users) : users'[u] = users[u]
      BY <2>2, <2>3
    <2>6. new.email = req[h].email /\ new.active = TRUE
      BY DEF new
    <2>7. QED
      BY <1>2, <2>1, <2>4, <2>5, <2>6
  <1>3. QED
    BY <1>1, <1>2

LEMMA TypeCreate ==
    ASSUME TypeInv, NEW h \in Handlers, CreateUser(h)
    PROVE  TypeInv'
  <1>1. End(h) /\ UNCHANGED refresh_tokens
    BY DEF CreateUser
  <1>2. users' \in Seq(UserType) /\ Len(users') >= Len(users)
    <2>1. users \in Seq(UserType) /\ Len(users) \in Nat
      BY DEF TypeInv
    <2>2. CASE UNCHANGED users
      BY <2>1, <2>2
    <2>3. CASE users' \in Seq(UserType) /\ Len(users') = Len(users) + 1
      BY <2>1, <2>3
    <2>4. QED
      BY <2>2, <2>3, Created
  <1>3. \A t \in 1 .. Len(refresh_tokens) : refresh_tokens[t].user \in UserIds
    BY Ids DEF TypeInv
  <1>4. refresh_tokens' \in Seq(TokenType)
    BY <1>1 DEF TypeInv
  <1>5. QED
    BY <1>1, <1>2, <1>3, <1>4, TypeEnds, TypeTables

LEMMA TypeIssue ==
    ASSUME TypeInv, NEW h \in Handlers, SignIn(h) \/ Rotate(h)
    PROVE  TypeInv'
  <1>1. End(h) /\ UNCHANGED users
    BY DEF SignIn, Rotate
  <1>2. /\ req[h] \in SignInReq \cup RotateReq /\ req[h].user \in UserIds
        /\ refresh_tokens \in Seq(TokenType) /\ users \in Seq(UserType)
        /\ Len(refresh_tokens) \in Nat /\ Len(users) \in Nat
    BY Requests DEF SignIn, Rotate, TypeInv, WithUser
  <1>3. PICK tokens \in {refresh_tokens, Revoke({req[h].token})} :
            IssueTokens(req[h].user, req[h].role, req[h].raced, tokens)
    BY DEF SignIn, Rotate
  <1>4. /\ tokens \in Seq(TokenType) /\ Len(tokens) = Len(refresh_tokens)
        /\ \A t \in 1 .. Len(refresh_tokens) : tokens[t].user = refresh_tokens[t].user
    BY <1>2, <1>3, Revoked
  <1>5. req[h].role \in Roles /\ req[h].raced \in BOOLEAN
    BY <1>2 DEF SignInReq, RotateReq
  <1>6. /\ refresh_tokens' \in Seq(TokenType) /\ Len(refresh_tokens') = Len(refresh_tokens) + 1
        /\ refresh_tokens'[Len(refresh_tokens) + 1].user = req[h].user
        /\ \A t \in 1 .. Len(refresh_tokens) : refresh_tokens'[t] = tokens[t]
    BY <1>2, <1>3, <1>4, <1>5, Issued
  <1>7. \A t \in 1 .. Len(refresh_tokens') : refresh_tokens'[t].user \in UserIds
    <2>1. \A t \in 1 .. Len(refresh_tokens) : refresh_tokens[t].user \in UserIds
      BY Ids DEF TypeInv
    <2>2. QED
      BY <1>2, <1>4, <1>6, <2>1
  <1>8. QED
    BY <1>1, <1>2, <1>6, <1>7, TypeEnds, TypeTables

\* A column of a user is written.
LEMMA Written ==
    ASSUME TypeInv, NEW u \in UserIds, (\E role \in Roles : ChangeRole(u, role)) \/ Activate(u)
    PROVE  /\ UNCHANGED <<refresh_tokens, announced, attempts, req, faults>>
           /\ users' \in Seq(UserType) /\ Len(users') = Len(users)
           /\ \A v \in 1 .. Len(users) : /\ users'[v].email = users[v].email
                                         /\ users[v].active => users'[v].active
  <1>1. u \in 1 .. Len(users) /\ users[u] \in UserType /\ users \in Seq(UserType)
    BY Ids DEF TypeInv
  <1>2. CASE \E role \in Roles : ChangeRole(u, role)
    <2>1. PICK role \in Roles : ChangeRole(u, role)
      BY <1>2
    <2> DEFINE row == [users[u] EXCEPT !.role = role]
    <2>2. row \in UserType /\ row.active = users[u].active /\ row.email = users[u].email
      BY <1>1, UserColumns
    <2>3. users' = [users EXCEPT ![u] = row]
      BY <1>1, <2>1 DEF ChangeRole
    <2> HIDE DEF row
    <2>4. /\ users' \in Seq(UserType) /\ Len(users') = Len(users) /\ users'[u] = row
          /\ \A v \in 1 .. Len(users) \ {u} : users'[v] = users[v]
      BY <1>1, <2>2, <2>3, UserWritten
    <2>5. QED
      BY <2>1, <2>2, <2>4 DEF ChangeRole
  <1>3. CASE Activate(u)
    <2> DEFINE row == [users[u] EXCEPT !.active = TRUE]
    <2>1. row \in UserType /\ row.active = TRUE /\ row.email = users[u].email
      BY <1>1, UserColumns
    <2>2. users' = [users EXCEPT ![u] = row]
      BY <1>1, <1>3 DEF Activate
    <2> HIDE DEF row
    <2>3. /\ users' \in Seq(UserType) /\ Len(users') = Len(users) /\ users'[u] = row
          /\ \A v \in 1 .. Len(users) \ {u} : users'[v] = users[v]
      BY <1>1, <2>1, <2>2, UserWritten
    <2>4. QED
      BY <1>3, <2>1, <2>3 DEF Activate
  <1>4. QED
    BY <1>2, <1>3

\* A token is used up.
LEMMA UsedUp ==
    ASSUME TypeInv, NEW t \in TokenIds, Logout(t) \/ TokenExpires(t)
    PROVE  /\ UNCHANGED <<users, announced, attempts, req, faults>>
           /\ refresh_tokens' \in Seq(TokenType) /\ Len(refresh_tokens') = Len(refresh_tokens)
           /\ \A s \in 1 .. Len(refresh_tokens) :
                  /\ refresh_tokens'[s].user = refresh_tokens[s].user
                  /\ refresh_tokens'[s].raced = refresh_tokens[s].raced
                  /\ refresh_tokens'[s].usable => refresh_tokens[s].usable
  <1>1. refresh_tokens \in Seq(TokenType) /\ t \in 1 .. Len(refresh_tokens)
    BY Ids DEF TypeInv
  <1>2. CASE Logout(t)
    BY <1>1, <1>2, Revoked DEF Logout
  <1>3. CASE TokenExpires(t)
    <2> DEFINE row == [refresh_tokens[t] EXCEPT !.usable = FALSE]
    <2>1. /\ row \in TokenType /\ row.user = refresh_tokens[t].user /\ row.usable = FALSE
          /\ row.raced = refresh_tokens[t].raced
      <3>1. refresh_tokens[t] \in TokenType
        BY <1>1
      <3>2. QED
        BY <3>1 DEF TokenType
    <2>2. refresh_tokens' = [refresh_tokens EXCEPT ![t] = row]
      BY <1>1, <1>3 DEF TokenExpires
    <2> HIDE DEF row
    <2>3. /\ refresh_tokens' \in Seq(TokenType) /\ Len(refresh_tokens') = Len(refresh_tokens)
          /\ refresh_tokens'[t] = row
          /\ \A s \in 1 .. Len(refresh_tokens) \ {t} : refresh_tokens'[s] = refresh_tokens[s]
      BY <1>1, <2>1, <2>2
    <2>4. QED
      BY <1>3, <2>1, <2>3 DEF TokenExpires
  <1>4. QED
    BY <1>2, <1>3

\* A deactivation commits: the column, the tokens it saw, and the others' memory
\* that they read the account before.
LEMMA Deactivated ==
    ASSUME TypeInv, NEW h \in Handlers, CommitDeactivation(h)
    PROVE  /\ req[h] \in SweepReq /\ req[h].user \in UserIds
           /\ users' \in Seq(UserType) /\ Len(users') = Len(users)
           /\ \A v \in 1 .. Len(users) :
                  /\ users'[v].email = users[v].email
                  /\ users'[v].active <=> users[v].active /\ ~(v = req[h].user /\ req[h].writes)
           /\ refresh_tokens' = Revoke(req[h].tokens)
           /\ UNCHANGED <<announced, attempts, faults>>
           /\ req' \in [Handlers -> ReqType] /\ req'[h] = Idle
           /\ \A g \in Handlers \ {h} :
                  IF req[g].op \in {"sign_in", "rotate"} /\ req[g].user = req[h].user
                  THEN /\ req'[g].op = req[g].op /\ req'[g].user = req[g].user
                       /\ req'[g].raced <=> req[g].raced \/ req[h].writes
                  ELSE req'[g] = req[g]
  <1> DEFINE u == req[h].user
             w == req[h].writes
             row == [users[u] EXCEPT !.active = @ /\ ~w]
             R(g) == [req[g] EXCEPT !.raced = @ \/ w]
             Hit(g) == req[g].op \in {"sign_in", "rotate"} /\ req[g].user = u
  <1>1. req[h].op = "sweep" /\ req \in [Handlers -> ReqType]
    BY DEF CommitDeactivation, TypeInv
  <1>2. req[h] \in SweepReq /\ u \in UserIds
    BY <1>1, Requests DEF TypeInv, WithUser
  <1>3. w \in BOOLEAN
    BY <1>2 DEF SweepReq
  <1>4. u \in 1 .. Len(users) /\ users[u] \in UserType /\ users \in Seq(UserType)
    BY <1>2, Ids DEF TypeInv
  <1>5. row \in UserType /\ (row.active <=> users[u].active /\ ~w) /\ row.email = users[u].email
    BY <1>3, <1>4 DEF UserType
  <1>6. users' = [users EXCEPT ![u] = row]
    BY <1>4 DEF CommitDeactivation
  <1> HIDE DEF row
  <1>7. /\ users' \in Seq(UserType) /\ Len(users') = Len(users) /\ users'[u] = row
        /\ \A v \in 1 .. Len(users) \ {u} : users'[v] = users[v]
    BY <1>4, <1>5, <1>6, UserWritten
  <1>8. \A v \in 1 .. Len(users) :
            /\ users'[v].email = users[v].email
            /\ users'[v].active <=> users[v].active /\ ~(v = u /\ w)
    BY <1>5, <1>7
  <1>9. ASSUME NEW g \in Handlers, Hit(g)
        PROVE  /\ R(g) \in ReqType /\ R(g).op = req[g].op /\ R(g).user = req[g].user
               /\ R(g).raced <=> req[g].raced \/ w
    <2>1. CASE req[g].op = "sign_in"
      <3>1. req[g] \in SignInReq
        BY <1>1, <2>1, Requests
      <3>2. /\ R(g) \in SignInReq /\ R(g).op = req[g].op /\ R(g).user = req[g].user
            /\ R(g).raced <=> req[g].raced \/ w
        BY <1>3, <3>1 DEF SignInReq
      <3>3. QED
        BY <3>2 DEF ReqType
    <2>2. CASE req[g].op = "rotate"
      <3>1. req[g] \in RotateReq
        BY <1>1, <2>2, Requests
      <3>2. /\ R(g) \in RotateReq /\ R(g).op = req[g].op /\ R(g).user = req[g].user
            /\ R(g).raced <=> req[g].raced \/ w
        BY <1>3, <3>1 DEF RotateReq
      <3>3. QED
        BY <3>2 DEF ReqType
    <2>3. QED
      BY <1>9, <2>1, <2>2
  <1>10. req' = [g \in Handlers |-> IF g = h THEN Idle ELSE IF Hit(g) THEN R(g) ELSE req[g]]
    BY DEF CommitDeactivation
  <1>11. Idle \in ReqType
    BY DEF ReqType
  <1> HIDE DEF R, Hit
  <1>12. req' \in [Handlers -> ReqType]
    BY <1>1, <1>9, <1>10, <1>11
  <1>13. /\ req'[h] = Idle
         /\ \A g \in Handlers \ {h} : /\ Hit(g) => req'[g] = R(g)
                                      /\ ~Hit(g) => req'[g] = req[g]
    BY <1>10
  <1>14. \A g \in Handlers \ {h} :
             IF Hit(g) THEN /\ req'[g].op = req[g].op /\ req'[g].user = req[g].user
                            /\ req'[g].raced <=> req[g].raced \/ w
             ELSE req'[g] = req[g]
    BY <1>9, <1>13
  <1>15. refresh_tokens' = Revoke(req[h].tokens) /\ UNCHANGED <<announced, attempts, faults>>
    BY DEF CommitDeactivation
  <1>16. QED
    BY <1>2, <1>7, <1>8, <1>12, <1>13, <1>14, <1>15 DEF Hit

LEMMA TypeInvInit == AuthInit => TypeInv
  <1> SUFFICES ASSUME AuthInit PROVE TypeInv
    OBVIOUS
  <1>1. Idle \in ReqType /\ Idle.op \notin WithUser
    BY Requests DEF ReqType, WithUser
  <1>2. users \in Seq(UserType) /\ refresh_tokens \in Seq(TokenType) /\ TokenIds = {}
    BY DEF AuthInit, TokenIds
  <1>3. /\ req \in [Handlers -> ReqType]
        /\ \A h \in Handlers : req[h].op \notin WithUser
    BY <1>1 DEF AuthInit
  <1>4. QED
    BY <1>2, <1>3 DEF TypeInv

LEMMA TypeInvStep == TypeInv /\ DOMAIN attempts = AllEmails /\ [AuthNext]_authVars => TypeInv'
  <1> SUFFICES ASSUME TypeInv, DOMAIN attempts = AllEmails, [AuthNext]_authVars PROVE TypeInv'
    OBVIOUS
  <1>0. /\ users \in Seq(UserType) /\ refresh_tokens \in Seq(TokenType)
        /\ req \in [Handlers -> ReqType]
        /\ Len(users) \in Nat /\ Len(refresh_tokens) \in Nat
        /\ \A t \in 1 .. Len(refresh_tokens) : refresh_tokens[t].user \in UserIds
        /\ \A g \in Handlers : req[g].op \in WithUser => req[g].user \in UserIds
    BY Ids DEF TypeInv
  <1>1. CASE UNCHANGED authVars \/ \E e \in DOMAIN attempts : Tick(e)
    <2>1. UNCHANGED <<users, refresh_tokens, req>>
      <3>1. CASE UNCHANGED authVars
        BY <3>1 DEF authVars
      <3>2. CASE \E e \in DOMAIN attempts : Tick(e)
        BY <3>2 DEF Tick
      <3>3. QED
        BY <1>1, <3>1, <3>2
    <2>2. QED
      BY <2>1 DEF TypeInv, UserIds, TokenIds
  <1>2. ASSUME NEW h \in Handlers, CommitDeactivation(h)
        PROVE  TypeInv'
    <2>1. \A g \in Handlers : req'[g].op \in WithUser => req'[g].user \in UserIds
      <3>1. Idle.op \notin WithUser
        BY Requests DEF WithUser
      <3>2. QED
        BY <1>0, <1>2, <3>1, Deactivated
    <2>2. req[h] \in SweepReq /\ refresh_tokens' = Revoke(req[h].tokens)
      BY <1>2, Deactivated
    <2>3. /\ refresh_tokens' \in Seq(TokenType) /\ Len(refresh_tokens') = Len(refresh_tokens)
          /\ \A t \in 1 .. Len(refresh_tokens) : refresh_tokens'[t].user = refresh_tokens[t].user
      BY <1>0, <2>2, Revoked
    <2>4. \A t \in 1 .. Len(refresh_tokens') : refresh_tokens'[t].user \in UserIds
      BY <1>0, <2>3
    <2>5. QED
      BY <1>0, <1>2, <2>1, <2>3, <2>4, Deactivated, TypeTables
  <1>3. ASSUME NEW u \in UserIds, (\E role \in Roles : ChangeRole(u, role)) \/ Activate(u)
        PROVE  TypeInv'
    BY <1>0, <1>3, Written, TypeTables
  <1>4. ASSUME NEW t \in TokenIds, Logout(t) \/ TokenExpires(t)
        PROVE  TypeInv'
    <2>1. /\ UNCHANGED <<users, req>>
          /\ refresh_tokens' \in Seq(TokenType) /\ Len(refresh_tokens') = Len(refresh_tokens)
          /\ \A s \in 1 .. Len(refresh_tokens) : refresh_tokens'[s].user = refresh_tokens[s].user
      BY <1>4, UsedUp
    <2>2. \A s \in 1 .. Len(refresh_tokens') : refresh_tokens'[s].user \in UserIds
      BY <1>0, <2>1
    <2>3. QED
      BY <1>0, <2>1, <2>2, TypeTables
  <1>5. QED
    BY <1>1, <1>2, <1>3, <1>4, TypeBegin, TypeCreate, TypeIssue DEF AuthNext, Roles

-----------------------------------------------------------------------------
(* The counters of the throttle                                            *)

\* A counter in Redis is gone, or it expires one window after its first failure.
Counter ==
    {c \in [count : Nat, ttl : Nat, age : Nat] :
         IF c.count = 0 THEN c = NoAttempts ELSE c.ttl > 0 /\ c.age + c.ttl = LoginWindow}

CountersOK == attempts \in [AllEmails -> Counter] /\ faults \in Nat

\* What a failure makes of a counter, and a unit of time.
Failed(c)  == [c EXCEPT !.count = @ + 1, !.ttl = IF @ = 0 THEN LoginWindow ELSE @]
Elapsed(c) == [c EXCEPT !.ttl = @ - 1, !.age = @ + 1]

LEMMA Counters ==
    /\ NoAttempts \in Counter /\ NoAttempts.count = 0
    /\ \A c \in Counter :
           /\ c.count \in Nat
           /\ c.count > 0 => c.age < LoginWindow
           /\ Failed(c) \in Counter /\ Failed(c).count = c.count + 1
           /\ c.count > 0 /\ c.ttl # 1 => /\ Elapsed(c) \in Counter
                                         /\ Elapsed(c).count = c.count
  <1>0. LoginWindow \in Nat /\ LoginWindow > 0
    BY AuthBounds
  <1>1. NoAttempts \in Counter /\ NoAttempts.count = 0 /\ NoAttempts.ttl = 0 /\ NoAttempts.age = 0
    BY DEF NoAttempts, Counter
  <1>2. ASSUME NEW c \in Counter
        PROVE  /\ c \in [count : Nat, ttl : Nat, age : Nat]
               /\ c.count = 0 => c.ttl = 0 /\ c.age = 0
               /\ c.count # 0 => c.ttl > 0 /\ c.age + c.ttl = LoginWindow
    BY <1>1 DEF Counter
  <1>3. ASSUME NEW c \in Counter
        PROVE  /\ c.count \in Nat /\ (c.count > 0 => c.age < LoginWindow)
    BY <1>0, <1>2
  <1>4. ASSUME NEW c \in Counter
        PROVE  Failed(c) \in Counter /\ Failed(c).count = c.count + 1
    <2> DEFINE d == Failed(c)
    <2> DEFINE ttl == IF c.ttl = 0 THEN LoginWindow ELSE c.ttl
               n   == c.count + 1
    <2>1. ttl \in Nat /\ n \in Nat /\ d = [c EXCEPT !.count = n, !.ttl = ttl]
      BY <1>0, <1>2 DEF Failed
    <2> HIDE DEF d, ttl, n
    <2>2. /\ d \in [count : Nat, ttl : Nat, age : Nat]
          /\ d.count = n /\ d.age = c.age /\ d.ttl = ttl
      <3>1. c \in [count : Nat, ttl : Nat, age : Nat]
        BY <1>2
      <3>2. QED
        BY <2>1, <3>1
    <2>3. d.count # 0 /\ d.ttl > 0 /\ d.age + d.ttl = LoginWindow
      BY <1>0, <1>2, <2>2 DEF ttl, n
    <2>4. d \in Counter
      BY <2>2, <2>3 DEF Counter
    <2>5. QED
      BY <2>2, <2>4 DEF d, n
  <1>5. ASSUME NEW c \in Counter, c.count > 0, c.ttl # 1
        PROVE  Elapsed(c) \in Counter /\ Elapsed(c).count = c.count
    <2> DEFINE d == Elapsed(c)
    <2>0. c.ttl > 0 /\ c.age + c.ttl = LoginWindow
      BY <1>2, <1>5
    <2> DEFINE ttl == c.ttl - 1
               age == c.age + 1
    <2>1. ttl \in Nat /\ age \in Nat /\ d = [c EXCEPT !.ttl = ttl, !.age = age]
      BY <1>2, <1>5, <2>0 DEF Elapsed
    <2> HIDE DEF d, ttl, age
    <2>2. /\ d \in [count : Nat, ttl : Nat, age : Nat]
          /\ d.count = c.count /\ d.age = age /\ d.ttl = ttl
      <3>1. c \in [count : Nat, ttl : Nat, age : Nat]
        BY <1>2
      <3>2. QED
        BY <2>1, <3>1
    <2>3. d.count # 0 /\ d.ttl > 0 /\ d.age + d.ttl = LoginWindow
      BY <1>2, <1>5, <2>0, <2>2 DEF ttl, age
    <2>4. d \in Counter
      BY <2>2, <2>3 DEF Counter
    <2>5. QED
      BY <2>2, <2>4 DEF d
  <1>6. QED
    BY <1>1, <1>3, <1>4, <1>5

\* What a wrong password leaves, a right one, and time.
LEMMA Recorded ==
    ASSUME TypeInv, CountersOK, NEW h \in Handlers, LoginFails(h)
    PROVE  /\ req[h].op = "login" /\ req[h].email \in AllEmails /\ End(h)
           /\ \/ /\ attempts' = [attempts EXCEPT ![req[h].email] = Failed(attempts[req[h].email])]
                 /\ UNCHANGED faults
              \/ UNCHANGED attempts /\ faults' = faults + 1
  <1>1. req[h].op = "login" /\ req[h].email \in AllEmails /\ End(h)
    <2>1. req[h].op = "login" /\ req[h] \in ReqType /\ End(h)
      BY DEF LoginFails, TypeInv
    <2>2. QED
      BY <2>1, Requests DEF LoginReq
  <1>2. CASE RecordFailure(req[h].email) /\ UNCHANGED faults
    <2>1. PICK e : e = req[h].email
      OBVIOUS
    <2>2. /\ attempts[e] \in [count : Nat, ttl : Nat, age : Nat] /\ e \in AllEmails
          /\ attempts \in [AllEmails -> Counter]
      BY <1>1, <2>1 DEF CountersOK, Counter
    <2>3. attempts' = [attempts EXCEPT ![e] = Failed(attempts[e])]
      BY <1>2, <2>1, <2>2 DEF RecordFailure, Failed
    <2>4. QED
      BY <1>1, <1>2, <2>1, <2>3
  <1>3. CASE RedisFault /\ UNCHANGED attempts
    BY <1>1, <1>3 DEF RedisFault
  <1>4. QED
    BY <1>2, <1>3 DEF LoginFails

LEMMA Passed ==
    ASSUME TypeInv, CountersOK, NEW h \in Handlers, LoginPasses(h)
    PROVE  /\ req[h].op = "login" /\ req[h].email \in AllEmails
           /\ \/ /\ attempts' = [attempts EXCEPT ![req[h].email] = NoAttempts]
                 /\ UNCHANGED faults
              \/ UNCHANGED attempts /\ faults' \in {faults, faults + 1}
           /\ \E r \in {Idle} \cup SignInReq :
                  /\ req' = [req EXCEPT ![h] = r]
                  /\ r # Idle => r.user \in UserIds /\ users[r.user].active
  <1>1. req[h].op = "login" /\ req[h] \in LoginReq
    BY Requests DEF LoginPasses, TypeInv
  <1>2. req[h].email \in AllEmails
    BY <1>1 DEF LoginReq
  <1>3. \/ /\ attempts' = [attempts EXCEPT ![req[h].email] = NoAttempts]
           /\ UNCHANGED faults
        \/ UNCHANGED attempts /\ faults' \in {faults, faults + 1}
    BY DEF LoginPasses, RedisFault
  <1> DEFINE u == UserOf(req[h].email)
             r == [op |-> "sign_in", user |-> u, raced |-> FALSE, role |-> users[u].role]
  <1>4. u \in UserIds /\ users[u] \in UserType /\ u \in Nat
    <2>1. u \in UserIds
      BY DEF LoginPasses, Registered, UserOf
    <2>2. QED
      BY <2>1, Ids DEF TypeInv
  <1>5. r \in SignInReq /\ r.user = u
    BY <1>4 DEF SignInReq, UserType
  <1>6. \/ req' = [req EXCEPT ![h] = r] /\ users[u].active
        \/ req' = [req EXCEPT ![h] = Idle]
    BY DEF LoginPasses, End
  <1> HIDE DEF r, u
  <1>7. QED
    BY <1>1, <1>2, <1>3, <1>4, <1>5, <1>6

LEMMA CountersInit == AuthInit => CountersOK
  BY Counters DEF AuthInit, CountersOK, AllEmails

LEMMA CountersStep == TypeInv /\ CountersOK /\ [AuthNext]_authVars => CountersOK'
  <1> SUFFICES ASSUME TypeInv, CountersOK, [AuthNext]_authVars PROVE CountersOK'
    OBVIOUS
  <1>0. attempts \in [AllEmails -> Counter] /\ faults \in Nat
    BY DEF CountersOK
  <1>1. ASSUME NEW h \in Handlers, LoginFails(h)
        PROVE  CountersOK'
    <2>1. PICK e \in AllEmails : e = req[h].email
      BY <1>1, Recorded
    <2>2. Failed(attempts[e]) \in Counter
      BY <1>0, Counters
    <2>3. \/ attempts' = [attempts EXCEPT ![e] = Failed(attempts[e])] /\ UNCHANGED faults
          \/ UNCHANGED attempts /\ faults' = faults + 1
      BY <1>1, <2>1, Recorded
    <2>4. QED
      BY <1>0, <2>2, <2>3 DEF CountersOK
  <1>2. ASSUME NEW h \in Handlers, LoginPasses(h)
        PROVE  CountersOK'
    <2>1. PICK e \in AllEmails : e = req[h].email
      BY <1>2, Passed
    <2>2. \/ attempts' = [attempts EXCEPT ![e] = NoAttempts] /\ UNCHANGED faults
          \/ UNCHANGED attempts /\ faults' \in {faults, faults + 1}
      BY <1>2, <2>1, Passed
    <2>3. QED
      BY <1>0, <2>2, Counters DEF CountersOK
  <1>3. ASSUME NEW e \in DOMAIN attempts, Tick(e)
        PROVE  CountersOK'
    <2>1. e \in AllEmails /\ attempts[e] \in Counter /\ attempts[e].count > 0 /\ faults' = faults
      BY <1>0, <1>3 DEF Tick
    <2> DEFINE c == IF attempts[e].ttl = 1 THEN NoAttempts ELSE Elapsed(attempts[e])
    <2>2. c \in Counter
      BY <2>1, Counters
    <2>3. attempts' = [attempts EXCEPT ![e] = c]
      BY <1>3 DEF Tick, Elapsed
    <2> HIDE DEF c
    <2>4. QED
      BY <1>0, <2>1, <2>2, <2>3 DEF CountersOK
  <1>4. ASSUME NEW h \in Handlers, NEW e, Login(h, e)
        PROVE  CountersOK'
    <2>1. attempts' = attempts /\ faults' \in {faults, faults + 1}
      BY <1>4 DEF Login, RedisFault
    <2>2. QED
      BY <1>0, <2>1 DEF CountersOK
  <1>5. ASSUME UNCHANGED <<attempts, faults>>
        PROVE  CountersOK'
    BY <1>0, <1>5 DEF CountersOK
  <1>6. ASSUME NEW h \in Handlers,
               SeedAdmin(h) \/ CreateUser(h) \/ SignIn(h) \/ Rotate(h) \/ Sweep(h)
               \/ CommitDeactivation(h)
        PROVE  CountersOK'
    BY <1>5, <1>6 DEF SeedAdmin, CreateUser, SignIn, Rotate, Sweep, CommitDeactivation
  <1>7. ASSUME NEW h \in Handlers,
               \/ \E e \in Emails : Register(h, e)
               \/ \E t \in TokenIds : Refresh(h, t)
               \/ \E u \in UserIds : Deactivate(h, u)
        PROVE  CountersOK'
    BY <1>5, <1>7 DEF Register, Refresh, Deactivate
  <1>8. ASSUME \/ \E u \in UserIds : Activate(u) \/ \E role \in {"customer", "admin"} : ChangeRole(u, role)
               \/ \E t \in TokenIds : Logout(t) \/ TokenExpires(t)
        PROVE  CountersOK'
    BY <1>5, <1>8 DEF Activate, ChangeRole, Logout, TokenExpires
  <1>9. CASE UNCHANGED authVars
    BY <1>5, <1>9 DEF authVars
  <1>10. QED
    BY <1>1, <1>2, <1>3, <1>4, <1>6, <1>7, <1>8, <1>9 DEF AuthNext

\* The types and the counters, of every state.
BaseInv == TypeInv /\ CountersOK

LEMMA BaseInvCorrect == AuthSpec => []BaseInv
  <1>1. AuthInit => BaseInv
    BY TypeInvInit, CountersInit DEF BaseInv
  <1>2. BaseInv => DOMAIN attempts = AllEmails
    BY DEF BaseInv, CountersOK
  <1>3. BaseInv /\ [AuthNext]_authVars => BaseInv'
    BY <1>2, TypeInvStep, CountersStep DEF BaseInv
  <1>4. QED
    BY <1>1, <1>3, PTL DEF AuthSpec

-----------------------------------------------------------------------------
(* AttemptsInv *)

\* The attempts at e that are past the check.
Logins(e) == {h \in Handlers : req[h].op = "login" /\ req[h].email = e}

\* Counted attempts and those that may still be counted.
AttemptsInv ==
    \A e \in AllEmails :
        attempts[e].count + Cardinality(Logins(e))
            <= LoginMaxAttempts - 1 + Cardinality(Handlers) + faults

LEMMA LoginsFinite ==
    ASSUME IsFiniteSet(Handlers), NEW e
    PROVE  /\ IsFiniteSet(Logins(e)) /\ Cardinality(Logins(e)) \in Nat
           /\ Cardinality(Handlers) \in Nat /\ Cardinality(Logins(e)) <= Cardinality(Handlers)
           /\ \A h : h \in Logins(e) <=> h \in Handlers /\ req[h].op = "login" /\ req[h].email = e
  <1>1. Logins(e) \subseteq Handlers
    BY DEF Logins
  <1>2. /\ IsFiniteSet(Logins(e)) /\ Cardinality(Logins(e)) \in Nat
        /\ Cardinality(Handlers) \in Nat /\ Cardinality(Logins(e)) <= Cardinality(Handlers)
    BY <1>1, FS_Subset, FS_CardinalityType
  <1>3. \A h : h \in Logins(e) <=> h \in Handlers /\ req[h].op = "login" /\ req[h].email = e
    BY DEF Logins
  <1>4. QED
    BY <1>2, <1>3

\* No new attempt: the others cannot be more than they were.
LEMMA NoNewLogin ==
    ASSUME IsFiniteSet(Handlers), NEW e,
           \A g \in Handlers : req'[g].op = "login" => req'[g] = req[g]
    PROVE  /\ Cardinality(Logins(e))' \in Nat
           /\ Cardinality(Logins(e))' <= Cardinality(Logins(e))
           /\ Cardinality(Logins(e))' <= Cardinality(Handlers)
  <1>1. Logins(e)' \subseteq Logins(e)
    BY DEF Logins
  <1>2. QED
    BY <1>1, LoginsFinite, FS_Subset, FS_CardinalityType

LEMMA AttemptsStep ==
    IsFiniteSet(Handlers) /\ BaseInv /\ AttemptsInv /\ [AuthNext]_authVars => AttemptsInv'
  <1> SUFFICES ASSUME IsFiniteSet(Handlers), BaseInv, AttemptsInv, [AuthNext]_authVars
               PROVE  AttemptsInv'
    OBVIOUS
  <1>0. /\ TypeInv /\ CountersOK /\ attempts \in [AllEmails -> Counter] /\ faults \in Nat
        /\ req \in [Handlers -> ReqType] /\ Cardinality(Handlers) \in Nat
        /\ LoginMaxAttempts \in Nat /\ LoginMaxAttempts > 0
        /\ \A e \in AllEmails : attempts[e].count \in Nat
        /\ Idle.op # "login" /\ Idle \in ReqType
    <2>1. TypeInv /\ CountersOK /\ attempts \in [AllEmails -> Counter] /\ faults \in Nat
      BY DEF BaseInv, CountersOK
    <2>2. req \in [Handlers -> ReqType] /\ Idle \in ReqType /\ Idle.op # "login"
      BY <2>1, Requests DEF TypeInv, ReqType
    <2>3. \A e \in AllEmails : attempts[e].count \in Nat
      BY <2>1, Counters
    <2>4. Cardinality(Handlers) \in Nat /\ LoginMaxAttempts \in Nat /\ LoginMaxAttempts > 0
      BY FS_CardinalityType, AuthBounds
    <2>5. QED
      BY <2>1, <2>2, <2>3, <2>4
  <1>1. ASSUME UNCHANGED <<attempts, faults>>,
               \A g \in Handlers : req'[g].op = "login" => req'[g] = req[g]
        PROVE  AttemptsInv'
    <2> SUFFICES ASSUME NEW e \in AllEmails
                 PROVE  attempts[e].count + Cardinality(Logins(e))'
                            <= LoginMaxAttempts - 1 + Cardinality(Handlers) + faults
      BY <1>1 DEF AttemptsInv
    <2>1. /\ Cardinality(Logins(e))' \in Nat
          /\ Cardinality(Logins(e))' <= Cardinality(Logins(e))
      BY <1>1, NoNewLogin
    <2>2. attempts[e].count + Cardinality(Logins(e))
              <= LoginMaxAttempts - 1 + Cardinality(Handlers) + faults
      BY DEF AttemptsInv
    <2>3. QED
      BY <1>0, <2>1, <2>2, LoginsFinite
  <1>2. ASSUME NEW h \in Handlers, NEW d \in AllEmails, Login(h, d)
        PROVE  AttemptsInv'
    <2> DEFINE r == [op |-> "login", email |-> d]
    <2>1. /\ req[h] = Idle /\ req' = [req EXCEPT ![h] = r] /\ attempts' = attempts
          /\ \/ attempts[d].count < LoginMaxAttempts /\ faults' = faults
             \/ faults' = faults + 1
      BY <1>2 DEF Login, Begin, RateLimiterCheck, RedisFault
    <2>2. r.op = "login" /\ r.email = d
      OBVIOUS
    <2> HIDE DEF r
    <2>3. req'[h] = r /\ \A g \in Handlers \ {h} : req'[g] = req[g]
      BY <1>0, <2>1
    <2> SUFFICES ASSUME NEW e \in AllEmails
                 PROVE  attempts[e].count + Cardinality(Logins(e))'
                            <= LoginMaxAttempts - 1 + Cardinality(Handlers) + faults'
      BY <2>1 DEF AttemptsInv
    <2>4. attempts[e].count + Cardinality(Logins(e))
              <= LoginMaxAttempts - 1 + Cardinality(Handlers) + faults
      BY DEF AttemptsInv
    <2>5. CASE e # d
      <3>1. Logins(e)' = Logins(e)
        BY <1>0, <2>1, <2>2, <2>3, <2>5 DEF Logins
      <3>2. QED
        BY <1>0, <2>1, <2>4, <3>1, LoginsFinite
    <2>6. CASE e = d
      <3>1. /\ Logins(e)' = Logins(e) \cup {h} /\ h \notin Logins(e)
            /\ Logins(e)' \subseteq Handlers
        BY <1>0, <2>1, <2>2, <2>3, <2>6 DEF Logins
      <3>2. /\ Cardinality(Logins(e))' = Cardinality(Logins(e)) + 1
            /\ Cardinality(Logins(e))' <= Cardinality(Handlers)
        BY <3>1, LoginsFinite, FS_AddElement, FS_Subset
      <3>3. QED
        BY <1>0, <2>1, <2>4, <2>6, <3>2, LoginsFinite
    <2>7. QED
      BY <2>5, <2>6
  <1>3. ASSUME NEW h \in Handlers, LoginFails(h)
        PROVE  AttemptsInv'
    <2>1. PICK d \in AllEmails : d = req[h].email
      BY <1>0, <1>3, Recorded
    <2>2. /\ req[h].op = "login" /\ req' = [req EXCEPT ![h] = Idle]
          /\ \/ attempts' = [attempts EXCEPT ![d] = Failed(attempts[d])] /\ faults' = faults
             \/ attempts' = attempts /\ faults' = faults + 1
      BY <1>0, <1>3, <2>1, Recorded DEF End
    <2>3. req'[h] = Idle /\ \A g \in Handlers \ {h} : req'[g] = req[g]
      BY <1>0, <2>2
    <2>4. /\ attempts'[d].count <= attempts[d].count + 1 /\ attempts'[d].count \in Nat
          /\ faults' >= faults /\ faults' \in Nat
          /\ \A e \in AllEmails \ {d} : attempts'[e] = attempts[e]
      BY <1>0, <2>2, Counters
    <2> SUFFICES ASSUME NEW e \in AllEmails
                 PROVE  attempts'[e].count + Cardinality(Logins(e))'
                            <= LoginMaxAttempts - 1 + Cardinality(Handlers) + faults'
      BY DEF AttemptsInv
    <2>5. attempts[e].count + Cardinality(Logins(e))
              <= LoginMaxAttempts - 1 + Cardinality(Handlers) + faults
      BY DEF AttemptsInv
    <2>6. CASE e # d
      <3>1. Logins(e)' = Logins(e)
        BY <1>0, <2>1, <2>3, <2>6 DEF Logins
      <3>2. QED
        BY <1>0, <2>4, <2>5, <2>6, <3>1, LoginsFinite
    <2>7. CASE e = d
      <3>1. Logins(e)' = Logins(e) \ {h} /\ h \in Logins(e)
        BY <1>0, <2>1, <2>2, <2>3, <2>7 DEF Logins
      <3>2. Cardinality(Logins(e))' = Cardinality(Logins(e)) - 1
        BY <3>1, LoginsFinite, FS_RemoveElement
      <3>3. QED
        BY <1>0, <2>4, <2>5, <2>7, <3>2, LoginsFinite
    <2>8. QED
      BY <2>6, <2>7
  <1>4. ASSUME faults' \in Nat, faults' >= faults,
               \A g \in Handlers : req'[g].op = "login" => req'[g] = req[g],
               \A e \in AllEmails : attempts'[e].count \in {0, attempts[e].count}
        PROVE  AttemptsInv'
    <2> SUFFICES ASSUME NEW e \in AllEmails
                 PROVE  attempts'[e].count + Cardinality(Logins(e))'
                            <= LoginMaxAttempts - 1 + Cardinality(Handlers) + faults'
      BY DEF AttemptsInv
    <2>1. /\ Cardinality(Logins(e))' \in Nat
          /\ Cardinality(Logins(e))' <= Cardinality(Logins(e))
          /\ Cardinality(Logins(e))' <= Cardinality(Handlers)
      BY <1>4, NoNewLogin
    <2>2. attempts[e].count + Cardinality(Logins(e))
              <= LoginMaxAttempts - 1 + Cardinality(Handlers) + faults
      BY DEF AttemptsInv
    <2>3. CASE attempts'[e].count = 0
      BY <1>0, <1>4, <2>1, <2>3
    <2>4. CASE attempts'[e].count = attempts[e].count
      BY <1>0, <1>4, <2>1, <2>2, <2>4, LoginsFinite
    <2>5. QED
      BY <1>4, <2>3, <2>4
  <1>5. ASSUME NEW h \in Handlers, LoginPasses(h)
        PROVE  AttemptsInv'
    <2>1. PICK d \in AllEmails : d = req[h].email
      BY <1>0, <1>5, Passed
    <2>2. PICK r \in {Idle} \cup SignInReq : req' = [req EXCEPT ![h] = r]
      BY <1>0, <1>5, Passed
    <2>3. \/ attempts' = [attempts EXCEPT ![d] = NoAttempts] /\ faults' = faults
          \/ attempts' = attempts /\ faults' \in {faults, faults + 1}
      BY <1>0, <1>5, <2>1, Passed
    <2>4. r.op # "login"
      BY Requests
    <2>5. \A g \in Handlers : req'[g].op = "login" => req'[g] = req[g]
      BY <1>0, <2>2, <2>4
    <2>6. /\ faults' \in Nat /\ faults' >= faults
          /\ \A e \in AllEmails : attempts'[e].count \in {0, attempts[e].count}
      BY <1>0, <2>3, Counters
    <2>7. QED
      BY <1>4, <2>5, <2>6
  <1>6. ASSUME NEW d \in AllEmails, Tick(d)
        PROVE  AttemptsInv'
    <2> DEFINE c == IF attempts[d].ttl = 1 THEN NoAttempts ELSE Elapsed(attempts[d])
    <2>1. attempts[d] \in Counter /\ attempts[d].count > 0 /\ UNCHANGED <<faults, req>>
      BY <1>0, <1>6 DEF Tick
    <2>2. attempts' = [attempts EXCEPT ![d] = c]
      BY <1>6 DEF Tick, Elapsed
    <2>3. c.count \in {0, attempts[d].count}
      BY <2>1, Counters
    <2> HIDE DEF c
    <2>4. \A e \in AllEmails : attempts'[e].count \in {0, attempts[e].count}
      BY <1>0, <2>2, <2>3
    <2>5. QED
      BY <1>0, <1>4, <2>1, <2>4
  <1>7. ASSUME NEW h \in Handlers, NEW r, r.op # "login", req' = [req EXCEPT ![h] = r],
               UNCHANGED <<attempts, faults>>
        PROVE  AttemptsInv'
    <2>1. \A g \in Handlers : req'[g].op = "login" => req'[g] = req[g]
      BY <1>0, <1>7
    <2>2. QED
      BY <1>1, <1>7, <2>1
  <1>8. ASSUME NEW h \in Handlers, CreateUser(h) \/ SignIn(h) \/ Rotate(h)
        PROVE  AttemptsInv'
    BY <1>0, <1>7, <1>8 DEF CreateUser, SignIn, Rotate, End
  <1>9. ASSUME NEW h \in Handlers,
               \/ SeedAdmin(h) \/ Sweep(h)
               \/ \E e \in Emails : Register(h, e)
               \/ \E t \in TokenIds : Refresh(h, t)
               \/ \E u \in UserIds : Deactivate(h, u)
        PROVE  AttemptsInv'
    <2>1. \E r : r.op # "login" /\ req' = [req EXCEPT ![h] = r] /\ UNCHANGED <<attempts, faults>>
      <3>1. CASE SeedAdmin(h)
        BY <3>1 DEF SeedAdmin, Begin
      <3>2. CASE Sweep(h)
        BY <3>2 DEF Sweep
      <3>3. CASE \E e \in Emails : Register(h, e)
        BY <3>3 DEF Register, Begin
      <3>4. CASE \E t \in TokenIds : Refresh(h, t)
        BY <3>4 DEF Refresh, Begin
      <3>5. CASE \E u \in UserIds : Deactivate(h, u)
        BY <3>5 DEF Deactivate, Begin
      <3>6. QED
        BY <1>9, <3>1, <3>2, <3>3, <3>4, <3>5
    <2>2. QED
      BY <1>7, <2>1
  <1>10. ASSUME NEW h \in Handlers, CommitDeactivation(h)
         PROVE  AttemptsInv'
    <2>1. \A g \in Handlers : req'[g].op = "login" => req'[g] = req[g]
      BY <1>0, <1>10, Deactivated
    <2>2. UNCHANGED <<attempts, faults>>
      BY <1>0, <1>10, Deactivated
    <2>3. QED
      BY <1>1, <2>1, <2>2
  <1>11. ASSUME \/ \E u \in UserIds : Activate(u) \/ \E role \in {"customer", "admin"} : ChangeRole(u, role)
                \/ \E t \in TokenIds : Logout(t) \/ TokenExpires(t)
         PROVE  AttemptsInv'
    BY <1>1, <1>11 DEF Activate, ChangeRole, Logout, TokenExpires
  <1>12. CASE UNCHANGED authVars
    BY <1>1, <1>12 DEF authVars
  <1>13. DOMAIN attempts = AllEmails
    BY <1>0
  <1>14. QED
    BY <1>2, <1>3, <1>5, <1>6, <1>8, <1>9, <1>10, <1>11, <1>12, <1>13 DEF AuthNext

LEMMA AttemptsInit == IsFiniteSet(Handlers) /\ AuthInit => AttemptsInv
  <1> SUFFICES ASSUME IsFiniteSet(Handlers), AuthInit PROVE AttemptsInv
    OBVIOUS
  <1>1. LoginMaxAttempts \in Nat /\ LoginMaxAttempts > 0 /\ Idle.op # "login"
    BY AuthBounds, Requests
  <1> SUFFICES ASSUME NEW e \in AllEmails
               PROVE  attempts[e].count + Cardinality(Logins(e))
                          <= LoginMaxAttempts - 1 + Cardinality(Handlers) + faults
    BY DEF AttemptsInv
  <1>2. attempts[e].count = 0 /\ faults = 0
    BY Counters DEF AuthInit, AllEmails
  <1>3. QED
    BY <1>1, <1>2, LoginsFinite

\* For any number of requests at work: a counter exceeds the limit by no more than
\* the attempts under way together and the failures of Redis, and it is forgotten
\* one window after the first failure it counts.
THEOREM AttemptsBoundedCorrect == IsFiniteSet(Handlers) => (AuthSpec => []AttemptsBounded)
  <1> SUFFICES ASSUME IsFiniteSet(Handlers) PROVE AuthSpec => []AttemptsBounded
    OBVIOUS
  <1>1. BaseInv /\ AttemptsInv => AttemptsBounded
    <2> SUFFICES ASSUME BaseInv, AttemptsInv, NEW e \in AllEmails
                 PROVE  /\ attempts[e].count < LoginMaxAttempts + Cardinality(Handlers) + faults
                        /\ attempts[e].count > 0 => attempts[e].age < LoginWindow
      BY DEF BaseInv, CountersOK, AttemptsBounded
    <2>1. attempts[e] \in Counter /\ faults \in Nat
      BY DEF BaseInv, CountersOK
    <2>2. /\ attempts[e].count \in Nat
          /\ attempts[e].count > 0 => attempts[e].age < LoginWindow
      BY <2>1, Counters
    <2>3. attempts[e].count + Cardinality(Logins(e))
              <= LoginMaxAttempts - 1 + Cardinality(Handlers) + faults
      BY DEF AttemptsInv
    <2>4. LoginMaxAttempts \in Nat
      BY AuthBounds
    <2>5. QED
      BY <2>1, <2>2, <2>3, <2>4, LoginsFinite
  <1>2. AuthInit => AttemptsInv
    BY AttemptsInit
  <1>3. BaseInv /\ AttemptsInv /\ [AuthNext]_authVars => AttemptsInv'
    BY AttemptsStep
  <1>4. QED
    BY <1>1, <1>2, <1>3, BaseInvCorrect, PTL DEF AuthSpec

-----------------------------------------------------------------------------
(* Accounts *)

\* What is announced are ids of users, and OneAccountPerEmail.
AccountsInv ==
    /\ announced \in Seq(Nat)
    /\ \A i \in 1 .. Len(announced) : announced[i] \in 1 .. Len(users)
    /\ OneAccountPerEmail

\* The emails are the old ones, and nothing is announced.
LEMMA AccountsStay ==
    ASSUME TypeInv, AccountsInv, UNCHANGED announced, DOMAIN users' = DOMAIN users,
           Len(users') = Len(users),
           \A u \in 1 .. Len(users) : users'[u].email = users[u].email
    PROVE  AccountsInv'
  <1>1. UserIds' = UserIds /\ UserIds = 1 .. Len(users)
    BY Ids DEF UserIds
  <1>2. {u \in UserIds : users[u].email # AdminEmail}' = {u \in UserIds : users[u].email # AdminEmail}
    BY <1>1
  <1>3. OneAccountPerEmail'
    BY <1>1, <1>2 DEF AccountsInv, OneAccountPerEmail
  <1>4. QED
    BY <1>3 DEF AccountsInv

\* The address was free, and the id was not announced.
LEMMA AccountsGrow ==
    ASSUME TypeInv, AccountsInv, NEW h \in Handlers, CreateUser(h), ~Registered(req[h].email)
    PROVE  AccountsInv'
  <1> DEFINE n == Len(users) + 1
             m == Len(announced)
             ids == {u \in UserIds : users[u].email # AdminEmail}
             seen == {announced[i] : i \in DOMAIN announced}
  <1>1. /\ req[h] \in CreateReq
        /\ users' \in Seq(UserType) /\ Len(users') = n /\ users'[n].email = req[h].email
        /\ \A u \in 1 .. Len(users) : users'[u] = users[u]
        /\ announced' = IF req[h].role = "customer" THEN Append(announced, n) ELSE announced
    BY Created
  <1>2. UserIds = 1 .. Len(users) /\ UserIds' = 1 .. n /\ Len(users) \in Nat
    BY <1>1, Ids DEF TypeInv, UserIds
  <1>3. \A u \in 1 .. Len(users) : users[u].email # req[h].email
    BY <1>2 DEF Registered
  <1>4. \A u, v \in UserIds' : users'[u].email = users'[v].email => u = v
    <2>1. \A u, v \in 1 .. Len(users) : users[u].email = users[v].email => u = v
      BY <1>2 DEF AccountsInv, OneAccountPerEmail
    <2>2. QED
      BY <1>1, <1>2, <1>3, <2>1
  <1>5. /\ announced \in Seq(Nat) /\ m \in Nat /\ DOMAIN announced = 1 .. m
        /\ \A i \in 1 .. m : announced[i] \in 1 .. Len(users)
        /\ \A i, j \in 1 .. m : announced[i] = announced[j] => i = j
        /\ seen = ids
    BY DEF AccountsInv, OneAccountPerEmail
  <1>6. req[h].role = "customer" <=> req[h].email # AdminEmail
    BY <1>1 DEF CreateReq
  <1>7. \A u : u \in ids' <=> u \in ids \/ (u = n /\ req[h].role = "customer")
    BY <1>1, <1>2, <1>6
  <1>8. CASE req[h].role = "customer"
    <2>1. announced' = Append(announced, n) /\ n \in Nat
      BY <1>1, <1>2, <1>8
    <2>2. /\ announced' \in Seq(Nat) /\ Len(announced') = m + 1 /\ announced'[m + 1] = n
          /\ \A i \in 1 .. m : announced'[i] = announced[i]
      BY <1>5, <2>1
    <2>3. DOMAIN announced' = 1 .. m + 1
      BY <2>2
    <2>4. \A i \in 1 .. m + 1 : announced'[i] \in 1 .. n
      BY <1>2, <1>5, <2>2
    <2>5. \A i, j \in 1 .. m + 1 : announced'[i] = announced'[j] => i = j
      <3>1. \A i \in 1 .. m : announced'[i] # n
        BY <1>2, <1>5, <2>2
      <3>2. \A i \in 1 .. m + 1 : i \in 1 .. m \/ i = m + 1
        BY <1>5
      <3>3. QED
        BY <1>5, <2>2, <3>1, <3>2
    <2>6. \A u : u \in seen' <=> u \in seen \/ u = n
      <3>1. \A u : u \in seen <=> \E i \in 1 .. m : announced[i] = u
        BY <1>5
      <3>2. \A u : u \in seen' <=> \E i \in 1 .. m + 1 : announced'[i] = u
        BY <2>3
      <3>3. \A i \in 1 .. m + 1 : i \in 1 .. m \/ i = m + 1
        BY <1>5
      <3>4. \A i \in 1 .. m : i \in 1 .. m + 1
        BY <1>5
      <3>5. m + 1 \in 1 .. m + 1
        BY <1>5
      <3> HIDE DEF seen
      <3>6. QED
        BY <2>2, <3>1, <3>2, <3>3, <3>4, <3>5
    <2>7. seen' = ids'
      <3>1. \A u : u \in seen' <=> u \in ids'
        <4> HIDE DEF seen, ids
        <4>1. QED
          BY <1>5, <1>7, <1>8, <2>6
      <3>2. QED
        BY <3>1
    <2>8. OneAccountPerEmail'
      BY <1>4, <2>3, <2>5, <2>7 DEF OneAccountPerEmail
    <2>9. QED
      BY <1>1, <2>2, <2>4, <2>8 DEF AccountsInv
  <1>9. CASE req[h].role # "customer"
    <2>1. announced' = announced
      BY <1>1, <1>9
    <2>2. \A i \in 1 .. m : announced[i] \in 1 .. n
      BY <1>2, <1>5
    <2>3. seen' = seen
      BY <2>1
    <2>4. seen' = ids'
      <3>1. \A u : u \in seen' <=> u \in ids'
        <4> HIDE DEF seen, ids
        <4>1. QED
          BY <1>5, <1>7, <1>9, <2>3
      <3>2. QED
        BY <3>1
    <2>5. OneAccountPerEmail'
      <3>1. \A i, j \in DOMAIN announced' : announced'[i] = announced'[j] => i = j
        BY <1>5, <2>1
      <3>2. QED
        BY <1>4, <2>4, <3>1 DEF OneAccountPerEmail
    <2>6. announced' \in Seq(Nat) /\ \A i \in 1 .. Len(announced') : announced'[i] \in 1 .. Len(users')
      <3>1. Len(users') = n
        BY <1>1
      <3>2. QED
        BY <1>5, <2>1, <2>2, <3>1
    <2>7. QED
      BY <2>5, <2>6 DEF AccountsInv
  <1>10. QED
    BY <1>8, <1>9

LEMMA AccountsInit == AuthInit => AccountsInv
  <1> SUFFICES ASSUME AuthInit PROVE AccountsInv
    OBVIOUS
  <1>1. users = <<>> /\ announced = <<>> /\ UserIds = {} /\ DOMAIN announced = {}
    BY DEF AuthInit, UserIds
  <1>2. {u \in UserIds : users[u].email # AdminEmail} = {}
    BY <1>1
  <1>3. {announced[i] : i \in DOMAIN announced} = {}
    BY <1>1
  <1>4. OneAccountPerEmail
    BY <1>1, <1>2, <1>3 DEF OneAccountPerEmail
  <1>5. QED
    BY <1>1, <1>4 DEF AccountsInv

LEMMA AccountsStep == TypeInv /\ AccountsInv /\ [AuthNext]_authVars => AccountsInv'
  <1> SUFFICES ASSUME TypeInv, AccountsInv, [AuthNext]_authVars PROVE AccountsInv'
    OBVIOUS
  <1>1. ASSUME UNCHANGED <<users, announced>>
        PROVE  AccountsInv'
    BY <1>1, AccountsStay
  <1>2. ASSUME NEW h \in Handlers, CreateUser(h)
        PROVE  AccountsInv'
    <2>1. CASE Registered(req[h].email)
      BY <1>1, <1>2, <2>1 DEF CreateUser
    <2>2. CASE ~Registered(req[h].email)
      BY <1>2, <2>2, AccountsGrow
    <2>3. QED
      BY <2>1, <2>2
  <1>3. ASSUME NEW h \in Handlers, CommitDeactivation(h)
        PROVE  AccountsInv'
    <2>1. /\ UNCHANGED announced /\ users' \in Seq(UserType) /\ Len(users') = Len(users)
          /\ \A u \in 1 .. Len(users) : users'[u].email = users[u].email
      BY <1>3, Deactivated
    <2>2. DOMAIN users' = DOMAIN users
      BY <2>1 DEF TypeInv
    <2>3. QED
      BY <2>1, <2>2, AccountsStay
  <1>4. ASSUME NEW u \in UserIds, (\E role \in Roles : ChangeRole(u, role)) \/ Activate(u)
        PROVE  AccountsInv'
    <2>1. /\ UNCHANGED announced /\ users' \in Seq(UserType) /\ Len(users') = Len(users)
          /\ \A v \in 1 .. Len(users) : users'[v].email = users[v].email
      BY <1>4, Written
    <2>2. DOMAIN users' = DOMAIN users
      BY <2>1 DEF TypeInv
    <2>3. QED
      BY <2>1, <2>2, AccountsStay
  <1>5. ASSUME NEW h \in Handlers,
               SeedAdmin(h) \/ LoginFails(h) \/ LoginPasses(h) \/ SignIn(h) \/ Rotate(h) \/ Sweep(h)
        PROVE  AccountsInv'
    BY <1>1, <1>5 DEF SeedAdmin, LoginFails, LoginPasses, SignIn, Rotate, Sweep
  <1>6. ASSUME NEW h \in Handlers,
               \/ \E e \in Emails : Register(h, e)
               \/ \E e \in DOMAIN attempts : Login(h, e)
               \/ \E t \in TokenIds : Refresh(h, t)
               \/ \E u \in UserIds : Deactivate(h, u)
        PROVE  AccountsInv'
    BY <1>1, <1>6 DEF Register, Login, Refresh, Deactivate
  <1>7. ASSUME \/ \E t \in TokenIds : Logout(t) \/ TokenExpires(t)
               \/ \E e \in DOMAIN attempts : Tick(e)
        PROVE  AccountsInv'
    <2>1. CASE \E t \in TokenIds : Logout(t) \/ TokenExpires(t)
      BY <1>1, <2>1 DEF Logout, TokenExpires
    <2>2. CASE \E e \in DOMAIN attempts : Tick(e)
      BY <1>1, <2>2 DEF Tick
    <2>3. QED
      BY <1>7, <2>1, <2>2
  <1>8. CASE UNCHANGED authVars
    BY <1>1, <1>8 DEF authVars
  <1>9. QED
    BY <1>2, <1>3, <1>4, <1>5, <1>6, <1>7, <1>8 DEF AuthNext, Roles

\* For any number of sign-ups and of replicas that start together: an address has
\* one account, and user.registered goes out once for each that was registered
\* and for no other.
THEOREM OneAccountCorrect == AuthSpec => []OneAccountPerEmail
  <1>1. AccountsInv => OneAccountPerEmail
    BY DEF AccountsInv
  <1>2. BaseInv /\ AccountsInv /\ [AuthNext]_authVars => AccountsInv'
    BY AccountsStep DEF BaseInv
  <1>3. QED
    BY <1>1, <1>2, AccountsInit, BaseInvCorrect, PTL DEF AuthSpec

-----------------------------------------------------------------------------
(* ShutInv *)

Active(u) == users[u].active

\* A request that read an account which was deactivated since, knows.
PairOK(h) ==
    req[h].op \in {"sign_in", "rotate"} /\ ~Active(req[h].user) => req[h].raced

\* A token of the user that a deactivation under way does not see was issued while
\* it had the row.
SweepOK(h) ==
    req[h].op = "sweep" /\ req[h].writes =>
        \A t \in 1 .. Len(refresh_tokens) :
            /\ refresh_tokens[t].user = req[h].user
            /\ Usable(t)
            /\ t \notin req[h].tokens
            => refresh_tokens[t].raced

TokenOK(t) ==
    Usable(t) /\ ~Active(refresh_tokens[t].user) => refresh_tokens[t].raced

ShutInv ==
    /\ \A t \in 1 .. Len(refresh_tokens) : TokenOK(t)
    /\ \A h \in Handlers : PairOK(h) /\ SweepOK(h)


\* Nobody is deactivated, no token is issued, and what a handler takes up it has
\* read from an active account, or has seen all tokens of.
LEMMA ShutStays ==
    ASSUME TypeInv, ShutInv,
           \A u \in 1 .. Len(users) : Active(u) => users'[u].active,
           Len(refresh_tokens') = Len(refresh_tokens),
           \A t \in 1 .. Len(refresh_tokens) :
               /\ refresh_tokens'[t].user = refresh_tokens[t].user
               /\ refresh_tokens'[t].raced = refresh_tokens[t].raced
               /\ refresh_tokens'[t].usable => refresh_tokens[t].usable,
           \A g \in Handlers :
               \/ req'[g] = req[g]
               \/ /\ req'[g].op \in {"sign_in", "rotate"} => users'[req'[g].user].active
                  /\ req'[g].op = "sweep" =>
                         \A t \in 1 .. Len(refresh_tokens) :
                             refresh_tokens[t].user = req'[g].user => t \in req'[g].tokens
    PROVE  ShutInv'
  <1>0. UserIds = 1 .. Len(users) /\ TokenIds = 1 .. Len(refresh_tokens)
    BY Ids
  <1>1. ASSUME NEW t \in 1 .. Len(refresh_tokens)
        PROVE  TokenOK(t)'
    <2>1. TokenOK(t) /\ refresh_tokens[t].user \in 1 .. Len(users)
      BY <1>0 DEF ShutInv, TypeInv
    <2>2. QED
      BY <2>1 DEF TokenOK, Usable, Active
  <1>2. ASSUME NEW g \in Handlers
        PROVE  PairOK(g)'
    <2>1. PairOK(g) /\ (req[g].op \in {"sign_in", "rotate"} => req[g].user \in 1 .. Len(users))
      BY <1>0 DEF ShutInv, TypeInv, WithUser
    <2>2. CASE req'[g] = req[g]
      BY <2>1, <2>2 DEF PairOK, Active
    <2>3. CASE req'[g] # req[g]
      BY <2>3 DEF PairOK, Active
    <2>4. QED
      BY <2>2, <2>3
  <1>3. ASSUME NEW g \in Handlers
        PROVE  SweepOK(g)'
    <2> SUFFICES ASSUME req'[g].op = "sweep", req'[g].writes, NEW t \in 1 .. Len(refresh_tokens),
                        refresh_tokens'[t].user = req'[g].user, refresh_tokens'[t].usable,
                        t \notin req'[g].tokens
                 PROVE  refresh_tokens'[t].raced
      BY DEF SweepOK, Usable
    <2>1. req'[g] = req[g]
      OBVIOUS
    <2>2. SweepOK(g)
      BY DEF ShutInv
    <2>3. QED
      BY <2>1, <2>2 DEF SweepOK, Usable
  <1>4. QED
    BY <1>1, <1>2, <1>3 DEF ShutInv

\* A pair is issued by a request that is not behind a committed deactivation, or
\* says that it is; and one under way makes it say so.
LEMMA ShutIssue ==
    ASSUME TypeInv, ShutInv, NEW h \in Handlers, SignIn(h) \/ Rotate(h)
    PROVE  ShutInv'
  <1> DEFINE n == Len(refresh_tokens)
             new == refresh_tokens'[n + 1]
  <1>1. /\ users' = users /\ End(h) /\ req[h].op \in {"sign_in", "rotate"}
    BY DEF SignIn, Rotate
  <1>2. /\ req[h] \in SignInReq \cup RotateReq /\ req[h].user \in UserIds
        /\ refresh_tokens \in Seq(TokenType) /\ n \in Nat
    BY <1>1, Requests DEF TypeInv, WithUser
  <1>3. PICK tokens \in {refresh_tokens, Revoke({req[h].token})} :
            IssueTokens(req[h].user, req[h].role, req[h].raced, tokens)
    BY DEF SignIn, Rotate
  <1>4. /\ tokens \in Seq(TokenType) /\ Len(tokens) = n
        /\ \A t \in 1 .. n : /\ tokens[t].user = refresh_tokens[t].user
                             /\ tokens[t].raced = refresh_tokens[t].raced
                             /\ tokens[t].usable => refresh_tokens[t].usable
    BY <1>2, <1>3, Revoked
  <1>5. req[h].role \in Roles /\ req[h].raced \in BOOLEAN
    BY <1>2 DEF SignInReq, RotateReq
  <1>6. /\ Len(refresh_tokens') = n + 1
        /\ new.user = req[h].user
        /\ new.raced <=> req[h].raced \/ Sweeping(req[h].user) # {}
        /\ \A t \in 1 .. n : refresh_tokens'[t] = tokens[t]
    BY <1>2, <1>3, <1>4, <1>5, Issued
  <1>7. req'[h] = Idle /\ Idle.op = "idle" /\ \A g \in Handlers \ {h} : req'[g] = req[g]
    BY <1>1, TypeEnds, Requests
  <1>8. PairOK(h)
    BY DEF ShutInv
  <1> HIDE DEF new
  <1>9. \A i \in 1 .. n + 1 : i \in 1 .. n \/ i = n + 1
    BY <1>2
  <1>10. ASSUME NEW t \in 1 .. n + 1
         PROVE  TokenOK(t)'
    <2>1. CASE t \in 1 .. n
      <3>1. TokenOK(t)
        BY <2>1 DEF ShutInv
      <3>2. QED
        BY <1>1, <1>4, <1>6, <2>1, <3>1 DEF TokenOK, Usable, Active
    <2>2. CASE t = n + 1
      BY <1>1, <1>6, <1>8, <2>2 DEF TokenOK, PairOK, Active, new
    <2>3. QED
      BY <1>9, <2>1, <2>2
  <1>11. ASSUME NEW g \in Handlers
         PROVE  PairOK(g)' /\ SweepOK(g)'
    <2>1. PairOK(g) /\ SweepOK(g)
      BY DEF ShutInv
    <2>2. CASE g = h
      BY <1>7, <2>2 DEF PairOK, SweepOK
    <2>3. CASE g # h
      <3>1. req'[g] = req[g]
        BY <1>7, <2>3
      <3>2. PairOK(g)'
        BY <1>1, <2>1, <3>1 DEF PairOK, Active
      <3>3. SweepOK(g)'
        <4> SUFFICES ASSUME req[g].op = "sweep", req[g].writes, NEW t \in 1 .. n + 1,
                            refresh_tokens'[t].user = req[g].user, refresh_tokens'[t].usable,
                            t \notin req[g].tokens
                     PROVE  refresh_tokens'[t].raced
          BY <1>6, <3>1 DEF SweepOK, Usable
        <4>1. CASE t \in 1 .. n
          BY <1>4, <1>6, <2>1, <4>1 DEF SweepOK, Usable
        <4>2. CASE t = n + 1
          <5>1. g \in Sweeping(req[h].user)
            BY <1>6, <4>2 DEF Sweeping, new
          <5>2. QED
            BY <1>6, <4>2, <5>1 DEF new
        <4>3. QED
          BY <1>9, <4>1, <4>2
      <3>4. QED
        BY <3>2, <3>3
    <2>4. QED
      BY <2>2, <2>3
  <1>12. QED
    BY <1>6, <1>10, <1>11 DEF ShutInv

\* The commit revokes the tokens it saw; the others of the user, and the requests
\* that read it, are behind it and say so.
LEMMA ShutCommit ==
    ASSUME TypeInv, ShutInv, NEW h \in Handlers, CommitDeactivation(h)
    PROVE  ShutInv'
  <1> DEFINE n == Len(refresh_tokens)
             u == req[h].user
             w == req[h].writes
  <1>1. /\ req[h] \in SweepReq /\ req[h].op = "sweep" /\ u \in UserIds
        /\ \A v \in 1 .. Len(users) :
               users'[v].active <=> users[v].active /\ ~(v = u /\ w)
        /\ refresh_tokens' = Revoke(req[h].tokens)
        /\ req'[h] = Idle /\ Idle.op = "idle"
        /\ \A g \in Handlers \ {h} :
                  IF req[g].op \in {"sign_in", "rotate"} /\ req[g].user = u
                  THEN /\ req'[g].op = req[g].op /\ req'[g].user = req[g].user
                       /\ req'[g].raced <=> req[g].raced \/ w
                  ELSE req'[g] = req[g]
    BY Deactivated, Requests
  <1>2. /\ Len(refresh_tokens') = n
        /\ \A t \in 1 .. n :
                  /\ refresh_tokens'[t].user = refresh_tokens[t].user
                  /\ refresh_tokens'[t].raced = refresh_tokens[t].raced
                  /\ refresh_tokens'[t].usable <=> refresh_tokens[t].usable /\ t \notin req[h].tokens
    BY <1>1, Revoked DEF TypeInv
  <1>3. UserIds = 1 .. Len(users) /\ TokenIds = 1 .. n
    BY Ids
  <1>4. SweepOK(h)
    BY DEF ShutInv
  <1>5. ASSUME NEW t \in 1 .. n
        PROVE  TokenOK(t)'
    <2> SUFFICES ASSUME refresh_tokens'[t].usable, ~users'[refresh_tokens'[t].user].active
                 PROVE  refresh_tokens'[t].raced
      BY DEF TokenOK, Usable, Active
    <2>1. refresh_tokens[t].user \in 1 .. Len(users) /\ TokenOK(t)
      BY <1>3 DEF TypeInv, ShutInv
    <2>2. CASE refresh_tokens[t].user = u /\ w
      BY <1>1, <1>2, <1>4, <2>2 DEF SweepOK, Usable
    <2>3. CASE ~(refresh_tokens[t].user = u /\ w)
      BY <1>1, <1>2, <2>1, <2>3 DEF TokenOK, Usable, Active
    <2>4. QED
      BY <2>2, <2>3
  <1>6. ASSUME NEW g \in Handlers \ {h}
        PROVE  PairOK(g)'
    <2>1. PairOK(g) /\ (req[g].op \in {"sign_in", "rotate"} => req[g].user \in 1 .. Len(users))
      BY <1>3 DEF ShutInv, TypeInv, WithUser
    <2>2. CASE req[g].op \in {"sign_in", "rotate"} /\ req[g].user = u
      BY <1>1, <2>1, <2>2 DEF PairOK, Active
    <2>3. CASE ~(req[g].op \in {"sign_in", "rotate"} /\ req[g].user = u)
      BY <1>1, <2>1, <2>3 DEF PairOK, Active
    <2>4. QED
      BY <2>2, <2>3
  <1>7. ASSUME NEW g \in Handlers \ {h}
        PROVE  SweepOK(g)'
    <2>1. SweepOK(g)
      BY DEF ShutInv
    <2>2. CASE req'[g].op = "sweep"
      <3>1. req'[g] = req[g]
        BY <1>1, <2>2
      <3>2. QED
        BY <1>2, <2>1, <3>1 DEF SweepOK, Usable
    <2>3. CASE req'[g].op # "sweep"
      BY <2>3 DEF SweepOK
    <2>4. QED
      BY <2>2, <2>3
  <1>8. PairOK(h)' /\ SweepOK(h)'
    BY <1>1 DEF PairOK, SweepOK
  <1>9. QED
    BY <1>2, <1>5, <1>6, <1>7, <1>8 DEF ShutInv

LEMMA ShutStep == BaseInv /\ ShutInv /\ [AuthNext]_authVars => ShutInv'
  <1> SUFFICES ASSUME BaseInv, ShutInv, [AuthNext]_authVars PROVE ShutInv'
    OBVIOUS
  <1>0. /\ TypeInv /\ CountersOK /\ req \in [Handlers -> ReqType] /\ Idle.op = "idle"
        /\ UserIds = 1 .. Len(users) /\ TokenIds = 1 .. Len(refresh_tokens)
    BY Ids, Requests DEF BaseInv, TypeInv
  <1>1. ASSUME UNCHANGED <<users, refresh_tokens, req>>
        PROVE  ShutInv'
    BY <1>0, <1>1, ShutStays DEF Active
  <1>2. ASSUME NEW h \in Handlers, NEW r, req' = [req EXCEPT ![h] = r],
               UNCHANGED <<users, refresh_tokens>>,
               r.op \in {"sign_in", "rotate"} => users[r.user].active,
               r.op = "sweep" => \A t \in 1 .. Len(refresh_tokens) :
                                     refresh_tokens[t].user = r.user => t \in r.tokens
        PROVE  ShutInv'
    <2>1. req'[h] = r /\ \A g \in Handlers \ {h} : req'[g] = req[g]
      BY <1>0, <1>2
    <2>2. QED
      BY <1>0, <1>2, <2>1, ShutStays DEF Active
  <1>3. ASSUME NEW h \in Handlers, NEW u, SeedAdmin(h) \/ Register(h, u) \/ Login(h, u)
                                          \/ LoginFails(h) \/ Deactivate(h, u)
        PROVE  ShutInv'
    <2>1. \E r : /\ r.op \notin {"sign_in", "rotate", "sweep"} /\ req' = [req EXCEPT ![h] = r]
                 /\ UNCHANGED <<users, refresh_tokens>>
      <3>1. CASE SeedAdmin(h)
        BY <3>1 DEF SeedAdmin, Begin
      <3>2. CASE Register(h, u)
        BY <3>2 DEF Register, Begin
      <3>3. CASE Login(h, u)
        BY <3>3 DEF Login, Begin
      <3>4. CASE LoginFails(h)
        BY <1>0, <3>4 DEF LoginFails, End
      <3>5. CASE Deactivate(h, u)
        BY <3>5 DEF Deactivate, Begin
      <3>6. QED
        BY <1>3, <3>1, <3>2, <3>3, <3>4, <3>5
    <2>2. QED
      BY <1>2, <2>1
  <1>4. ASSUME NEW h \in Handlers, LoginPasses(h)
        PROVE  ShutInv'
    <2>1. PICK r \in {Idle} \cup SignInReq :
              /\ req' = [req EXCEPT ![h] = r]
              /\ r # Idle => r.user \in UserIds /\ users[r.user].active
      BY <1>0, <1>4, Passed
    <2>2. r.op # "sweep" /\ (r = Idle => r.op = "idle")
      BY <1>0, Requests
    <2>3. UNCHANGED <<users, refresh_tokens>>
      BY <1>4 DEF LoginPasses
    <2>4. QED
      BY <1>2, <2>1, <2>2, <2>3
  <1>5. ASSUME NEW h \in Handlers, NEW t \in TokenIds, Refresh(h, t)
        PROVE  ShutInv'
    <2> DEFINE u == refresh_tokens[t].user
               r == [op |-> "rotate", token |-> t, user |-> u, raced |-> FALSE,
                     role |-> users[u].role]
    <2>1. /\ users[u].active /\ req' = [req EXCEPT ![h] = r]
          /\ UNCHANGED <<users, refresh_tokens>>
      BY <1>5 DEF Refresh, Begin
    <2>2. r.op = "rotate" /\ r.user = u
      OBVIOUS
    <2> HIDE DEF r
    <2>3. QED
      BY <1>2, <2>1, <2>2
  <1>6. ASSUME NEW h \in Handlers, Sweep(h)
        PROVE  ShutInv'
    <2> DEFINE T == {t \in TokenIds : refresh_tokens[t].user = req[h].user}
               r == [op |-> "sweep", user |-> req[h].user, writes |-> req[h].writes, tokens |-> T]
    <2>1. req' = [req EXCEPT ![h] = r] /\ UNCHANGED <<users, refresh_tokens>>
      BY <1>6 DEF Sweep
    <2>2. r.op = "sweep" /\ r.user = req[h].user /\ r.tokens = T
      OBVIOUS
    <2>3. \A t \in 1 .. Len(refresh_tokens) : refresh_tokens[t].user = req[h].user => t \in T
      BY <1>0
    <2> HIDE DEF r, T
    <2>4. QED
      BY <1>2, <2>1, <2>2, <2>3
  <1>7. ASSUME NEW h \in Handlers, CreateUser(h)
        PROVE  ShutInv'
    <2>1. /\ refresh_tokens' = refresh_tokens
          /\ req'[h] = Idle /\ \A g \in Handlers \ {h} : req'[g] = req[g]
      BY <1>0, <1>7, TypeEnds DEF CreateUser
    <2>2. \A u \in 1 .. Len(users) : users'[u] = users[u]
      BY <1>0, <1>7, Created
    <2>3. QED
      BY <1>0, <2>1, <2>2, ShutStays DEF Active
  <1>8. ASSUME NEW u \in UserIds, (\E role \in Roles : ChangeRole(u, role)) \/ Activate(u)
        PROVE  ShutInv'
    <2>1. /\ UNCHANGED <<refresh_tokens, req>>
          /\ \A v \in 1 .. Len(users) : users[v].active => users'[v].active
      BY <1>0, <1>8, Written
    <2>2. QED
      BY <1>0, <2>1, ShutStays DEF Active
  <1>9. ASSUME NEW t \in TokenIds, Logout(t) \/ TokenExpires(t)
        PROVE  ShutInv'
    <2>1. /\ UNCHANGED <<users, req>> /\ Len(refresh_tokens') = Len(refresh_tokens)
          /\ \A s \in 1 .. Len(refresh_tokens) :
                  /\ refresh_tokens'[s].user = refresh_tokens[s].user
                  /\ refresh_tokens'[s].raced = refresh_tokens[s].raced
                  /\ refresh_tokens'[s].usable => refresh_tokens[s].usable
      BY <1>0, <1>9, UsedUp
    <2>2. QED
      BY <1>0, <2>1, ShutStays DEF Active
  <1>10. CASE \E e \in DOMAIN attempts : Tick(e)
    BY <1>1, <1>10 DEF Tick
  <1>11. CASE UNCHANGED authVars
    BY <1>1, <1>11 DEF authVars
  <1>12. ASSUME NEW h \in Handlers,
                SignIn(h) \/ Rotate(h) \/ CommitDeactivation(h)
         PROVE  ShutInv'
    BY <1>0, <1>12, ShutIssue, ShutCommit
  <1>13. QED
    BY <1>3, <1>4, <1>5, <1>6, <1>7, <1>8, <1>9, <1>10, <1>11, <1>12 DEF AuthNext, Roles

\* For any number of requests: a token of a deactivated account that can still be
\* used was issued by a request that overlapped the deactivation.
THEOREM DeactivatedIsShutCorrect == AuthSpec => []DeactivatedIsShut
  <1>1. BaseInv /\ ShutInv => DeactivatedIsShut
    <2> SUFFICES ASSUME BaseInv, ShutInv PROVE DeactivatedIsShut
      OBVIOUS
    <2>1. TokenIds = 1 .. Len(refresh_tokens)
      BY Ids DEF BaseInv
    <2>2. QED
      BY <2>1 DEF ShutInv, TokenOK, Active, DeactivatedIsShut
  <1>2. AuthInit => ShutInv
    <2> SUFFICES ASSUME AuthInit PROVE ShutInv
      OBVIOUS
    <2>1. 1 .. Len(refresh_tokens) = {} /\ \A h \in Handlers : req[h].op = "idle"
      BY Requests DEF AuthInit
    <2>2. QED
      BY <2>1 DEF ShutInv, PairOK, SweepOK
  <1>3. BaseInv /\ ShutInv /\ [AuthNext]_authVars => ShutInv'
    BY ShutStep
  <1>4. QED
    BY <1>1, <1>2, <1>3, BaseInvCorrect, PTL DEF AuthSpec
=============================================================================
