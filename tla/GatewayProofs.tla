---------------------------- MODULE GatewayProofs ----------------------------
(***************************************************************************)
(* For any number of callers, requests, orders and keys: the limiter lets  *)
(* requests of a caller through at no more than Limit clock readings in a  *)
(* window, and a key never makes two orders, nor gives a client another    *)
(* order than its own.                                                     *)
(***************************************************************************)
EXTENDS Gateway, FiniteSetTheorems, SequenceTheorems, TLAPS

-----------------------------------------------------------------------------
(* The limiter *)

Ages == 0 .. Window

Sorted(s) == \A a, b \in 1 .. Len(s) : a <= b => s[a] <= s[b]

\* Of one caller, with the ages h of its hits and g of what was let through:
\* the n-th latest request let through is no younger than the n-th latest hit,
\* because everything let through was a hit too.
WindowOK(h, g) ==
    /\ h \in Seq(Ages) /\ Sorted(h)
    /\ g \in Seq(Ages) /\ Sorted(g)
    /\ \A n \in 1 .. Len(g) : Young(g[n])
    /\ Len(g) <= Len(h)
    /\ \A n \in 1 .. Len(g) : h[n] <= g[n]
    /\ Len(g) <= Limit

WindowInv ==
    /\ hits \in [Identities -> Seq(Ages)] /\ granted \in [Identities -> Seq(Ages)]
    /\ \A i \in Identities : WindowOK(hits[i], granted[i])

-----------------------------------------------------------------------------
(* The checkout *)

Phases == {"idle", "lookup", "price", "insert", "recheck", "commit", "reply"}

ReqType == [pc : Phases, client : Clients \cup {None}, user : Identities \cup {None},
            key : Keys \cup {None}, order : Orders \cup {None}, code : Nat]

ClientType == [pc : {"idle", "waiting", "told"}, code : Nat, order : Orders \cup {None},
               tries : Nat]

TypeInv ==
    /\ status \in [Orders -> OrderStatus \cup {"NONE"}]
    /\ keyOf \in [Orders -> Keys \cup {None}]
    /\ req \in [Handlers -> ReqType]
    /\ client \in [Clients -> ClientType]

\* The UNIQUE index, and order.created in the same transaction as its order.
RowsOK ==
    /\ \A o, p \in Orders :
           status[o] # "NONE" /\ status[p] # "NONE" /\ keyOf[o] = keyOf[p] => o = p
    /\ \A o \in Orders : status[o] # "NONE" => Event(ORDER_CREATED, o) \in orderOutbox

\* An INSERT that is not committed: nobody has its key, nobody else has its id.
CommitOK ==
    \A h \in Handlers :
        req[h].pc = "commit" =>
            /\ req[h].order \in Orders
            /\ status[req[h].order] = "NONE"
            /\ Placed(req[h].key) = {}
            /\ \A g \in Handlers \ {h} :
                   req[g].pc = "commit" =>
                       req[g].key # req[h].key /\ req[g].order # req[h].order

\* What a reply carries, for whom it is, and what a client was told.
ReplyOK ==
    /\ \A h \in Handlers :
           req[h].pc = "reply" /\ req[h].order # None => Placed(req[h].key) = {req[h].order}
    /\ \A h \in Handlers :
           req[h].client # None => req[h].key = KeyFor[req[h].client]
    /\ \A c \in Clients :
           client[c].order # None => Placed(KeyFor[c]) = {client[c].order}

CheckoutInv == TypeInv /\ RowsOK /\ CommitOK /\ ReplyOK

-----------------------------------------------------------------------------
(* The limiter respects the window *)

\* Of ages in order the young ones are a prefix.
LEMMA YoungPrefix ==
  ASSUME NEW s \in Seq(Ages), Sorted(s)
  PROVE  /\ YoungOnes(s) \in Seq(Ages)
         /\ Len(YoungOnes(s)) <= Len(s)
         /\ \A n \in 1 .. Len(YoungOnes(s)) : YoungOnes(s)[n] = s[n] /\ Young(s[n])
         /\ \A n \in 1 .. Len(s) : Young(s[n]) => n <= Len(YoungOnes(s))
         /\ Sorted(YoungOnes(s))
  <1> DEFINE S == {m \in DOMAIN s : Young(s[m])}
             c == Cardinality(S)
  <1>1. /\ Len(s) \in Nat
        /\ DOMAIN s = 1 .. Len(s)
        /\ \A n \in 1 .. Len(s) : s[n] \in Ages
    OBVIOUS
  <1>2. /\ IsFiniteSet(S)
        /\ c \in Nat
        /\ c <= Len(s)
    <2>0. /\ 1 \in Int
          /\ Len(s) \in Int
          /\ (IF 1 > Len(s) THEN 0 ELSE Len(s) - 1 + 1) = Len(s)
      BY <1>1
    <2>1. IsFiniteSet(1 .. Len(s)) /\ Cardinality(1 .. Len(s)) = Len(s)
      BY <2>0, FS_Interval
    <2>2. S \in SUBSET (1 .. Len(s))
      BY <1>1
    <2>3. IsFiniteSet(S) /\ c <= Len(s)
      BY <2>1, <2>2, FS_Subset
    <2>4. QED
      BY <2>3, FS_CardinalityType
  <1>3. ASSUME NEW m \in S
        PROVE  m \in 1 .. c
    <2>1. m \in 1 .. Len(s) /\ Young(s[m])
      BY <1>1
    <2>2. 1 .. m \in SUBSET S
      <3>1. ASSUME NEW n \in 1 .. m
            PROVE  n \in S
        <4>1. n \in 1 .. Len(s) /\ n <= m
          BY <2>1, <1>1
        <4>2. s[n] <= s[m] /\ s[n] \in Int /\ s[m] \in Int
          BY <4>1, <2>1, <1>1, LimiterBounds DEF Sorted, Ages
        <4>3. Young(s[n])
          BY <4>2, <2>1, LimiterBounds DEF Young
        <4>4. QED
          BY <4>1, <4>3, <1>1
      <3>2. QED
        BY <3>1
    <2>3. Cardinality(1 .. m) = m
      BY <2>1, FS_Interval
    <2>4. m <= c
      BY <2>2, <2>3, <1>2, FS_Subset
    <2>5. QED
      BY <2>1, <2>4, <1>2
  <1>4. S = 1 .. c
    <2>1. S \in SUBSET (1 .. c)
      BY <1>3
    <2>2. IsFiniteSet(1 .. c) /\ Cardinality(1 .. c) = c
      BY <1>2, FS_Interval
    <2>3. QED
      BY <2>1, <2>2, FS_Subset
  <1>5. YoungOnes(s) = [n \in 1 .. c |-> s[n]]
    BY <1>4 DEF YoungOnes
  <1>6. \A n \in 1 .. Len(s) : Young(s[n]) <=> n \in 1 .. c
    BY <1>4, <1>1
  <1> HIDE DEF S, c
  <1>7. /\ YoungOnes(s) \in Seq(Ages)
        /\ Len(YoungOnes(s)) = c
        /\ \A n \in 1 .. c : YoungOnes(s)[n] = s[n]
    BY <1>5, <1>2, <1>1
  <1>8. Sorted(YoungOnes(s))
    BY <1>7, <1>2, <1>1 DEF Sorted
  <1>9. QED
    BY <1>7, <1>8, <1>6, <1>2, <1>1

\* A new hit in front of ages in order.
LEMMA Prepend ==
  ASSUME NEW s \in Seq(Ages), Sorted(s)
  PROVE  /\ <<0>> \o s \in Seq(Ages)
         /\ Len(<<0>> \o s) = Len(s) + 1
         /\ (<<0>> \o s)[1] = 0
         /\ \A n \in 2 .. Len(s) + 1 : (<<0>> \o s)[n] = s[n - 1]
         /\ Sorted(<<0>> \o s)
  <1> DEFINE t == <<0>> \o s
  <1>1. Len(s) \in Nat /\ 0 \in Ages /\ \A n \in 1 .. Len(s) : s[n] \in Ages
    BY LimiterBounds DEF Ages
  <1>2. <<0>> \in Seq(Ages)
    BY <1>1
  <1>3. /\ t \in Seq(Ages)
        /\ Len(t) = Len(s) + 1
        /\ t[1] = 0
        /\ \A n \in 2 .. Len(s) + 1 : t[n] = s[n - 1]
    BY <1>1, <1>2
  <1> HIDE DEF t
  <1>4. ASSUME NEW a \in 1 .. Len(t), NEW b \in 1 .. Len(t), a <= b
        PROVE  t[a] <= t[b]
    <2>1. CASE a = 1
      BY <2>1, <1>3, LimiterBounds DEF Ages
    <2>2. CASE a # 1
      <3>1. /\ a - 1 \in 1 .. Len(s)
            /\ b - 1 \in 1 .. Len(s)
            /\ a - 1 <= b - 1
            /\ t[a] = s[a - 1]
            /\ t[b] = s[b - 1]
        BY <2>2, <1>4, <1>3, <1>1
      <3>2. QED
        BY <3>1 DEF Sorted
    <2>3. QED
      BY <2>1, <2>2
  <1>5. Sorted(t)
    BY <1>4 DEF Sorted
  <1>6. QED
    BY <1>3, <1>5 DEF t

\* Time passes for ages in order.
LEMMA Aged ==
  ASSUME NEW s \in Seq(Ages), Sorted(s)
  PROVE  /\ Older(s) \in Seq(Ages)
         /\ Len(Older(s)) = Len(s)
         /\ \A n \in 1 .. Len(s) :
                Older(s)[n] = IF Young(s[n]) THEN s[n] + 1 ELSE s[n]
         /\ Sorted(Older(s))
  <1>1. /\ Len(s) \in Nat
        /\ DOMAIN s = 1 .. Len(s)
        /\ \A n \in 1 .. Len(s) : s[n] \in Ages
    OBVIOUS
  <1>2. \A n \in 1 .. Len(s) : (IF Young(s[n]) THEN s[n] + 1 ELSE s[n]) \in Ages
    BY <1>1, LimiterBounds DEF Young, Ages
  <1>3. /\ Older(s) \in Seq(Ages)
        /\ Len(Older(s)) = Len(s)
        /\ \A n \in 1 .. Len(s) :
               Older(s)[n] = IF Young(s[n]) THEN s[n] + 1 ELSE s[n]
    BY <1>1, <1>2 DEF Older
  <1>4. ASSUME NEW a \in 1 .. Len(s), NEW b \in 1 .. Len(s), a <= b
        PROVE  Older(s)[a] <= Older(s)[b]
    <2>1. s[a] <= s[b]
      BY <1>4 DEF Sorted
    <2>2. s[a] \in Ages /\ s[b] \in Ages
      BY <1>1
    <2>3. /\ Older(s)[a] = IF Young(s[a]) THEN s[a] + 1 ELSE s[a]
          /\ Older(s)[b] = IF Young(s[b]) THEN s[b] + 1 ELSE s[b]
      BY <1>3
    <2>4. CASE Young(s[a])
      BY <2>1, <2>2, <2>3, <2>4, LimiterBounds DEF Young, Ages
    <2>5. CASE ~Young(s[a])
      <3>1. ~Young(s[b])
        BY <2>1, <2>2, <2>5, LimiterBounds DEF Young, Ages
      <3>2. QED
        BY <2>1, <2>3, <2>5, <3>1
    <2>6. QED
      BY <2>4, <2>5
  <1>5. Sorted(Older(s))
    BY <1>4, <1>3 DEF Sorted
  <1>6. QED
    BY <1>3, <1>5

\* A hit, let through or not, keeps the two sequences in step.
LEMMA HitKeeps ==
  ASSUME NEW h, NEW g, WindowOK(h, g)
  PROVE  /\ WindowOK(Prune(h), g)
         /\ WindowOK(<<0>> \o Prune(h), g)
         /\ Len(Prune(h)) + 1 <= Limit => WindowOK(<<0>> \o Prune(h), <<0>> \o g)
  <1> DEFINE y == Prune(h)
             k == <<0>> \o y
             f == <<0>> \o g
  <1>1. /\ h \in Seq(Ages) /\ Sorted(h)
        /\ g \in Seq(Ages) /\ Sorted(g)
        /\ Len(h) \in Nat
        /\ Len(g) \in Nat
        /\ \A n \in 1 .. Len(h) : h[n] \in Ages
        /\ \A n \in 1 .. Len(g) : g[n] \in Ages
    BY DEF WindowOK
  <1>2. /\ y \in Seq(Ages) /\ Sorted(y)
        /\ Len(y) \in Nat
        /\ \A n \in 1 .. Len(y) : y[n] = h[n]
        /\ \A n \in 1 .. Len(h) : Young(h[n]) => n <= Len(y)
        /\ Len(y) <= Len(h)
    BY <1>1, YoungPrefix DEF Prune
  <1> HIDE DEF y
  <1>3. /\ k \in Seq(Ages) /\ Sorted(k)
        /\ Len(k) = Len(y) + 1
        /\ k[1] = 0
        /\ \A n \in 2 .. Len(y) + 1 : k[n] = y[n - 1]
    BY <1>2, Prepend
  <1>4. /\ f \in Seq(Ages) /\ Sorted(f)
        /\ Len(f) = Len(g) + 1
        /\ f[1] = 0
        /\ \A n \in 2 .. Len(g) + 1 : f[n] = g[n - 1]
    BY <1>1, Prepend
  <1> HIDE DEF k, f
  <1>5. ASSUME NEW n \in 1 .. Len(g)
        PROVE  /\ n <= Len(y)
               /\ h[n] <= g[n]
               /\ Young(g[n])
    <2>1. n \in 1 .. Len(h) /\ h[n] <= g[n] /\ Young(g[n])
      BY <1>1 DEF WindowOK
    <2>2. h[n] \in Ages /\ g[n] \in Ages
      BY <2>1, <1>1
    <2>3. Young(h[n])
      BY <2>1, <2>2, LimiterBounds DEF Young, Ages
    <2>4. QED
      BY <2>1, <2>3, <1>2
  <1>6. Len(g) <= Len(y)
    BY <1>5, <1>1, <1>2
  <1>7. WindowOK(k, g)
    <2>1. ASSUME NEW n \in 1 .. Len(g)
          PROVE  k[n] <= g[n]
      <3>1. g[n] \in Ages
        BY <1>1
      <3>2. CASE n = 1
        BY <3>1, <3>2, <1>3, LimiterBounds DEF Ages
      <3>3. CASE n # 1
        <4>1. n - 1 \in 1 .. Len(y) /\ n - 1 \in 1 .. Len(h) /\ n \in 1 .. Len(h)
              /\ n \in 2 .. Len(y) + 1
          BY <3>3, <1>1, <1>2, <1>6
        <4>2. k[n] = h[n - 1]
          BY <4>1, <1>2, <1>3
        <4>3. h[n - 1] <= h[n]
          <5>1. \A a, b \in 1 .. Len(h) : a <= b => h[a] <= h[b]
            BY <1>1 DEF Sorted
          <5>2. n - 1 <= n
            OBVIOUS
          <5>3. QED
            BY <4>1, <5>1, <5>2
        <4>4. h[n] \in Ages /\ h[n - 1] \in Ages
          BY <4>1, <1>1
        <4>5. QED
          BY <4>2, <4>3, <4>4, <3>1, <1>5, LimiterBounds DEF Ages
      <3>4. QED
        BY <3>2, <3>3
    <2>2. QED
      BY <2>1, <1>1, <1>2, <1>3, <1>5, <1>6 DEF WindowOK
  <1>8. ASSUME Len(y) + 1 <= Limit
        PROVE  WindowOK(k, f)
    <2>1. ASSUME NEW n \in 1 .. Len(f)
          PROVE  k[n] <= f[n] /\ Young(f[n])
      <3>1. CASE n = 1
        BY <3>1, <1>3, <1>4, LimiterBounds DEF Young
      <3>2. CASE n # 1
        <4>1. n - 1 \in 1 .. Len(g) /\ n - 1 \in 1 .. Len(y)
              /\ n \in 2 .. Len(y) + 1 /\ n \in 2 .. Len(g) + 1
          BY <3>2, <1>1, <1>2, <1>4, <1>6
        <4>2. k[n] = h[n - 1] /\ f[n] = g[n - 1]
          BY <4>1, <1>2, <1>3, <1>4
        <4>3. QED
          BY <4>1, <4>2, <1>5
      <3>3. QED
        BY <3>1, <3>2
    <2>2. Len(f) <= Len(k) /\ Len(f) <= Limit
      BY <1>8, <1>1, <1>2, <1>3, <1>4, <1>6, LimiterBounds
    <2>3. QED
      BY <2>1, <2>2, <1>3, <1>4 DEF WindowOK
  <1>9. WindowOK(y, g)
    <2>1. ASSUME NEW n \in 1 .. Len(g)
          PROVE  y[n] <= g[n]
      <3>1. n \in 1 .. Len(y)
        BY <1>1, <1>2, <1>5
      <3>2. QED
        BY <1>2, <1>5, <3>1
    <2>2. QED
      BY <2>1, <1>1, <1>2, <1>5, <1>6 DEF WindowOK
  <1>10. QED
    BY <1>7, <1>8, <1>9 DEF y, k, f


\* The passing of time does, too.
LEMMA TickKeeps ==
  ASSUME NEW h, NEW g, WindowOK(h, g)
  PROVE  WindowOK(Older(h), YoungOnes(Older(g)))
  <1> DEFINE k == Older(h)
             o == Older(g)
             y == YoungOnes(o)
  <1>1. /\ h \in Seq(Ages) /\ Sorted(h)
        /\ g \in Seq(Ages) /\ Sorted(g)
        /\ Len(h) \in Nat
        /\ Len(g) \in Nat
        /\ \A n \in 1 .. Len(h) : h[n] \in Ages
        /\ \A n \in 1 .. Len(g) : g[n] \in Ages
        /\ \A n \in 1 .. Len(g) : Young(g[n])
        /\ Len(g) <= Len(h)
        /\ \A n \in 1 .. Len(g) : h[n] <= g[n]
        /\ Len(g) <= Limit
    BY DEF WindowOK
  <1>2. /\ k \in Seq(Ages) /\ Sorted(k)
        /\ Len(k) = Len(h)
        /\ \A n \in 1 .. Len(h) : k[n] = IF Young(h[n]) THEN h[n] + 1 ELSE h[n]
    BY <1>1, Aged
  <1>3. /\ o \in Seq(Ages) /\ Sorted(o)
        /\ Len(o) = Len(g)
        /\ \A n \in 1 .. Len(g) : o[n] = IF Young(g[n]) THEN g[n] + 1 ELSE g[n]
    BY <1>1, Aged
  <1> HIDE DEF k, o
  <1>4. /\ y \in Seq(Ages) /\ Sorted(y)
        /\ Len(y) <= Len(o)
        /\ \A n \in 1 .. Len(y) : y[n] = o[n] /\ Young(o[n])
    BY <1>3, YoungPrefix
  <1>5. Len(y) \in Nat
    BY <1>4
  <1> HIDE DEF y
  <1>6. ASSUME NEW n \in 1 .. Len(y)
        PROVE  k[n] <= y[n] /\ Young(y[n])
    <2>1. n \in 1 .. Len(g) /\ n \in 1 .. Len(h)
      BY <1>1, <1>3, <1>4, <1>5
    <2>2. h[n] \in Ages /\ g[n] \in Ages /\ h[n] <= g[n] /\ Young(g[n])
      BY <1>1, <2>1
    <2>3. Young(h[n])
      BY <2>2, LimiterBounds DEF Young, Ages
    <2>4. k[n] = h[n] + 1 /\ o[n] = g[n] + 1 /\ y[n] = o[n] /\ Young(o[n])
      BY <1>2, <1>3, <1>4, <2>1, <2>2, <2>3
    <2>5. QED
      BY <2>2, <2>4, LimiterBounds DEF Ages
  <1>7. Len(y) <= Len(k) /\ Len(y) <= Limit
    BY <1>1, <1>2, <1>3, <1>4, <1>5, LimiterBounds
  <1>8. QED
    BY <1>2, <1>4, <1>6, <1>7 DEF WindowOK, k, o, y

LEMMA WindowStart == GatewayInit => WindowInv
  <1> SUFFICES ASSUME LimiterInit
               PROVE  WindowInv
    BY DEF GatewayInit
  <1>1. hits = [i \in Identities |-> <<>>] /\ granted = [i \in Identities |-> <<>>]
    BY DEF LimiterInit
  <1>2. WindowOK(<<>>, <<>>)
    BY LimiterBounds DEF WindowOK, Sorted
  <1>3. QED
    BY <1>1, <1>2 DEF WindowInv

\* One request that reaches the limiter, and is let through or not.
LEMMA HitStep ==
  ASSUME NEW i \in Identities, WindowInv, Pass(i) \/ Refuse(i)
  PROVE  WindowInv'
  <1> DEFINE h == hits[i]
             g == granted[i]
             f == <<0>> \o g
  <1>1. WindowOK(h, g)
    BY DEF WindowInv
  <1>2. /\ hits \in [Identities -> Seq(Ages)]
        /\ granted \in [Identities -> Seq(Ages)]
        /\ \A j \in Identities : WindowOK(hits[j], granted[j])
    BY DEF WindowInv
  <1>3. PICK same \in BOOLEAN :
            /\ Hit(i, same)
            /\ \/ granted' = [granted EXCEPT ![i] = f] /\ ~same /\ Used(i, same) <= Limit
               \/ granted' = granted
    BY DEF Pass, Refuse, SameReading
  <1> DEFINE k == Members(i, same)
  <1>4. WindowOK(k, g)
    BY <1>1, HitKeeps DEF Members
  <1>5. \/ granted' = [granted EXCEPT ![i] = f] /\ WindowOK(k, f)
        \/ granted' = granted
    <2>1. CASE granted' = [granted EXCEPT ![i] = f] /\ ~same /\ Used(i, same) <= Limit
      <3>1. k = <<0>> \o Prune(h) /\ Len(k) <= Limit
        BY <2>1 DEF Members, Used
      <3>2. Len(k) = Len(Prune(h)) + 1
        <4>1. Prune(h) \in Seq(Ages)
          BY <1>1, HitKeeps DEF WindowOK
        <4>2. QED
          BY <3>1, <4>1
      <3>3. QED
        BY <1>1, <2>1, <3>1, <3>2, HitKeeps
    <2>2. QED
      BY <1>3, <2>1
  <1>6. hits' = [hits EXCEPT ![i] = k]
    BY <1>3 DEF Hit
  <1> HIDE DEF h, k, f
  <1>7. CASE granted' = [granted EXCEPT ![i] = f] /\ WindowOK(k, f)
    <2>1. k \in Seq(Ages) /\ f \in Seq(Ages)
      BY <1>7 DEF WindowOK
    <2>2. \A j \in Identities : WindowOK(hits'[j], granted'[j])
      BY <1>2, <1>6, <1>7
    <2>3. QED
      BY <1>2, <1>6, <1>7, <2>1, <2>2 DEF WindowInv
  <1>8. CASE granted' = granted
    <2>1. k \in Seq(Ages)
      BY <1>4 DEF WindowOK
    <2>2. \A j \in Identities : WindowOK(hits'[j], granted'[j])
      BY <1>2, <1>4, <1>6, <1>8
    <2>3. QED
      BY <1>2, <1>6, <1>8, <2>1, <2>2 DEF WindowInv
  <1>9. QED
    BY <1>5, <1>7, <1>8

LEMMA WindowStep == WindowInv /\ [GatewayNext]_gatewayVars => WindowInv'
  <1> SUFFICES ASSUME WindowInv, [GatewayNext]_gatewayVars
               PROVE  WindowInv'
    OBVIOUS
  <1>1. CASE UNCHANGED limiterVars
    BY <1>1 DEF limiterVars, WindowInv
  <1>2. ASSUME NEW c \in Clients, NEW h \in Handlers, PostOrder(c, h)
        PROVE  WindowInv'
    <2>1. UserOf[c] \in Identities
      BY GatewayBounds
    <2>2. Pass(UserOf[c]) \/ Refuse(UserOf[c]) \/ UNCHANGED limiterVars
      BY <1>2 DEF PostOrder, FailOpen
    <2>3. QED
      BY <2>1, <2>2, <1>1, HitStep
  <1>3. CASE Tick
    <2>1. /\ hits' = [i \in Identities |-> Older(hits[i])]
          /\ granted' = [i \in Identities |-> YoungOnes(Older(granted[i]))]
      BY <1>3 DEF Tick
    <2>2. \A i \in Identities : WindowOK(Older(hits[i]), YoungOnes(Older(granted[i])))
      BY TickKeeps DEF WindowInv
    <2>3. \A i \in Identities :
              Older(hits[i]) \in Seq(Ages) /\ YoungOnes(Older(granted[i])) \in Seq(Ages)
      BY <2>2 DEF WindowOK
    <2>4. \A i \in Identities : WindowOK(hits'[i], granted'[i])
      BY <2>1, <2>2
    <2>5. QED
      BY <2>1, <2>3, <2>4 DEF WindowInv
  <1>4. \/ \E c \in Clients, h \in Handlers : PostOrder(c, h)
        \/ Tick
        \/ UNCHANGED limiterVars
    BY DEF GatewayNext, gatewayVars, limiterVars, Service, Answer, GatewayTimeout, HandlerDies
  <1>5. QED
    BY <1>1, <1>2, <1>3, <1>4

\* No caller gets write requests through the gateway at more than Limit clock
\* readings within any Window, for every limit, window and number of callers, while Redis
\* answers (rate_limit.check).
THEOREM WindowCorrect == GatewaySpec => []WindowRespected
  <1>1. WindowInv => WindowRespected
    BY DEF WindowInv, WindowOK, WindowRespected
  <1>2. QED
    BY <1>1, WindowStart, WindowStep, PTL DEF GatewaySpec


-----------------------------------------------------------------------------
(* One order for a key *)

LEMMA Requests ==
    /\ Free \in ReqType
    /\ Free.pc = "idle" /\ Free.client = None /\ Free.order = None
    /\ \A r \in ReqType :
           /\ r.pc \in Phases
           /\ r.client \in Clients \cup {None}
           /\ r.key \in Keys \cup {None}
           /\ r.order \in Orders \cup {None}
  BY DEF Free, ReqType, Phases

LEMMA Clienteles ==
    /\ Unasked \in ClientType /\ Unasked.order = None
    /\ \A x \in ClientType : x.order \in Orders \cup {None}
  BY DEF Unasked, ClientType

\* Answers leave the orders alone.
OrdersKept == UNCHANGED <<status, keyOf, orderOutbox>>

LEMMA SamePlaced ==
  ASSUME status' = status, keyOf' = keyOf
  PROVE  \A k : Placed(k)' = Placed(k)
  BY DEF Placed

\* The requests keep their keys; they come and go, and are told no order that
\* is not placed.
ReqStep(h) ==
    /\ req' \in [Handlers -> ReqType]
    /\ \A g \in Handlers \ {h} : req'[g] = req[g]
    /\ req'[h].client # None => req'[h].key = KeyFor[req'[h].client]
    /\ req'[h].pc = "commit" =>
           req[h].pc = "commit" /\ req'[h].key = req[h].key /\ req'[h].order = req[h].order
    /\ req'[h].pc = "reply" /\ req'[h].order # None =>
           Placed(req'[h].key) = {req'[h].order}

ClientStep ==
    /\ client' \in [Clients -> ClientType]
    /\ \A c \in Clients :
           client'[c].order # None =>
               \/ client'[c].order = client[c].order
               \/ Placed(KeyFor[c]) = {client'[c].order}

LEMMA QuietStep ==
  ASSUME NEW h \in Handlers, CheckoutInv, OrdersKept, ReqStep(h), ClientStep
  PROVE  CheckoutInv'
  <1>1. \A k : Placed(k)' = Placed(k)
    BY SamePlaced DEF OrdersKept
  <1>2. status' = status /\ keyOf' = keyOf /\ orderOutbox' = orderOutbox
    BY DEF OrdersKept
  <1>3. TypeInv'
    BY <1>2 DEF CheckoutInv, TypeInv, ReqStep, ClientStep
  <1>4. RowsOK'
    BY <1>2 DEF CheckoutInv, RowsOK
  <1>5. CommitOK'
    <2>1. ASSUME NEW f \in Handlers, req'[f].pc = "commit"
          PROVE  /\ req'[f].order \in Orders
                 /\ status'[req'[f].order] = "NONE"
                 /\ Placed(req'[f].key) = {}
                 /\ \A g \in Handlers \ {f} :
                        req'[g].pc = "commit" =>
                            req'[g].key # req'[f].key /\ req'[g].order # req'[f].order
      <3>1. \A g \in Handlers :
                req'[g].pc = "commit" =>
                    /\ req[g].pc = "commit"
                    /\ req'[g].key = req[g].key
                    /\ req'[g].order = req[g].order
        BY DEF ReqStep
      <3>2. QED
        BY <3>1, <2>1, <1>2 DEF CheckoutInv, CommitOK
    <2>2. QED
      BY <2>1, <1>1 DEF CommitOK
  <1>6. ReplyOK'
    <2>1. ASSUME NEW f \in Handlers
          PROVE  /\ req'[f].pc = "reply" /\ req'[f].order # None =>
                        Placed(req'[f].key) = {req'[f].order}
                 /\ req'[f].client # None => req'[f].key = KeyFor[req'[f].client]
      <3>1. CASE f = h
        BY <3>1 DEF ReqStep
      <3>2. CASE f # h
        BY <3>2 DEF ReqStep, CheckoutInv, ReplyOK
      <3>3. QED
        BY <3>1, <3>2
    <2>2. ASSUME NEW c \in Clients, client'[c].order # None
          PROVE  Placed(KeyFor[c]) = {client'[c].order}
      BY <2>2 DEF ClientStep, CheckoutInv, ReplyOK
    <2>3. QED
      BY <2>1, <2>2, <1>1 DEF ReplyOK
  <1>7. QED
    BY <1>3, <1>4, <1>5, <1>6 DEF CheckoutInv


\* An order id is found once (the UNIQUE index).
LEMMA OnlyPlaced ==
  ASSUME RowsOK, NEW k, NEW o \in Placed(k)
  PROVE  Placed(k) = {o}
  BY DEF RowsOK, Placed

LEMMA Moved ==
  ASSUME TypeInv, NEW h \in Handlers, NEW pc \in Phases, Goto(h, pc)
  PROVE  /\ req' \in [Handlers -> ReqType]
         /\ \A g \in Handlers \ {h} : req'[g] = req[g]
         /\ req'[h].pc = pc
         /\ req'[h].client = req[h].client
         /\ req'[h].key = req[h].key
         /\ req'[h].order = req[h].order
  BY DEF TypeInv, Goto, ReqType

LEMMA Replied ==
  ASSUME TypeInv, NEW h \in Handlers, NEW code \in Nat, NEW o \in Orders \cup {None},
         Reply(h, code, o)
  PROVE  /\ req' \in [Handlers -> ReqType]
         /\ \A g \in Handlers \ {h} : req'[g] = req[g]
         /\ req'[h].pc = "reply"
         /\ req'[h].client = req[h].client
         /\ req'[h].key = req[h].key
         /\ req'[h].order = o
  <1>1. req \in [Handlers -> ReqType]
    BY DEF TypeInv
  <1> DEFINE x == [req[h] EXCEPT !.pc = "reply", !.code = code, !.order = o]
  <1>2. req[h] \in ReqType
    BY <1>1
  <1>3. /\ x \in ReqType
        /\ x.pc = "reply"
        /\ x.client = req[h].client
        /\ x.key = req[h].key
        /\ x.order = o
    BY <1>2 DEF ReqType, Phases
  <1>4. req' = [req EXCEPT ![h] = x]
    BY <1>1 DEF Reply
  <1> HIDE DEF x
  <1>5. QED
    BY <1>1, <1>3, <1>4

\* What a step that moves a request on, or answers it, has to respect.
LEMMA GotoStep ==
  ASSUME CheckoutInv, NEW h \in Handlers, NEW pc \in Phases \ {"commit", "reply"},
         Goto(h, pc)
  PROVE  ReqStep(h)
  <1>1. /\ req' \in [Handlers -> ReqType]
        /\ \A g \in Handlers \ {h} : req'[g] = req[g]
        /\ req'[h].pc = pc
        /\ req'[h].client = req[h].client
        /\ req'[h].key = req[h].key
    BY Moved DEF CheckoutInv
  <1>2. req[h].client # None => req[h].key = KeyFor[req[h].client]
    BY DEF CheckoutInv, ReplyOK
  <1>3. QED
    BY <1>1, <1>2 DEF ReqStep

LEMMA ReplyStep ==
  ASSUME CheckoutInv, NEW h \in Handlers, NEW code \in Nat, NEW o \in Orders \cup {None},
         Reply(h, code, o),
         o # None => Placed(req[h].key) = {o}
  PROVE  ReqStep(h)
  <1>1. /\ req' \in [Handlers -> ReqType]
        /\ \A g \in Handlers \ {h} : req'[g] = req[g]
        /\ req'[h].pc = "reply"
        /\ req'[h].client = req[h].client
        /\ req'[h].key = req[h].key
        /\ req'[h].order = o
    BY Replied DEF CheckoutInv
  <1>2. req[h].client # None => req[h].key = KeyFor[req[h].client]
    BY DEF CheckoutInv, ReplyOK
  <1>3. QED
    BY <1>1, <1>2 DEF ReqStep

LEMMA ClientKept ==
  ASSUME CheckoutInv, client' = client
  PROVE  ClientStep
  BY DEF CheckoutInv, TypeInv, ClientStep

\* A client is told something, and no order but the one of its key.
LEMMA ToldStep ==
  ASSUME CheckoutInv, NEW h \in Handlers, NEW code \in Nat, NEW o \in Orders \cup {None},
         Tell(h, code, o),
         o # None => Placed(req[h].key) = {o}
  PROVE  ClientStep
  <1>1. CASE req[h].client = None
    BY <1>1, ClientKept DEF Tell
  <1>2. CASE req[h].client # None
    <2> DEFINE c == req[h].client
               x == Told(c, code, o)
    <2>1. c \in Clients /\ req[h].key = KeyFor[c]
      BY <1>2, Requests DEF CheckoutInv, TypeInv, ReplyOK
    <2>2. client \in [Clients -> ClientType]
      BY DEF CheckoutInv, TypeInv
    <2>3. x \in ClientType /\ x.order = o
      BY <2>1, <2>2 DEF Told, ClientType
    <2>4. client' = [client EXCEPT ![c] = x]
      BY <1>2 DEF Tell
    <2>5. Placed(KeyFor[c]) = {o} \/ o = None
      BY <2>1
    <2> HIDE DEF c, x
    <2>6. client' \in [Clients -> ClientType]
      BY <2>1, <2>2, <2>3, <2>4
    <2>7. \A d \in Clients : d # c => client'[d] = client[d]
      BY <2>1, <2>2, <2>4
    <2>8. client'[c].order = o
      BY <2>1, <2>2, <2>3, <2>4
    <2>9. QED
      BY <2>5, <2>6, <2>7, <2>8 DEF ClientStep
  <1>3. QED
    BY <1>1, <1>2

LEMMA LookupStep ==
  ASSUME CheckoutInv, NEW h \in Handlers, Lookup(h) \/ Price(h) \/ Recheck(h)
  PROVE  ReqStep(h)
  <1>1. ASSUME Placed(req[h].key) # {}
        PROVE  /\ (CHOOSE o \in Placed(req[h].key) : TRUE) \in Orders
               /\ Placed(req[h].key) = {CHOOSE o \in Placed(req[h].key) : TRUE}
    <2>1. (CHOOSE o \in Placed(req[h].key) : TRUE) \in Placed(req[h].key)
      BY <1>1
    <2>2. QED
      BY <2>1, OnlyPlaced DEF CheckoutInv, Placed
  <1>2. \/ Goto(h, "price") \/ Goto(h, "insert")
        \/ Reply(h, 409, None) \/ Reply(h, 422, None)
        \/ /\ Placed(req[h].key) # {}
           /\ Reply(h, 200, CHOOSE o \in Placed(req[h].key) : TRUE)
    BY DEF Lookup, Price, Recheck
  <1>3. CASE Goto(h, "price") \/ Goto(h, "insert")
    BY <1>3, GotoStep DEF Phases
  <1>4. CASE Reply(h, 409, None) \/ Reply(h, 422, None)
    BY <1>4, ReplyStep
  <1>5. CASE /\ Placed(req[h].key) # {}
             /\ Reply(h, 200, CHOOSE o \in Placed(req[h].key) : TRUE)
    <2> DEFINE o == CHOOSE o \in Placed(req[h].key) : TRUE
    <2>1. o \in Orders \cup {None} /\ Placed(req[h].key) = {o}
      BY <1>5, <1>1
    <2>2. Reply(h, 200, o)
      BY <1>5
    <2> HIDE DEF o
    <2>3. QED
      BY <2>1, <2>2, ReplyStep
  <1>6. QED
    BY <1>2, <1>3, <1>4, <1>5


\* The INSERT that waits for nobody takes the key and an id nobody has.
LEMMA InsertKeeps ==
  ASSUME CheckoutInv, NEW h \in Handlers, Insert(h), client' = client
  PROVE  CheckoutInv'
  <1>1. OrdersKept /\ status' = status /\ keyOf' = keyOf /\ orderOutbox' = orderOutbox
    BY DEF Insert, orderVars, OrdersKept
  <1>2. CASE Goto(h, "recheck")
    BY <1>1, <1>2, GotoStep, ClientKept, QuietStep DEF Phases
  <1>3. CASE ~Goto(h, "recheck")
    <2> DEFINE o == FreshOrder
               x == [req[h] EXCEPT !.pc = "commit", !.order = o]
    <2>1. /\ req[h].pc = "insert"
          /\ Holding(req[h].key) = {}
          /\ Placed(req[h].key) = {}
          /\ Fresh # {}
          /\ req' = [req EXCEPT ![h].pc = "commit", ![h].order = o]
      BY <1>3 DEF Insert
    <2>2. o \in Fresh
      BY <2>1 DEF FreshOrder
    <2> HIDE DEF o
    <2>3. o \in Orders /\ status[o] = "NONE" /\ \A g \in Handlers : req[g].order # o
      BY <2>2 DEF Fresh
    <2>4. req \in [Handlers -> ReqType] /\ req[h] \in ReqType
      BY DEF CheckoutInv, TypeInv
    <2>5. /\ x \in ReqType
          /\ x.pc = "commit"
          /\ x.client = req[h].client
          /\ x.key = req[h].key
          /\ x.order = o
      BY <2>3, <2>4 DEF ReqType, Phases
    <2>6. req' = [req EXCEPT ![h] = x]
      BY <2>1, <2>4
    <2> HIDE DEF x
    <2>7. /\ req' \in [Handlers -> ReqType]
          /\ req'[h] = x
          /\ \A g \in Handlers \ {h} : req'[g] = req[g]
      BY <2>4, <2>5, <2>6
    <2>8. \A k : Placed(k)' = Placed(k)
      BY <1>1, SamePlaced
    <2>9. TypeInv' /\ RowsOK'
      BY <1>1, <2>7 DEF CheckoutInv, TypeInv, RowsOK
    <2>10. CommitOK'
      <3>1. \A g \in Handlers \ {h} : req[g].pc = "commit" => req[g].key # req[h].key
        BY <2>1 DEF Holding
      <3>2. ASSUME NEW f \in Handlers, req'[f].pc = "commit"
            PROVE  /\ req'[f].order \in Orders
                   /\ status'[req'[f].order] = "NONE"
                   /\ Placed(req'[f].key) = {}
                   /\ \A g \in Handlers \ {f} :
                          req'[g].pc = "commit" =>
                              req'[g].key # req'[f].key /\ req'[g].order # req'[f].order
        <4>1. CASE f = h
          BY <4>1, <3>1, <1>1, <2>1, <2>3, <2>5, <2>7
        <4>2. CASE f # h
          <5>1. req'[f] = req[f]
            BY <4>2, <2>7
          <5>2. /\ req[f].order \in Orders
                /\ status[req[f].order] = "NONE"
                /\ Placed(req[f].key) = {}
                /\ \A g \in Handlers \ {f} :
                       req[g].pc = "commit" =>
                           req[g].key # req[f].key /\ req[g].order # req[f].order
            BY <3>2, <5>1 DEF CheckoutInv, CommitOK
          <5>3. req[f].key # req[h].key /\ req[f].order # o
            BY <3>1, <3>2, <5>1, <4>2, <2>3
          <5>4. QED
            BY <5>1, <5>2, <5>3, <4>2, <1>1, <2>5, <2>7
        <4>3. QED
          BY <4>1, <4>2
      <3>3. QED
        BY <3>2, <2>8 DEF CommitOK
    <2>11. ReplyOK'
      <3>1. \A f \in Handlers :
                /\ req'[f].pc = "reply" =>
                       /\ req[f].pc = "reply"
                       /\ req'[f] = req[f]
                /\ req'[f].client = req[f].client
                /\ req'[f].key = req[f].key
        BY <2>5, <2>7
      <3>2. \A f \in Handlers :
                /\ req'[f].pc = "reply" /\ req'[f].order # None =>
                       Placed(req'[f].key) = {req'[f].order}
                /\ req'[f].client # None => req'[f].key = KeyFor[req'[f].client]
        BY <3>1 DEF CheckoutInv, ReplyOK
      <3>3. \A c \in Clients :
                client'[c].order # None => Placed(KeyFor[c]) = {client'[c].order}
        BY DEF CheckoutInv, ReplyOK
      <3>4. QED
        BY <3>2, <3>3, <2>8 DEF ReplyOK
    <2>12. QED
      BY <2>9, <2>10, <2>11 DEF CheckoutInv
  <1>4. QED
    BY <1>2, <1>3

\* The COMMIT: its key had no order, and now has this one.
LEMMA CommitKeeps ==
  ASSUME CheckoutInv, NEW h \in Handlers, Commit(h), client' = client
  PROVE  CheckoutInv'
  <1>0. PICK o, k : o = req[h].order /\ k = req[h].key
    OBVIOUS
  <1>1. /\ req[h].pc = "commit"
        /\ status[o] = "NONE"
        /\ status' = [status EXCEPT ![o] = "PENDING"]
        /\ orderOutbox' = orderOutbox \cup {Event(ORDER_CREATED, o)}
        /\ keyOf' = [keyOf EXCEPT ![o] = k]
        /\ Reply(h, 202, o)
    BY <1>0 DEF Commit, CreateOrder, Publish
  <1>2. /\ o \in Orders
        /\ Placed(k) = {}
        /\ \A g \in Handlers \ {h} :
               req[g].pc = "commit" => req[g].key # k /\ req[g].order # o
    BY <1>0, <1>1 DEF CheckoutInv, CommitOK
  <1>3. /\ status \in [Orders -> OrderStatus \cup {"NONE"}]
        /\ keyOf \in [Orders -> Keys \cup {None}]
        /\ client \in [Clients -> ClientType]
        /\ k \in Keys \cup {None}
    BY <1>0, Requests DEF CheckoutInv, TypeInv
  <1>4. /\ req' \in [Handlers -> ReqType]
        /\ \A g \in Handlers \ {h} : req'[g] = req[g]
        /\ req'[h].pc = "reply"
        /\ req'[h].client = req[h].client
        /\ req'[h].key = k
        /\ req'[h].order = o
    BY <1>0, <1>1, <1>2, Replied DEF CheckoutInv
  <1>5. /\ status'[o] = "PENDING" /\ keyOf'[o] = k
        /\ \A p \in Orders : p # o => status'[p] = status[p] /\ keyOf'[p] = keyOf[p]
    BY <1>1, <1>2, <1>3
  <1>6. \A p \in Orders : status[p] # "NONE" => keyOf[p] # k
    BY <1>2 DEF Placed
  <1>7. Placed(k)' = {o}
    <2>1. \A p : p \in Placed(k)' <=> p = o
      BY <1>2, <1>5, <1>6 DEF Placed
    <2> DEFINE P == Placed(k)
    <2>2. \A p : p \in P' <=> p = o
      BY <2>1
    <2> HIDE DEF P
    <2>3. P' = {o}
      BY <2>2
    <2>4. QED
      BY <2>3 DEF P
  <1>8. \A j : j # k => Placed(j)' = Placed(j)
    <2>1. ASSUME NEW j, j # k
          PROVE  \A p : p \in Placed(j)' <=> p \in Placed(j)
      BY <2>1, <1>1, <1>5 DEF Placed
    <2>2. ASSUME NEW j, j # k
          PROVE  Placed(j)' = Placed(j)
      <3> DEFINE P == Placed(j)
      <3>1. \A p : p \in P' <=> p \in P
        BY <2>1, <2>2
      <3> HIDE DEF P
      <3>2. P' = P
        BY <3>1
      <3>3. QED
        BY <3>2 DEF P
    <2>3. QED
      BY <2>2
  <1>9. TypeInv'
    <2>1. "PENDING" \in OrderStatus
      BY DEF OrderStatus
    <2>2. QED
      BY <1>1, <1>2, <1>3, <1>4, <2>1 DEF TypeInv
  <1>10. RowsOK'
    <2>1. ASSUME NEW p \in Orders, NEW q \in Orders,
                 status'[p] # "NONE", status'[q] # "NONE", keyOf'[p] = keyOf'[q]
          PROVE  p = q
      BY <2>1, <1>5, <1>6 DEF CheckoutInv, RowsOK
    <2>2. ASSUME NEW p \in Orders, status'[p] # "NONE"
          PROVE  Event(ORDER_CREATED, p) \in orderOutbox'
      BY <2>2, <1>1, <1>5 DEF CheckoutInv, RowsOK
    <2>3. QED
      BY <2>1, <2>2 DEF RowsOK, Event
  <1>11. CommitOK'
    <2>1. ASSUME NEW f \in Handlers, req'[f].pc = "commit"
          PROVE  /\ req'[f].order \in Orders
                 /\ status'[req'[f].order] = "NONE"
                 /\ req'[f].key # k /\ Placed(req'[f].key) = {}
                 /\ \A g \in Handlers \ {f} :
                        req'[g].pc = "commit" =>
                            req'[g].key # req'[f].key /\ req'[g].order # req'[f].order
      <3>1. f # h /\ req'[f] = req[f]
        BY <2>1, <1>4
      <3>2. \A g \in Handlers : req'[g].pc = "commit" => req'[g] = req[g]
        BY <1>4
      <3>3. req[f].key # k /\ req[f].order # o
        BY <3>1, <2>1, <1>2
      <3>4. /\ req[f].order \in Orders
            /\ status[req[f].order] = "NONE"
            /\ Placed(req[f].key) = {}
            /\ \A g \in Handlers \ {f} :
                   req[g].pc = "commit" =>
                       req[g].key # req[f].key /\ req[g].order # req[f].order
        BY <3>1, <2>1 DEF CheckoutInv, CommitOK
      <3>5. status'[req[f].order] = "NONE"
        BY <3>3, <3>4, <1>5
      <3>6. QED
        BY <3>1, <3>2, <3>3, <3>4, <3>5
    <2>2. QED
      BY <2>1, <1>8 DEF CommitOK
  <1>12. ReplyOK'
    <2>1. \A f \in Handlers :
              f # h /\ req'[f].pc = "reply" /\ req'[f].order # None =>
                  req'[f].key # k /\ Placed(req'[f].key) = {req'[f].order}
      BY <1>2, <1>4 DEF CheckoutInv, ReplyOK
    <2>2. \A f \in Handlers :
              req'[f].client # None => req'[f].key = KeyFor[req'[f].client]
      <3>1. \A f \in Handlers : req'[f].client = req[f].client /\ req'[f].key = req[f].key
        BY <1>0, <1>4
      <3>2. QED
        BY <3>1 DEF CheckoutInv, ReplyOK
    <2>3. \A c \in Clients :
              client'[c].order # None =>
                  KeyFor[c] # k /\ Placed(KeyFor[c]) = {client'[c].order}
      BY <1>2 DEF CheckoutInv, ReplyOK
    <2>4. QED
      BY <2>1, <2>2, <2>3, <1>4, <1>7, <1>8 DEF ReplyOK
  <1>13. QED
    BY <1>9, <1>10, <1>11, <1>12 DEF CheckoutInv


LEMMA CheckoutStart == GatewayInit => CheckoutInv
  <1> SUFFICES ASSUME CheckoutInit, client = [c \in Clients |-> Unasked]
               PROVE  CheckoutInv
    BY DEF GatewayInit
  <1>1. PICK E \in {{}, Earlier} :
            /\ status = [o \in Orders |-> IF o \in E THEN "PENDING" ELSE "NONE"]
            /\ orderOutbox = {Event(ORDER_CREATED, o) : o \in E}
            /\ keyOf \in [Orders -> Keys \cup {None}]
            /\ \A o, p \in E : keyOf[o] = keyOf[p] => o = p
            /\ req = [h \in Handlers |-> Free]
    BY DEF CheckoutInit
  <1>2. req \in [Handlers -> ReqType] /\ client \in [Clients -> ClientType]
    BY <1>1, Requests, Clienteles
  <1>3. status \in [Orders -> OrderStatus \cup {"NONE"}]
    BY <1>1 DEF OrderStatus
  <1>4. RowsOK
    <2>1. \A o \in Orders : status[o] # "NONE" <=> o \in E
      BY <1>1
    <2>2. \A o \in E : Event(ORDER_CREATED, o) \in orderOutbox
      BY <1>1
    <2>3. QED
      BY <1>1, <2>1, <2>2 DEF RowsOK
  <1>5. CommitOK
    BY <1>1, Requests DEF CommitOK
  <1>6. ReplyOK
    BY <1>1, Requests, Clienteles DEF ReplyOK
  <1>7. QED
    BY <1>1, <1>2, <1>3, <1>4, <1>5, <1>6 DEF CheckoutInv, TypeInv

\* The gateway sends a request on, or refuses it.
LEMMA PostKeeps ==
  ASSUME CheckoutInv, NEW c \in Clients, NEW h \in Handlers, PostOrder(c, h)
  PROVE  CheckoutInv'
  <1>1. OrdersKept
    BY DEF PostOrder, orderVars, OrdersKept
  <1>2. /\ req \in [Handlers -> ReqType]
        /\ client \in [Clients -> ClientType]
        /\ UserOf[c] \in Identities
        /\ KeyFor[c] \in Keys
    BY GatewayBounds DEF CheckoutInv, TypeInv
  <1>3. ReqStep(h)
    <2>1. CASE Accept(h, c, UserOf[c], KeyFor[c])
      <3> DEFINE x == [Free EXCEPT !.pc = "lookup", !.client = c, !.user = UserOf[c],
                                   !.key = KeyFor[c]]
      <3>1. /\ x \in ReqType
            /\ x.pc = "lookup"
            /\ x.client = c
            /\ x.key = KeyFor[c]
        BY <1>2 DEF Free, ReqType, Phases
      <3>2. req' = [req EXCEPT ![h] = x]
        BY <2>1 DEF Accept
      <3> HIDE DEF x
      <3>3. QED
        BY <3>1, <3>2, <1>2 DEF ReqStep
    <2>2. CASE req' = req
      BY <2>2, <1>2 DEF ReqStep, CheckoutInv, ReplyOK
    <2>3. QED
      BY <2>1, <2>2 DEF PostOrder
  <1>4. ClientStep
    <2>1. PICK r, n, k : r = client[c] /\ n = client[c].tries + 1 /\ k = 429
      OBVIOUS
    <2>2. /\ r \in ClientType
          /\ n \in Nat
          /\ k \in Nat
      BY <1>2, <2>1 DEF ClientType
    <2> DEFINE w == [r EXCEPT !.pc = "waiting", !.tries = n]
               t == [r EXCEPT !.pc = "told", !.code = k, !.tries = n]
    <2>3. w = Sent(c) /\ t = Limited(c)
      BY <2>1 DEF Sent, Limited
    <2>4. w \in ClientType /\ w.order = r.order
      BY <2>2 DEF ClientType
    <2>5. t \in ClientType /\ t.order = r.order
      BY <2>2 DEF ClientType
    <2> HIDE DEF w, t
    <2>6. client' = [client EXCEPT ![c] = w] \/ client' = [client EXCEPT ![c] = t]
      BY <2>3 DEF PostOrder
    <2>7. /\ client' \in [Clients -> ClientType]
          /\ \A d \in Clients : client'[d].order = client[d].order
      BY <1>2, <2>1, <2>4, <2>5, <2>6
    <2>8. QED
      BY <2>7 DEF ClientStep
  <1>5. QED
    BY <1>1, <1>3, <1>4, QuietStep

\* An answer, a timeout at the gateway, the death of a handler.
LEMMA EndKeeps ==
  ASSUME CheckoutInv, NEW h \in Handlers, Answer(h) \/ GatewayTimeout(h) \/ HandlerDies(h)
  PROVE  CheckoutInv'
  <1>1. OrdersKept
    BY DEF Answer, GatewayTimeout, HandlerDies, orderVars, OrdersKept
  <1>2. req \in [Handlers -> ReqType] /\ req[h] \in ReqType
    BY DEF CheckoutInv, TypeInv
  <1>3. CASE Answer(h)
    <2>1. req' = [req EXCEPT ![h] = Free]
      BY <1>3 DEF Answer
    <2>2. ReqStep(h)
      BY <1>2, <2>1, Requests DEF ReqStep
    <2>3. Tell(h, req[h].code, req[h].order) /\ req[h].pc = "reply"
      BY <1>3 DEF Answer
    <2>4. req[h].code \in Nat /\ req[h].order \in Orders \cup {None}
      BY <1>2 DEF ReqType
    <2>5. req[h].order # None => Placed(req[h].key) = {req[h].order}
      BY <2>3 DEF CheckoutInv, ReplyOK
    <2>6. ClientStep
      BY <2>3, <2>4, <2>5, ToldStep
    <2>7. QED
      BY <1>1, <2>2, <2>6, QuietStep
  <1>4. CASE GatewayTimeout(h)
    <2> DEFINE x == [req[h] EXCEPT !.client = None]
    <2>1. req' = [req EXCEPT ![h] = x]
      BY <1>4 DEF GatewayTimeout
    <2>2. /\ x \in ReqType
          /\ x.pc = req[h].pc
          /\ x.client = None
          /\ x.key = req[h].key
          /\ x.order = req[h].order
      BY <1>2 DEF ReqType
    <2> HIDE DEF x
    <2>3. /\ req' \in [Handlers -> ReqType]
          /\ \A g \in Handlers \ {h} : req'[g] = req[g]
          /\ req'[h] = x
      BY <1>2, <2>1, <2>2
    <2>4. ReqStep(h)
      BY <2>2, <2>3 DEF ReqStep, CheckoutInv, ReplyOK
    <2>5. ClientStep
      BY <1>4, ToldStep DEF GatewayTimeout
    <2>6. QED
      BY <1>1, <2>4, <2>5, QuietStep
  <1>5. CASE HandlerDies(h)
    <2>1. req' = [req EXCEPT ![h] = Free]
      BY <1>5 DEF HandlerDies
    <2>2. ReqStep(h)
      BY <1>2, <2>1, Requests DEF ReqStep
    <2>3. ClientStep
      BY <1>5, ToldStep DEF HandlerDies
    <2>4. QED
      BY <1>1, <2>2, <2>3, QuietStep
  <1>6. QED
    BY <1>3, <1>4, <1>5

LEMMA CheckoutStep == CheckoutInv /\ [GatewayNext]_gatewayVars => CheckoutInv'
  <1> SUFFICES ASSUME CheckoutInv, [GatewayNext]_gatewayVars
               PROVE  CheckoutInv'
    OBVIOUS
  <1> DEFINE Same == UNCHANGED <<status, keyOf, orderOutbox, req, client>>
  <1>1. CASE Same
    <2>1. \A k : Placed(k)' = Placed(k)
      BY <1>1, SamePlaced
    <2>2. TypeInv' /\ RowsOK'
      BY <1>1 DEF CheckoutInv, TypeInv, RowsOK
    <2>3. CommitOK' /\ ReplyOK'
      BY <1>1, <2>1 DEF CheckoutInv, CommitOK, ReplyOK
    <2>4. QED
      BY <2>2, <2>3 DEF CheckoutInv
  <1>2. ASSUME NEW c \in Clients, NEW h \in Handlers, PostOrder(c, h)
        PROVE  CheckoutInv'
    BY <1>2, PostKeeps
  <1>3. ASSUME NEW h \in Handlers, Service(h)
        PROVE  CheckoutInv'
    <2>1. client' = client
      BY <1>3 DEF Service
    <2>2. CASE Lookup(h) \/ Price(h) \/ Recheck(h)
      <3>1. OrdersKept
        BY <2>2 DEF Lookup, Price, Recheck, orderVars, OrdersKept
      <3>2. QED
        BY <2>1, <2>2, <3>1, LookupStep, ClientKept, QuietStep
    <2>3. CASE Insert(h)
      BY <2>1, <2>3, InsertKeeps
    <2>4. CASE Commit(h)
      BY <2>1, <2>4, CommitKeeps
    <2>5. QED
      BY <1>3, <2>2, <2>3, <2>4 DEF Service, Handle
  <1>4. ASSUME NEW h \in Handlers, Answer(h) \/ GatewayTimeout(h) \/ HandlerDies(h)
        PROVE  CheckoutInv'
    BY <1>4, EndKeeps
  <1>5. CASE Relist /\ UNCHANGED <<limiterVars, client, faults>>
    BY <1>1, <1>5 DEF Relist, orderVars
  <1>6. CASE Tick /\ UNCHANGED <<checkoutVars, client, faults>>
    BY <1>1, <1>6 DEF checkoutVars, orderVars
  <1>7. CASE UNCHANGED gatewayVars
    BY <1>1, <1>7 DEF gatewayVars, checkoutVars, orderVars
  <1>8. QED
    BY <1>2, <1>3, <1>4, <1>5, <1>6, <1>7 DEF GatewayNext

\* A set all of whose members are equal.
LEMMA AtMostOne ==
  ASSUME NEW S, \A x, y \in S : x = y
  PROVE  Cardinality(S) <= 1
  <1>1. CASE S = {}
    BY <1>1, FS_EmptySet
  <1>2. CASE S # {}
    <2>1. PICK x \in S : TRUE
      BY <1>2
    <2>2. S = {x}
      BY <2>1
    <2>3. QED
      BY <2>2, FS_Singleton
  <1>3. QED
    BY <1>1, <1>2

\* For any number of clients, retries, timeouts and lost handlers, a key makes
\* at most one order, and a client is given no other (create_order: the look-up,
\* the UNIQUE index and the second look-up; the proxy of the gateway).
THEOREM OneOrderCorrect == GatewaySpec => []OneOrderPerKey
  <1>1. CheckoutInv => OneOrderPerKey
    <2> SUFFICES ASSUME CheckoutInv
                 PROVE  OneOrderPerKey
      OBVIOUS
    <2>1. \A k : \A o, p \in Placed(k) : o = p
      BY DEF CheckoutInv, RowsOK, Placed
    <2>2. \A k \in Keys : Cardinality(Placed(k)) <= 1
      BY <2>1, AtMostOne
    <2>3. ASSUME NEW c \in Clients, client[c].order # None
          PROVE  /\ Placed(KeyFor[c]) = {client[c].order}
                 /\ Event(ORDER_CREATED, client[c].order) \in orderOutbox
      <3>1. Placed(KeyFor[c]) = {client[c].order}
        BY <2>3 DEF CheckoutInv, ReplyOK
      <3>2. client[c].order \in Orders /\ status[client[c].order] # "NONE"
        BY <3>1 DEF Placed
      <3>3. QED
        BY <3>1, <3>2 DEF CheckoutInv, RowsOK
    <2>4. QED
      BY <2>2, <2>3 DEF OneOrderPerKey
  <1>2. QED
    BY <1>1, CheckoutStart, CheckoutStep, PTL DEF GatewaySpec
=============================================================================
