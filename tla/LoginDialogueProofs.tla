-------------------------- MODULE LoginDialogueProofs --------------------------
(***************************************************************************)
(* Theorems about the login dialogue, the login server's tables and an     *)
(* account at the game server, for every number of clients, names,         *)
(* requests, tokens, sessions and payments.                                *)
(***************************************************************************)
EXTENDS LoginDialogue, FiniteSetTheorems, SequenceTheorems, WellFoundedInduction, TLAPS

-----------------------------------------------------------------------------
(* Numbers and sums                                                        *)

\* A set of natural numbers that is not empty has a least member.
LEMMA LeastMember ==
  ASSUME NEW S \in SUBSET Nat, S # {}
  PROVE  Min(S) \in S /\ \A x \in S : Min(S) <= x
<1>1. PICK m \in S : \A k \in S : <<k, m>> \notin OpToRel(<, Nat)
  BY NatLessThanWellFounded, WFMin, Zenon
<1>2. \A k \in S : ~ (k < m)
  BY <1>1, Zenon DEF OpToRel
<1>3. \A k \in S : m <= k
  BY <1>2
<1>4. QED
  BY <1>3 DEF Min

\* What holds of 0 and is passed on from each number to the next one, up to n,
\* holds up to n.
LEMMA UpTo ==
  ASSUME NEW n \in Nat, NEW G, 0 \in G, \A k \in 0 .. n - 1 : k \in G => k + 1 \in G
  PROVE  0 .. n \subseteq G
<1> DEFINE Bad == {k \in 0 .. n : k \notin G}
<1>1. SUFFICES ASSUME Bad # {} PROVE FALSE
  OBVIOUS
<1>2. Min(Bad) \in Bad /\ \A x \in Bad : Min(Bad) <= x
  <2>1. Bad \in SUBSET Nat
    OBVIOUS
  <2>2. QED
    BY <1>1, <2>1, LeastMember
<1>3. PICK m \in Bad : \A x \in Bad : m <= x
  BY <1>2
<1>4. m \in 0 .. n /\ m # 0 /\ m \notin G
  OBVIOUS
<1>5. m - 1 \in 0 .. n - 1 /\ m - 1 \in 0 .. n /\ ~ (m <= m - 1) /\ (m - 1) + 1 = m
  BY <1>4
<1>6. m - 1 \in G
  BY <1>3, <1>5
<1>7. QED
  BY <1>4, <1>5, <1>6

\* g adds the first n numbers of q up.
Adds(g, q, n) ==
  /\ g \in [0 .. n -> Int]
  /\ g[0] = 0
  /\ \A i \in 1 .. n : g[i] = g[i - 1] + q[i]

\* SumOf is where anything that adds the numbers up arrives.
LEMMA SumIsReached ==
  ASSUME NEW q, Len(q) \in Nat, NEW g, Adds(g, q, Len(q))
  PROVE  SumOf(q) = g[Len(q)]
<1> DEFINE n == Len(q)
           Sums(f) == f = [i \in 0 .. n |-> IF i = 0 THEN 0 ELSE f[i - 1] + q[i]]
<1>1. Sums(g)
  <2>1. \A i \in 0 .. n : g[i] = IF i = 0 THEN 0 ELSE g[i - 1] + q[i]
    BY DEF Adds
  <2>2. QED
    BY <2>1 DEF Adds
<1>2. ASSUME NEW f, Sums(f) PROVE f = g
  <2> DEFINE G == {i \in 0 .. n : f[i] = g[i]}
  <2>1. \A i \in 0 .. n : f[i] = IF i = 0 THEN 0 ELSE f[i - 1] + q[i]
    BY <1>2
  <2>2. 0 \in G
    BY <2>1 DEF Adds
  <2>3. ASSUME NEW k \in 0 .. n - 1, k \in G PROVE k + 1 \in G
    <3>1. k + 1 \in 0 .. n /\ k + 1 \in 1 .. n /\ (k + 1) - 1 = k /\ k + 1 # 0
      OBVIOUS
    <3>2. f[k + 1] = f[k] + q[k + 1] /\ g[k + 1] = g[k] + q[k + 1]
      BY <2>1, <3>1 DEF Adds
    <3>3. QED
      BY <2>3, <3>1, <3>2
  <2>4. 0 .. n \subseteq G
    <3> HIDE DEF G
    <3> QED
      BY <2>2, <2>3, UpTo
  <2>5. \A i \in 0 .. n : f[i] = g[i]
    BY <2>4
  <2>6. f = [i \in 0 .. n |-> f[i]] /\ g = [i \in 0 .. n |-> g[i]]
    BY <1>2 DEF Adds
  <2>7. QED
    BY <2>5, <2>6
<1>3. SumOf(q) = (CHOOSE f : Sums(f))[n]
  BY DEF SumOf
<1>4. (CHOOSE f : Sums(f)) = g
  <2> HIDE DEF Sums
  <2> QED
    BY <1>1, <1>2
<1>5. QED
  BY <1>3, <1>4

\* The numbers of a sequence can be added up.
LEMMA SumExists ==
  ASSUME NEW q \in Seq(Int)
  PROVE  \E g : Adds(g, q, Len(q))
<1> DEFINE G == {k \in 0 .. Len(q) : \E g : Adds(g, q, k)}
<1>1. Len(q) \in Nat /\ \A i \in 1 .. Len(q) : q[i] \in Int
  OBVIOUS
<1>2. 0 \in G
  <2>1. Adds([i \in 0 .. 0 |-> 0], q, 0)
    BY DEF Adds
  <2>2. QED
    BY <1>1, <2>1
<1>3. ASSUME NEW k \in 0 .. Len(q) - 1, k \in G PROVE k + 1 \in G
  <2>1. PICK g : Adds(g, q, k)
    BY <1>3
  <2> DEFINE h == [i \in 0 .. k + 1 |-> IF i = k + 1 THEN g[k] + q[k + 1] ELSE g[i]]
  <2>2. k \in 0 .. k /\ k + 1 \in 1 .. Len(q) /\ q[k + 1] \in Int /\ g[k] \in Int
    BY <1>1, <2>1 DEF Adds
  <2>3. h \in [0 .. k + 1 -> Int]
    BY <2>1, <2>2 DEF Adds
  <2>4. h[0] = 0
    BY <2>1 DEF Adds
  <2>5. ASSUME NEW i \in 1 .. k + 1 PROVE h[i] = h[i - 1] + q[i]
    <3>1. CASE i = k + 1
      BY <3>1
    <3>2. CASE i # k + 1
      <4>1. i \in 1 .. k /\ i - 1 \in 0 .. k
        BY <3>2
      <4>2. h[i] = g[i] /\ h[i - 1] = g[i - 1]
        BY <4>1
      <4>3. QED
        BY <2>1, <4>1, <4>2 DEF Adds
    <3>3. QED
      BY <3>1, <3>2
  <2>6. Adds(h, q, k + 1)
    <3> HIDE DEF h
    <3> QED
      BY <2>3, <2>4, <2>5 DEF Adds
  <2>7. QED
    BY <2>6
<1>4. 0 .. Len(q) \subseteq G
  <2> HIDE DEF G
  <2> QED
    BY <1>1, <1>2, <1>3, UpTo
<1>5. QED
  BY <1>1, <1>4

\* Nothing adds up to nothing.
LEMMA SumOfNone == SumOf(<<>>) = 0
<1>1. Adds([i \in 0 .. 0 |-> 0], <<>>, Len(<<>>)) /\ Len(<<>>) = 0
  BY DEF Adds
<1>2. QED
  BY <1>1, SumIsReached

\* A sum is a number.
LEMMA SumType ==
  ASSUME NEW q \in Seq(Int)
  PROVE  SumOf(q) \in Int
<1>1. PICK g : Adds(g, q, Len(q))
  BY SumExists
<1>2. Len(q) \in Nat
  OBVIOUS
<1>3. SumOf(q) = g[Len(q)]
  BY <1>1, <1>2, SumIsReached
<1>4. QED
  BY <1>1, <1>2, <1>3 DEF Adds

\* A number that is appended is added.
LEMMA SumOfMore ==
  ASSUME NEW q \in Seq(Int), NEW x \in Int
  PROVE  SumOf(Append(q, x)) = SumOf(q) + x
<1> DEFINE n == Len(q)
           r == Append(q, x)
<1>1. n \in Nat /\ Len(r) = n + 1 /\ r[n + 1] = x /\ \A i \in 1 .. n : r[i] = q[i]
  OBVIOUS
<1>2. PICK g : Adds(g, q, n)
  BY SumExists
<1> DEFINE h == [i \in 0 .. n + 1 |-> IF i = n + 1 THEN g[n] + x ELSE g[i]]
<1>3. g[n] \in Int
  BY <1>1, <1>2 DEF Adds
<1>4. h \in [0 .. n + 1 -> Int] /\ h[0] = 0 /\ h[n + 1] = g[n] + x
  BY <1>1, <1>2, <1>3 DEF Adds
<1>5. ASSUME NEW i \in 1 .. n + 1 PROVE h[i] = h[i - 1] + r[i]
  <2>1. CASE i = n + 1
    BY <1>1, <2>1
  <2>2. CASE i # n + 1
    <3>1. i \in 1 .. n /\ i - 1 \in 0 .. n /\ i - 1 # n + 1
      BY <1>1, <2>2
    <3>2. h[i] = g[i] /\ h[i - 1] = g[i - 1] /\ r[i] = q[i]
      BY <1>1, <3>1
    <3>3. QED
      BY <1>2, <3>1, <3>2 DEF Adds
  <2>3. QED
    BY <2>1, <2>2
<1>6. Adds(h, r, n + 1)
  <2> HIDE DEF h, r
  <2> QED
    BY <1>4, <1>5 DEF Adds
<1>7. SumOf(r) = h[n + 1]
  <2> HIDE DEF h, r
  <2> QED
    BY <1>1, <1>6, SumIsReached
<1>8. SumOf(q) = g[n]
  BY <1>1, <1>2, SumIsReached
<1>9. QED
  BY <1>4, <1>7, <1>8

\* A number that is taken from the front is taken off.
LEMMA SumOfRest ==
  ASSUME NEW q \in Seq(Int), q # <<>>
  PROVE  SumOf(Tail(q)) = SumOf(q) - Head(q)
<1> DEFINE n == Len(q)
           r == Tail(q)
<1>1. n \in Nat /\ n >= 1 /\ Len(r) = n - 1 /\ q[1] = Head(q) /\ q[1] \in Int
  BY EmptySeq
<1>2. \A i \in 1 .. n - 1 : r[i] = q[i + 1]
  BY HeadTailProperties, <1>1
<1>3. PICK g : Adds(g, q, n)
  BY SumExists
<1> DEFINE h == [i \in 0 .. n - 1 |-> g[i + 1] - q[1]]
<1>4. \A i \in 0 .. n - 1 : i + 1 \in 1 .. n /\ g[i + 1] \in Int
  BY <1>1, <1>3 DEF Adds
<1>5. h \in [0 .. n - 1 -> Int]
  BY <1>1, <1>4
<1>6. h[0] = 0
  <2>1. 1 \in 1 .. n /\ g[1] = g[0] + q[1] /\ g[0] = 0
    BY <1>1, <1>3 DEF Adds
  <2>2. QED
    BY <1>1, <2>1
<1>7. ASSUME NEW i \in 1 .. n - 1 PROVE h[i] = h[i - 1] + r[i]
  <2>1. i \in 0 .. n - 1 /\ i - 1 \in 0 .. n - 1 /\ (i - 1) + 1 = i /\ i + 1 \in 1 .. n /\ i \in 0 .. n
    BY <1>1
  <2>2. g[i + 1] = g[i] + q[i + 1] /\ g[i] \in Int
    BY <1>3, <2>1 DEF Adds
  <2>3. q[i + 1] \in Int
    BY <2>1
  <2>4. h[i] = g[i + 1] - q[1] /\ h[i - 1] = g[i] - q[1]
    BY <2>1
  <2>5. QED
    BY <1>1, <1>2, <2>2, <2>3, <2>4
<1>8. Adds(h, r, n - 1)
  <2> HIDE DEF h, r
  <2> QED
    BY <1>5, <1>6, <1>7 DEF Adds
<1>9. SumOf(r) = h[n - 1]
  <2> HIDE DEF h, r
  <2> QED
    BY <1>1, <1>8, SumIsReached
<1>10. SumOf(q) = g[n]
  BY <1>1, <1>3, SumIsReached
<1>11. n - 1 \in 0 .. n - 1 /\ (n - 1) + 1 = n
  BY <1>1
<1>12. QED
  BY <1>1, <1>9, <1>10, <1>11

\* Where all numbers but one are 0, the sum is that one.
LEMMA SumOfOne ==
  ASSUME NEW n \in Nat, NEW q, Len(q) = n, NEW s \in 1 .. n, q[s] \in Int,
         \A i \in 1 .. n : i # s => q[i] = 0
  PROVE  SumOf(q) = q[s]
<1> DEFINE g == [i \in 0 .. n |-> IF i < s THEN 0 ELSE q[s]]
<1>1. g \in [0 .. n -> Int] /\ g[0] = 0 /\ g[n] = q[s]
  OBVIOUS
<1>2. ASSUME NEW i \in 1 .. n PROVE g[i] = g[i - 1] + q[i]
  <2>1. i \in 0 .. n /\ i - 1 \in 0 .. n
    OBVIOUS
  <2>2. CASE i < s
    <3>1. i - 1 < s /\ i # s
      BY <2>2
    <3>2. g[i] = 0 /\ g[i - 1] = 0 /\ q[i] = 0
      BY <2>1, <2>2, <3>1
    <3>3. QED
      BY <3>2
  <2>3. CASE i = s
    <3>1. i - 1 < s /\ ~ (i < s)
      BY <2>3
    <3>2. g[i] = q[s] /\ g[i - 1] = 0
      BY <2>1, <3>1
    <3>3. QED
      BY <2>3, <3>2
  <2>4. CASE s < i
    <3>1. ~ (i - 1 < s) /\ ~ (i < s) /\ i # s
      BY <2>4
    <3>2. g[i] = q[s] /\ g[i - 1] = q[s] /\ q[i] = 0
      BY <2>1, <3>1
    <3>3. QED
      BY <3>2
  <2>5. QED
    BY <2>2, <2>3, <2>4
<1>3. Adds(g, q, n)
  <2> HIDE DEF g
  <2> QED
    BY <1>1, <1>2 DEF Adds
<1>4. SumOf(q) = g[n]
  <2> HIDE DEF g
  <2> QED
    BY <1>3, SumIsReached
<1>5. QED
  BY <1>1, <1>4

\* (short) yields a number.
LEMMA ShortType ==
  ASSUME NEW n \in Int
  PROVE  Short(n) \in Int
<1> DEFINE m == 2 * ShortMax + 2
           k == n + ShortMax + 1
<1>1. m \in Nat \ {0} /\ k \in Int
  BY AccountsAssumption
<1>2. \A i \in Int, j \in Nat \ {0} : i % j \in Int
  OBVIOUS
<1>3. k % m \in Int
  <2> HIDE DEF k, m
  <2> QED
    BY <1>1, <1>2
<1>4. Short(n) = (k % m) - (ShortMax + 1)
  BY DEF Short
<1>5. QED
  BY <1>3, <1>4, AccountsAssumption

-----------------------------------------------------------------------------
(* What the statements and the client do to the variables, and their types *)

AuthToken == [name : Names, state : TokenStates]

\* The first request of client c has become req; nothing else has changed.
HeadChanged(c, req) ==
  /\ http' \in [Clients -> Seq(HttpRequest)]
  /\ \A d \in Clients : d # c => http'[d] = http[d]
  /\ Len(http'[c]) = Len(http[c]) /\ 1 \in DOMAIN http[c]
  /\ http'[c][1] = req
  /\ \A i \in DOMAIN http[c] : i # 1 => http'[c][i] = http[c][i]

\* An answer to, or a step of, the first request changes no other.
LEMMA HeadChanges ==
  ASSUME TypeOK, NEW c \in Clients, http[c] # <<>>, NEW req \in HttpRequest, Becomes(c, req)
  PROVE  HeadChanged(c, req)
<1>1. http[c] \in Seq(HttpRequest) /\ http \in [Clients -> Seq(HttpRequest)]
  BY DEF TypeOK
<1>2. 1 \in 1 .. Len(http[c]) /\ DOMAIN http[c] = 1 .. Len(http[c])
  BY <1>1, EmptySeq
<1> DEFINE q == [http[c] EXCEPT ![1] = req]
<1>3. q \in Seq(HttpRequest) /\ Len(q) = Len(http[c])
      /\ \A j \in 1 .. Len(http[c]) : q[j] = IF j = 1 THEN req ELSE http[c][j]
  BY <1>1, <1>2, ExceptSeq
<1>4. http' = [http EXCEPT ![c] = q]
  BY DEF Becomes
<1>5. QED
  <2> HIDE DEF q
  <2>1. http'[c] = q /\ \A d \in Clients : d # c => http'[d] = http[d]
    BY <1>1, <1>4
  <2>2. http' \in [Clients -> Seq(HttpRequest)]
    BY <1>1, <1>3, <1>4
  <2>3. QED
    BY <1>2, <1>3, <2>1, <2>2 DEF HeadChanged

\* The first request of a client is a request, the first of its requests.
LEMMA HeadIsFirst ==
  ASSUME TypeOK, NEW c \in Clients, http[c] # <<>>
  PROVE  /\ 1 \in DOMAIN http[c]
         /\ Head(http[c]) = http[c][1]
         /\ Head(http[c]) \in HttpRequest
<1>1. http[c] \in Seq(HttpRequest)
  BY DEF TypeOK
<1>2. QED
  BY <1>1, EmptySeq

\* Tokens keep their names and their places; live ones of a set are deleted.
Aged(S, why) ==
  /\ tokens' \in Seq(AuthToken)
  /\ Len(tokens') = Len(tokens) /\ DOMAIN tokens' = DOMAIN tokens
  /\ \A t \in DOMAIN tokens :
       /\ tokens'[t].name = tokens[t].name
       /\ tokens'[t].state = IF t \in S /\ tokens[t].state = "live" THEN why ELSE tokens[t].state

\* A statement that deletes tokens does no more than that.
LEMMA DeletedAges ==
  ASSUME TypeOK, NEW S, NEW why \in TokenStates, Deleted(S, why)
  PROVE  Aged(S, why)
<1>1. tokens \in Seq(AuthToken) /\ DOMAIN tokens = 1 .. Len(tokens) /\ Len(tokens) \in Nat
  BY DEF TypeOK, AuthToken
<1>2. \A t \in 1 .. Len(tokens) : tokens[t] \in AuthToken
  BY <1>1
<1> DEFINE New(t) == IF t \in S /\ tokens[t].state = "live"
                     THEN [tokens[t] EXCEPT !.state = why] ELSE tokens[t]
<1>3. tokens' = [t \in 1 .. Len(tokens) |-> New(t)]
  BY <1>1 DEF Deleted
<1>4. \A t \in 1 .. Len(tokens) :
        /\ New(t) \in AuthToken
        /\ New(t).name = tokens[t].name
        /\ New(t).state = IF t \in S /\ tokens[t].state = "live" THEN why ELSE tokens[t].state
  BY <1>2 DEF AuthToken
<1>5. \A t \in 1 .. Len(tokens) : tokens'[t] = New(t)
  <2> HIDE DEF New
  <2> QED
    BY <1>3
<1>6. tokens' \in Seq(AuthToken) /\ Len(tokens') = Len(tokens) /\ DOMAIN tokens' = 1 .. Len(tokens)
  <2> HIDE DEF New
  <2> QED
    BY <1>1, <1>3, <1>4
<1>7. QED
  <2> HIDE DEF New
  <2> QED
    BY <1>1, <1>4, <1>5, <1>6 DEF Aged

\* Rows keep their names and passwords and their places.
SameAccounts ==
  /\ user' \in Seq(Row)
  /\ Len(user') = Len(user) /\ DOMAIN user' = DOMAIN user
  /\ \A i \in DOMAIN user : user'[i].name = user[i].name

\* The table holds rows.
LEMMA RowsAreRows ==
  ASSUME TypeOK
  PROVE  \A i \in DOMAIN user : user[i] \in Row
BY DEF TypeOK

\* Rows that a statement updates, one by one, stay rows.
LEMMA UpdatedRows ==
  ASSUME TypeOK, NEW f \in [DOMAIN user -> Row], user' = f,
         \A i \in DOMAIN user : f[i].name = user[i].name
  PROVE  SameAccounts
<1>1. DOMAIN user = 1 .. Len(user) /\ Len(user) \in Nat
  BY DEF TypeOK
<1>2. user' \in Seq(Row) /\ Len(user') = Len(user) /\ DOMAIN user' = DOMAIN user
  BY <1>1
<1>3. QED
  BY <1>2 DEF SameAccounts

\* A payment changes the chips of an account.
LEMMA PaymentKeepsAccounts ==
  ASSUME TypeOK, NEW name, NEW delta \in Int, Calc_user_money(name, delta)
  PROVE  /\ SameAccounts
         /\ \A i \in DOMAIN user :
              user'[i].chip = IF user[i].name = name THEN user[i].chip + delta ELSE user[i].chip
<1>1. \A i \in DOMAIN user : user[i] \in Row
  BY DEF TypeOK
<1> DEFINE New(i) == IF user[i].name = name THEN [user[i] EXCEPT !.chip = @ + delta] ELSE user[i]
<1>2. \A i \in DOMAIN user :
        /\ New(i) \in Row /\ New(i).name = user[i].name
        /\ New(i).chip = IF user[i].name = name THEN user[i].chip + delta ELSE user[i].chip
  BY <1>1 DEF Row
<1>3. user' = [i \in DOMAIN user |-> New(i)]
  BY DEF Calc_user_money
<1> HIDE DEF New
<1>4. \A i \in DOMAIN user : user'[i] = New(i)
  BY <1>3
<1>5. SameAccounts
  <2>1. user' \in [DOMAIN user -> Row] /\ \A i \in DOMAIN user : user'[i].name = user[i].name
    BY <1>2, <1>3
  <2>2. QED
    BY <2>1, UpdatedRows
<1>6. QED
  BY <1>2, <1>4, <1>5

\* No statement of the login server takes chips from an account.
NotPoorer == \A i \in DOMAIN user : user'[i].chip >= user[i].chip

\* A recharge credits accounts, and may be marked ...
LEMMA RechargeKeepsAccounts ==
  ASSUME TypeOK, NEW name, NEW money \in Nat, Recharged(name, money)
  PROVE  SameAccounts /\ NotPoorer
<1> DEFINE f == [i \in DOMAIN user |->
                  IF i \in Poor(name, money)
                  THEN [user[i] EXCEPT !.chip = @ + money, !.credits = @ + 1] ELSE user[i]]
<1>1. ASSUME NEW i \in DOMAIN user
      PROVE  f[i] \in Row /\ f[i].name = user[i].name /\ f[i].chip >= user[i].chip
  <2>1. PICK row \in Row : user[i] = row
    BY RowsAreRows
  <2> DEFINE new == [row EXCEPT !.chip = @ + money, !.credits = @ + 1]
  <2>2. row.chip \in Int /\ row.credits \in Nat /\ row.chip >= row.chip
    BY DEF Row
  <2>3. new \in Row /\ new.name = row.name /\ new.chip = row.chip + money
    <3> DEFINE a == row.chip + money
               b == row.credits + 1
    <3>1. a \in Int /\ b \in Nat
      BY <2>2
    <3>2. new = [row EXCEPT !.chip = a, !.credits = b]
      OBVIOUS
    <3> HIDE DEF a, b, new
    <3>3. new \in Row /\ new.name = row.name /\ new.chip = a
      BY <3>1, <3>2 DEF Row
    <3>4. QED
      BY <3>3 DEF a
  <2>4. f[i] = IF i \in Poor(name, money) THEN new ELSE row
    BY <2>1
  <2>5. QED
    <3> HIDE DEF new, f
    <3> QED
      BY <2>1, <2>2, <2>3, <2>4
<1>2. user' = f
  BY DEF Recharged
<1> HIDE DEF f
<1>3. f \in [DOMAIN user -> Row]
  BY <1>1 DEF f
<1>4. QED
  BY <1>1, <1>2, <1>3, UpdatedRows DEF NotPoorer

\* ... and its second statement marks the ones it found ...
LEMMA MarkKeepsAccounts ==
  ASSUME TypeOK, NEW name, NEW n, Marked(name, n)
  PROVE  SameAccounts /\ NotPoorer
<1> DEFINE f == [i \in DOMAIN user |->
                  IF n = 1 /\ i \in Poor(name, StartMoney)
                  THEN [user[i] EXCEPT !.recent = TRUE] ELSE user[i]]
<1>1. ASSUME NEW i \in DOMAIN user
      PROVE  f[i] \in Row /\ f[i].name = user[i].name /\ f[i].chip >= user[i].chip
  <2>1. PICK row \in Row : user[i] = row
    BY RowsAreRows
  <2> DEFINE new == [row EXCEPT !.recent = TRUE]
  <2>2. row.chip \in Int /\ row.credits \in Nat /\ row.chip >= row.chip
    BY DEF Row
  <2>3. new \in Row /\ new.name = row.name /\ new.chip = row.chip
    BY <2>2 DEF Row
  <2>4. f[i] = IF n = 1 /\ i \in Poor(name, StartMoney) THEN new ELSE row
    BY <2>1
  <2>5. QED
    <3> HIDE DEF new, f
    <3> QED
      BY <2>1, <2>2, <2>3, <2>4
<1>2. user' = f
  BY DEF Marked
<1> HIDE DEF f
<1>3. f \in [DOMAIN user -> Row]
  BY <1>1 DEF f
<1>4. QED
  BY <1>1, <1>2, <1>3, UpdatedRows DEF NotPoorer

\* ... until ten minutes have passed.
LEMMA MinutesKeepAccounts ==
  ASSUME TypeOK, TenMinutesPass
  PROVE  SameAccounts /\ NotPoorer
<1> DEFINE f == [i \in DOMAIN user |-> [user[i] EXCEPT !.recent = FALSE, !.credits = 0]]
<1>1. ASSUME NEW i \in DOMAIN user
      PROVE  f[i] \in Row /\ f[i].name = user[i].name /\ f[i].chip >= user[i].chip
  <2>1. PICK row \in Row : user[i] = row
    BY RowsAreRows
  <2> DEFINE new == [row EXCEPT !.recent = FALSE, !.credits = 0]
  <2>2. row.chip \in Int /\ row.credits \in Nat /\ row.chip >= row.chip
    BY DEF Row
  <2>3. new \in Row /\ new.name = row.name /\ new.chip = row.chip
    BY <2>2 DEF Row
  <2>4. f[i] = new
    BY <2>1
  <2>5. QED
    <3> HIDE DEF new, f
    <3> QED
      BY <2>1, <2>2, <2>3, <2>4
<1>2. user' = f
  BY DEF TenMinutesPass
<1> HIDE DEF f
<1>3. f \in [DOMAIN user -> Row]
  BY <1>1 DEF f
<1>4. QED
  BY <1>1, <1>2, <1>3, UpdatedRows DEF NotPoorer

\* A new account is the last one.
LEMMA CreatedAtEnd ==
  ASSUME TypeOK, NEW name \in Names, NEW pw \in Passwords, NEW chip \in Int,
         CreateUser(name, pw, chip)
  PROVE  /\ user' \in Seq(Row) /\ DOMAIN user = 1 .. Len(user) /\ Len(user) \in Nat
         /\ Len(user') = Len(user) + 1 /\ DOMAIN user' = DOMAIN user \cup {Len(user) + 1}
         /\ user'[Len(user) + 1].name = name
         /\ \A i \in DOMAIN user : user'[i] = user[i]
<1>1. user \in Seq(Row) /\ DOMAIN user = 1 .. Len(user) /\ Len(user) \in Nat
  BY DEF TypeOK
<1> DEFINE row == RowOf(name, pw, chip)
<1>2. row \in Row /\ row.name = name
  BY DEF RowOf, Row
<1>3. user' = Append(user, row)
  BY DEF CreateUser
<1> HIDE DEF row
<1>4. user' \in Seq(Row) /\ Len(user') = Len(user) + 1 /\ user'[Len(user) + 1] = row
      /\ \A i \in 1 .. Len(user) : user'[i] = user[i]
  BY <1>1, <1>2, <1>3, AppendProperties
<1>5. DOMAIN user' = 1 .. Len(user) + 1
  BY <1>4
<1>6. QED
  BY <1>1, <1>2, <1>4, <1>5

-----------------------------------------------------------------------------
(* Requests                                                                *)

\* With these results a dialogue shows the channels.
Granted == {"NONE", "CREATE_SUCCESS"}

HandedOut(t, toks) == t \in DOMAIN toks /\ toks[t].state # "refused"

\* A login that is answered with one of them got a token that was saved.
RequestOK(req, toks) ==
  req.kind = "login" =>
    /\ req.name \in Names /\ req.pw \in Passwords
    /\ req.step # "reply" => req.result \in Granted
    /\ req.step = "reply" /\ req.result \in Granted => HandedOut(req.token, toks)

\* Only the first request of a client is with the server.
RequestsOK ==
  \A c \in Clients : \A i \in DOMAIN http[c] :
    /\ RequestOK(http[c][i], tokens)
    /\ i # 1 => http[c][i].step = "sent"

\* Tokens keep place and name, and only live ones change their state.
TokensKept ==
  \A t \in DOMAIN tokens :
    /\ t \in DOMAIN tokens'
    /\ tokens'[t].name = tokens[t].name
    /\ \/ tokens'[t].state = tokens[t].state
       \/ tokens[t].state = "live" /\ tokens'[t].state \in {"left", "logout", "cleared"}

\* Tokens that are deleted keep place and name.
LEMMA AgedAreKept ==
  ASSUME NEW S, NEW why \in {"left", "logout", "cleared"}, Aged(S, why)
  PROVE  TokensKept
BY DEF Aged, TokensKept

\* A token that was saved stays one that was saved.
LEMMA HandedOutStays ==
  ASSUME TokensKept, NEW t, HandedOut(t, tokens)
  PROVE  HandedOut(t, tokens')
BY DEF TokensKept, HandedOut

\* A request that did not change is as good as it was.
LEMMA RequestStaysOK ==
  ASSUME TokensKept, NEW req, RequestOK(req, tokens)
  PROVE  RequestOK(req, tokens')
BY HandedOutStays DEF RequestOK

\* Where the first request of a client became a request that is as it should be,
\* all requests are.
LEMMA HeadKeepsRequests ==
  ASSUME TypeOK, RequestsOK, TokensKept, NEW c \in Clients, NEW req,
         HeadChanged(c, req), RequestOK(req, tokens')
  PROVE  RequestsOK'
<1>1. ASSUME NEW d \in Clients, NEW i \in DOMAIN http'[d]
      PROVE  RequestOK(http'[d][i], tokens') /\ (i # 1 => http'[d][i].step = "sent")
  <2>1. CASE d = c
    <3>1. DOMAIN http'[c] = DOMAIN http[c]
      BY DEF HeadChanged, TypeOK
    <3>2. CASE i = 1
      BY <2>1, <3>2 DEF HeadChanged
    <3>3. CASE i # 1
      <4>1. i \in DOMAIN http[c] /\ http'[c][i] = http[c][i]
        BY <2>1, <3>1, <3>3 DEF HeadChanged
      <4>2. RequestOK(http[c][i], tokens) /\ http[c][i].step = "sent"
        BY <4>1, <3>3 DEF RequestsOK
      <4>3. RequestOK(http[c][i], tokens')
        BY <4>1, <4>2, <3>3, <2>1, RequestStaysOK
      <4>4. QED
        BY <2>1, <4>1, <4>2, <4>3
    <3>4. QED
      BY <3>2, <3>3
  <2>2. CASE d # c
    <3>1. http'[d] = http[d] /\ i \in DOMAIN http[d]
      BY <2>2 DEF HeadChanged
    <3>2. QED
      BY <3>1, RequestStaysOK DEF RequestsOK
  <2>3. QED
    BY <2>1, <2>2
<1>2. QED
  BY <1>1 DEF RequestsOK

-----------------------------------------------------------------------------
(* The login server's steps                                                *)

\* The first request of client c has been carried on, to req.
CarriedOn(c, req) ==
  /\ HeadChanged(c, req)
  /\ RequestOK(req, tokens')
  /\ http[c][1].step # "reply"
  /\ req.kind = http[c][1].kind /\ req.stale = http[c][1].stale /\ req.name = http[c][1].name

\* What is known of the first request of a client.
LEMMA FirstRequest ==
  ASSUME TypeOK, RequestsOK, NEW c \in Clients, http[c] # <<>>
  PROVE  /\ 1 \in DOMAIN http[c] /\ Head(http[c]) = http[c][1]
         /\ http[c][1] \in HttpRequest /\ RequestOK(http[c][1], tokens)
<1>1. 1 \in DOMAIN http[c] /\ Head(http[c]) = http[c][1] /\ http[c][1] \in HttpRequest
  BY HeadIsFirst
<1>2. RequestOK(http[c][1], tokens)
  BY <1>1 DEF RequestsOK
<1>3. QED
  BY <1>1, <1>2

\* The number of a row found, and the greatest one
LEMMA RowFound ==
  ASSUME TypeOK, NEW name, SearchUser(name) # {}
  PROVE  /\ Min(SearchUser(name)) \in SearchUser(name)
         /\ Min(SearchUser(name)) \in DOMAIN user
         /\ user[Min(SearchUser(name))] \in Row
         /\ user[Max(SearchUser(name))].chip \in Int
<1> DEFINE S == SearchUser(name)
           n == Len(user)
<1>1. S \subseteq 1 .. n /\ n \in Nat /\ DOMAIN user = 1 .. n
  BY DEF SearchUser, TypeOK
<1>2. Min(S) \in S
  BY <1>1, LeastMember
<1> DEFINE T == {n - x : x \in S}
<1>3. T \in SUBSET Nat /\ T # {}
  BY <1>1
<1>4. Min(T) \in T /\ \A y \in T : Min(T) <= y
  <2> HIDE DEF T
  <2> QED
    BY <1>3, LeastMember
<1>5. PICK m \in S : \A y \in T : n - m <= y
  BY <1>4
<1>6. \A x \in S : m >= x
  <2>1. ASSUME NEW x \in S PROVE m >= x
    <3>1. n - m <= n - x /\ x \in Int /\ m \in Int
      BY <1>1, <1>5
    <3>2. QED
      BY <1>1, <3>1
  <2>2. QED
    BY <2>1
<1>7. Max(S) \in S
  BY <1>6 DEF Max
<1>8. \A i \in S : user[i] \in Row /\ user[i].chip \in Int
  <2>1. \A i \in S : user[i] \in Row
    BY <1>1, RowsAreRows
  <2>2. QED
    BY <2>1 DEF Row
<1>9. QED
  BY <1>1, <1>2, <1>7, <1>8

\* A login that finds no account goes on to create one; one that finds it goes on
\* to its token, or is refused.
LEMMA LoginSearchStep ==
  ASSUME TypeOK, RequestsOK, NEW c \in Clients, LoginSearch(c)
  PROVE  \E req : CarriedOn(c, req) /\ (req.step = "create" => SearchUser(req.name) = {})
<1> DEFINE req == Head(http[c])
           rows == SearchUser(req.name)
<1>1. http[c] # <<>> /\ req.kind = "login" /\ req.step = "sent" /\ tokens' = tokens
  BY DEF LoginSearch, At
<1>2. req = http[c][1] /\ req \in HttpRequest /\ RequestOK(req, tokens)
  BY <1>1, FirstRequest
<1>3. SUFFICES ASSUME NEW new \in HttpRequest, Becomes(c, new), RequestOK(new, tokens),
                      new.kind = req.kind, new.stale = req.stale, new.name = req.name,
                      new.step = "create" => rows = {}
               PROVE  CarriedOn(c, new) /\ (new.step = "create" => SearchUser(new.name) = {})
  <2>1. CASE rows = {} /\ Becomes(c, [req EXCEPT !.step = "create"])
    <3> DEFINE new == [req EXCEPT !.step = "create"]
    <3>1. new \in HttpRequest /\ new.kind = req.kind /\ new.stale = req.stale /\ new.name = req.name
      BY <1>2 DEF HttpRequest
    <3>2. RequestOK(new, tokens)
      BY <1>1, <1>2 DEF RequestOK, HttpRequest
    <3>3. QED
      BY <1>3, <2>1, <3>1, <3>2
  <2>2. CASE Becomes(c, [req EXCEPT !.step = "reply", !.result = "INVALID_PW"])
    <3> DEFINE new == [req EXCEPT !.step = "reply", !.result = "INVALID_PW"]
    <3>1. /\ new \in HttpRequest /\ new.kind = req.kind /\ new.stale = req.stale
          /\ new.name = req.name /\ new.step = "reply"
      BY <1>2 DEF HttpRequest
    <3>2. RequestOK(new, tokens)
      BY <1>1, <1>2 DEF RequestOK, HttpRequest, Granted
    <3>3. QED
      BY <1>3, <2>2, <3>1, <3>2
  <2>3. CASE rows # {} /\ Becomes(c, [req EXCEPT !.step = "save", !.chip = Short(user[Min(rows)].chip)])
    <3> DEFINE chip == Short(user[Min(rows)].chip)
               new == [req EXCEPT !.step = "save", !.chip = chip]
    <3>1. chip \in Int
      <4>1. user[Min(rows)] \in Row
        BY <2>3, RowFound
      <4>2. user[Min(rows)].chip \in Int
        BY <4>1 DEF Row
      <4>3. QED
        BY <4>2, ShortType
    <3> HIDE DEF chip
    <3>2. /\ new \in HttpRequest /\ new.kind = req.kind /\ new.stale = req.stale
          /\ new.name = req.name /\ new.step = "save"
      BY <1>2, <3>1 DEF HttpRequest
    <3>3. RequestOK(new, tokens)
      BY <1>1, <1>2 DEF RequestOK, HttpRequest
    <3>4. Becomes(c, new)
      BY <2>3 DEF chip
    <3>5. QED
      BY <1>3, <3>2, <3>3, <3>4
  <2>4. QED
    BY <2>1, <2>2, <2>3 DEF LoginSearch
<1>4. HeadChanged(c, new)
  BY <1>1, <1>3, HeadChanges
<1>5. QED
  BY <1>1, <1>2, <1>3, <1>4 DEF CarriedOn

\* A login that found no account creates one.
LEMMA LoginCreateStep ==
  ASSUME TypeOK, RequestsOK, NEW c \in Clients, LoginCreate(c)
  PROVE  /\ http[c][1].kind = "login" /\ http[c][1].step = "create"
         /\ http[c] # <<>>
         /\ http[c][1].name \in Names /\ http[c][1].pw \in Passwords
         /\ CreateUser(http[c][1].name, http[c][1].pw, Money) /\ Money \in Int
         /\ \E req : CarriedOn(c, req) /\ req.step = "save"
<1> DEFINE req == Head(http[c])
           new == [req EXCEPT !.step = "save", !.chip = Money, !.result = "CREATE_SUCCESS"]
<1>1. http[c] # <<>> /\ req.kind = "login" /\ req.step = "create" /\ tokens' = tokens
  BY DEF LoginCreate, At
<1>2. req = http[c][1] /\ req \in HttpRequest /\ RequestOK(req, tokens)
  BY <1>1, FirstRequest
<1>3. Money \in Int
  BY AccountsAssumption DEF Money
<1>4. /\ new \in HttpRequest /\ new.kind = req.kind /\ new.stale = req.stale
      /\ new.name = req.name /\ new.step = "save"
  BY <1>2, <1>3 DEF HttpRequest
<1>5. RequestOK(new, tokens)
  BY <1>1, <1>2 DEF RequestOK, HttpRequest, Granted
<1>6. Becomes(c, new) /\ CreateUser(req.name, req.pw, Money)
  BY DEF LoginCreate
<1>7. req.name \in Names /\ req.pw \in Passwords
  BY <1>1, <1>2 DEF RequestOK
<1>8. QED
  <2> HIDE DEF new
  <2>1. HeadChanged(c, new)
    BY <1>1, <1>4, <1>6, HeadChanges
  <2>2. CarriedOn(c, new)
    BY <1>1, <1>2, <1>4, <1>5, <2>1 DEF CarriedOn
  <2>3. QED
    BY <1>1, <1>2, <1>3, <1>4, <1>6, <1>7, <2>2

\* A token is drawn, and saved unless the account has a live one.
Drawn(name) ==
  /\ name \in Names
  /\ tokens' \in Seq(AuthToken) /\ Len(tokens) < MaxTokens
  /\ Len(tokens') = Len(tokens) + 1 /\ DOMAIN tokens' = DOMAIN tokens \cup {Len(tokens) + 1}
  /\ tokens'[Len(tokens) + 1] = [name |-> name, state |-> Saved(name)]
  /\ \A t \in DOMAIN tokens : tokens'[t] = tokens[t]

\* A token that is drawn leaves the others as they are.
LEMMA DrawnAreKept ==
  ASSUME NEW name, Drawn(name)
  PROVE  TokensKept
BY DEF Drawn, TokensKept

\* The login is answered with a token that was just drawn.
LEMMA LoginSaveStep ==
  ASSUME TypeOK, RequestsOK, NEW c \in Clients, LoginSave(c)
  PROVE  /\ \E name : Drawn(name)
         /\ \E req : CarriedOn(c, req) /\ req.step = "reply"
<1> DEFINE req == Head(http[c])
           state == Saved(req.name)
           n == Len(tokens) + 1
           result == LoginResult(req.result, state)
           new == [req EXCEPT !.step = "reply", !.token = n, !.result = result]
<1>1. http[c] # <<>> /\ req.kind = "login" /\ req.step = "save" /\ Len(tokens) < MaxTokens
  BY DEF LoginSave, At
<1>2. req = http[c][1] /\ req \in HttpRequest /\ RequestOK(req, tokens)
  BY <1>1, FirstRequest
<1>3. req.name \in Names /\ req.result \in Granted
  BY <1>1, <1>2 DEF RequestOK
<1>4. state \in {"refused", "live"} /\ [name |-> req.name, state |-> state] \in AuthToken
  BY <1>3 DEF Saved, AuthToken, TokenStates
<1>5. tokens \in Seq(AuthToken) /\ Len(tokens) \in Nat /\ DOMAIN tokens = 1 .. Len(tokens)
  BY DEF TypeOK, AuthToken
<1>6. Drawn(req.name)
  <2> DEFINE token == [name |-> req.name, state |-> state]
  <2>1. tokens' = Append(tokens, token)
    BY DEF LoginSave
  <2>2. token \in AuthToken
    BY <1>4
  <2> HIDE DEF token
  <2>3. /\ tokens' \in Seq(AuthToken) /\ Len(tokens') = Len(tokens) + 1
        /\ tokens'[Len(tokens) + 1] = token
        /\ \A t \in 1 .. Len(tokens) : tokens'[t] = tokens[t]
    BY <1>5, <2>1, <2>2, AppendProperties
  <2>4. DOMAIN tokens' = 1 .. Len(tokens) + 1
    BY <2>3
  <2>5. QED
    BY <1>1, <1>3, <1>5, <2>3, <2>4 DEF Drawn, token
<1>7. result \in {"NONE", "CREATE_SUCCESS", "AUTH_DUPLICATE"}
      /\ (result \in Granted => state # "refused")
  BY <1>3 DEF LoginResult, Granted
<1>8. n \in DOMAIN tokens' /\ tokens'[n].state = state /\ n \in Nat
  BY <1>5, <1>6 DEF Drawn
<1>9. Becomes(c, new)
  BY DEF LoginSave
<1>10. /\ new \in HttpRequest /\ new.kind = req.kind /\ new.stale = req.stale
       /\ new.name = req.name /\ new.pw = req.pw /\ new.step = "reply"
       /\ new.token = n /\ new.result = result
  <2> HIDE DEF n, result
  <2> QED
    BY <1>2, <1>7, <1>8 DEF HttpRequest
<1>11. RequestOK(new, tokens')
  <2>1. HandedOut(n, tokens') \/ result \notin Granted
    BY <1>7, <1>8 DEF HandedOut
  <2>2. req.pw \in Passwords
    BY <1>1, <1>2 DEF RequestOK
  <2> HIDE DEF n, result, new
  <2>3. QED
    BY <1>1, <1>3, <1>10, <2>1, <2>2 DEF RequestOK
<1>12. QED
  <2> HIDE DEF new
  <2>1. HeadChanged(c, new)
    BY <1>1, <1>9, <1>10, HeadChanges
  <2>2. CarriedOn(c, new)
    BY <1>1, <1>2, <1>10, <1>11, <2>1 DEF CarriedOn
  <2>3. QED
    BY <1>6, <1>10, <2>2

\* A request other than a login, or one that fails, is answered.
LEMMA OtherSteps ==
  ASSUME TypeOK, RequestsOK, NEW c \in Clients, http[c] # <<>>, http[c][1].step # "reply",
         TokensKept, NEW new \in HttpRequest, Becomes(c, new),
         new.kind = http[c][1].kind, new.stale = http[c][1].stale, new.name = http[c][1].name,
         \/ new.kind # "login"
         \/ new.pw = http[c][1].pw /\ new.step = "reply" /\ new.result \notin Granted
  PROVE  CarriedOn(c, new)
<1>1. HeadChanged(c, new)
  BY HeadChanges
<1>2. RequestOK(http[c][1], tokens)
  BY FirstRequest
<1>3. RequestOK(new, tokens')
  BY <1>2 DEF RequestOK
<1>4. QED
  BY <1>1, <1>3 DEF CarriedOn

\* A logout deletes the token it names.
LEMMA LogoutStep ==
  ASSUME TypeOK, RequestsOK, NEW c \in Clients, Logout(c)
  PROVE  /\ \E t : Aged({t}, "logout")
         /\ \E req : CarriedOn(c, req) /\ req.step = "reply"
<1> DEFINE req == Head(http[c])
           new == [req EXCEPT !.step = "reply"]
<1>1. http[c] # <<>> /\ req.kind = "logout" /\ req.step = "sent" /\ Becomes(c, new)
  BY DEF Logout, At
<1>2. req = http[c][1] /\ req \in HttpRequest
  BY <1>1, FirstRequest
<1>3. Aged({req.token}, "logout")
  BY DeletedAges DEF Logout, TokenStates
<1>4. TokensKept
  BY <1>3, AgedAreKept
<1>5. /\ new \in HttpRequest /\ new.kind = req.kind /\ new.stale = req.stale
      /\ new.name = req.name /\ new.step = "reply"
  BY <1>2 DEF HttpRequest
<1>6. CarriedOn(c, new)
  <2> HIDE DEF new
  <2> QED
    BY <1>1, <1>2, <1>4, <1>5, OtherSteps
<1>7. QED
  BY <1>3, <1>5, <1>6

\* A recharge credits the account ...
LEMMA RechargeAddStep ==
  ASSUME TypeOK, RequestsOK, NEW c \in Clients, RechargeAdd(c)
  PROVE  /\ SameAccounts /\ NotPoorer
         /\ \E req : CarriedOn(c, req) /\ req.step = "mark"
<1> DEFINE req == Head(http[c])
           n == Cardinality(Poor(req.name, Money))
           new == [req EXCEPT !.step = "mark", !.chip = n]
<1>1. http[c] # <<>> /\ req.kind = "recharge" /\ req.step = "sent" /\ tokens' = tokens /\ Becomes(c, new)
  BY DEF RechargeAdd, At
<1>2. req = http[c][1] /\ req \in HttpRequest
  BY <1>1, FirstRequest
<1>3. Money \in Nat
  BY AccountsAssumption DEF Money
<1>4. SameAccounts /\ NotPoorer
  BY <1>3, RechargeKeepsAccounts DEF RechargeAdd
<1>5. n \in Int
  <2>1. DOMAIN user = 1 .. Len(user) /\ Len(user) \in Nat
    BY DEF TypeOK
  <2>2. IsFiniteSet(DOMAIN user)
    BY <2>1, FS_Interval
  <2>3. Poor(req.name, Money) \in SUBSET DOMAIN user
    BY DEF Poor
  <2>4. QED
    BY <2>2, <2>3, FS_Subset, FS_CardinalityType
<1> HIDE DEF n
<1>6. /\ new \in HttpRequest /\ new.kind = req.kind /\ new.stale = req.stale
      /\ new.name = req.name /\ new.step = "mark"
  BY <1>2, <1>5 DEF HttpRequest
<1>7. TokensKept
  BY <1>1 DEF TokensKept
<1>8. CarriedOn(c, new)
  <2> HIDE DEF new
  <2> QED
    BY <1>1, <1>2, <1>6, <1>7, OtherSteps
<1>9. QED
  BY <1>4, <1>6, <1>8

\* ... and is answered with its chips.
LEMMA RechargeMarkStep ==
  ASSUME TypeOK, RequestsOK, NEW c \in Clients, RechargeMark(c)
  PROVE  /\ SameAccounts /\ NotPoorer
         /\ \E req : CarriedOn(c, req) /\ req.step = "reply"
<1> DEFINE req == Head(http[c])
           rows == SearchUser(req.name)
           chip == IF rows = {} THEN 0 ELSE user[Max(rows)].chip
           new == [req EXCEPT !.step = "reply", !.chip = chip]
<1>1. http[c] # <<>> /\ req.kind = "recharge" /\ req.step = "mark" /\ tokens' = tokens /\ Becomes(c, new)
  BY DEF RechargeMark, At
<1>2. req = http[c][1] /\ req \in HttpRequest
  BY <1>1, FirstRequest
<1>3. SameAccounts /\ NotPoorer
  BY MarkKeepsAccounts DEF RechargeMark
<1>4. chip \in Int
  BY RowFound
<1> HIDE DEF chip
<1>5. /\ new \in HttpRequest /\ new.kind = req.kind /\ new.stale = req.stale
      /\ new.name = req.name /\ new.step = "reply"
  BY <1>2, <1>4 DEF HttpRequest
<1>6. TokensKept
  BY <1>1 DEF TokensKept
<1>7. CarriedOn(c, new)
  <2> HIDE DEF new
  <2> QED
    BY <1>1, <1>2, <1>5, <1>6, OtherSteps
<1>8. QED
  BY <1>3, <1>5, <1>7

\* A request that fails is answered with an exception.
LEMMA RequestFailsStep ==
  ASSUME TypeOK, RequestsOK, NEW c \in Clients, RequestFails(c)
  PROVE  \E req : CarriedOn(c, req) /\ req.step = "reply"
<1> DEFINE req == Head(http[c])
           new == [req EXCEPT !.step = "reply", !.result = "EXCEPTION"]
<1>1. http[c] # <<>> /\ req.step # "reply" /\ tokens' = tokens /\ Becomes(c, new)
  BY DEF RequestFails
<1>2. req = http[c][1] /\ req \in HttpRequest
  BY <1>1, FirstRequest
<1>3. /\ new \in HttpRequest /\ new.kind = req.kind /\ new.stale = req.stale
      /\ new.name = req.name /\ new.pw = req.pw /\ new.step = "reply" /\ new.result \notin Granted
  BY <1>2 DEF HttpRequest, Granted
<1>4. TokensKept
  BY <1>1 DEF TokensKept
<1>5. CarriedOn(c, new)
  <2> HIDE DEF new
  <2> QED
    BY <1>1, <1>2, <1>3, <1>4, OtherSteps
<1>6. QED
  BY <1>3, <1>5

\* What a step of the server does to the requests of client c: nothing, or the
\* first one goes on, to "create" only when there is no account.
Progressed(c) ==
  \/ http'[c] = http[c]
  \/ /\ Len(http'[c]) = Len(http[c]) /\ 1 \in DOMAIN http[c]
     /\ http[c][1].step # "reply"
     /\ http'[c][1].kind = http[c][1].kind /\ http'[c][1].stale = http[c][1].stale
     /\ http'[c][1].step = "create" => SearchUser(http'[c][1].name) = {}
     /\ \A i \in DOMAIN http[c] : i # 1 => http'[c][i] = http[c][i]

\* The program ends: the requests it was working on are answered.
LEMMA RestartStep ==
  ASSUME TypeOK, RequestsOK, Restart
  PROVE  /\ http' \in [Clients -> Seq(HttpRequest)]
         /\ RequestsOK'
         /\ \A c \in Clients : Progressed(c)
<1>1. tokens' = tokens /\ http \in [Clients -> Seq(HttpRequest)]
  BY DEF Restart, TypeOK
<1> DEFINE cut(c) == http[c] # <<>> /\ Head(http[c]).step # "reply"
           new(c) == [Head(http[c]) EXCEPT !.step = "reply", !.result = "EMPTY"]
           failed(c) == [http[c] EXCEPT ![1].step = "reply", ![1].result = "EMPTY"]
<1>2. http' = [c \in Clients |-> IF cut(c) THEN failed(c) ELSE http[c]]
  BY DEF Restart
<1>3. ASSUME NEW c \in Clients, cut(c)
      PROVE  /\ failed(c) \in Seq(HttpRequest) /\ Len(failed(c)) = Len(http[c])
             /\ DOMAIN failed(c) = DOMAIN http[c]
             /\ 1 \in DOMAIN http[c] /\ http[c][1].step # "reply"
             /\ failed(c)[1].kind = http[c][1].kind /\ failed(c)[1].stale = http[c][1].stale
             /\ failed(c)[1].step = "reply" /\ RequestOK(failed(c)[1], tokens)
             /\ \A i \in DOMAIN http[c] : i # 1 => failed(c)[i] = http[c][i]
  <2>1. /\ 1 \in DOMAIN http[c] /\ Head(http[c]) = http[c][1]
        /\ http[c][1] \in HttpRequest /\ RequestOK(http[c][1], tokens)
    BY <1>3, FirstRequest
  <2>2. http[c] \in Seq(HttpRequest) /\ DOMAIN http[c] = 1 .. Len(http[c])
    BY <1>1
  <2> DEFINE r == [http[c][1] EXCEPT !.step = "reply"]
             q == [http[c] EXCEPT ![1] = r]
             s == [r EXCEPT !.result = "EMPTY"]
  <2>3. r \in HttpRequest /\ s \in HttpRequest
    BY <2>1 DEF HttpRequest
  <2>4. s.kind = http[c][1].kind /\ s.stale = http[c][1].stale /\ s.step = "reply" /\ s.result = "EMPTY"
        /\ s.name = http[c][1].name /\ s.pw = http[c][1].pw
    BY <2>1 DEF HttpRequest
  <2>5. failed(c) = [q EXCEPT ![1] = [q[1] EXCEPT !.result = "EMPTY"]]
    OBVIOUS
  <2> HIDE DEF r
  <2>6. q \in Seq(HttpRequest) /\ Len(q) = Len(http[c]) /\ q[1] = r
        /\ \A i \in 1 .. Len(http[c]) : i # 1 => q[i] = http[c][i]
    BY <2>1, <2>2, <2>3, ExceptSeq
  <2> HIDE DEF q, s
  <2>7. failed(c) = [q EXCEPT ![1] = s]
    BY <2>5, <2>6 DEF s
  <2>8. [q EXCEPT ![1] = s] \in Seq(HttpRequest) /\ Len([q EXCEPT ![1] = s]) = Len(q)
        /\ \A i \in 1 .. Len(q) : [q EXCEPT ![1] = s][i] = IF i = 1 THEN s ELSE q[i]
    BY <2>1, <2>2, <2>3, <2>6, ExceptSeq
  <2> HIDE DEF failed
  <2>9. RequestOK(s, tokens)
    BY <2>1, <2>4 DEF RequestOK, Granted
  <2>10. failed(c) \in Seq(HttpRequest) /\ Len(failed(c)) = Len(http[c])
         /\ failed(c)[1] = s /\ \A i \in DOMAIN http[c] : i # 1 => failed(c)[i] = http[c][i]
    BY <2>1, <2>2, <2>6, <2>7, <2>8
  <2>11. DOMAIN failed(c) = DOMAIN http[c]
    BY <2>2, <2>10
  <2>12. QED
    BY <1>3, <2>1, <2>4, <2>9, <2>10, <2>11
<1> HIDE DEF failed
<1>4. \A c \in Clients : http'[c] = IF cut(c) THEN failed(c) ELSE http[c]
  BY <1>2
<1>5. http' \in [Clients -> Seq(HttpRequest)]
  BY <1>1, <1>2, <1>3
<1>6. ASSUME NEW c \in Clients PROVE Progressed(c)
  <2>1. CASE cut(c)
    <3>1. http'[c] = failed(c)
      BY <1>4, <2>1
    <3>2. QED
      BY <1>3, <2>1, <3>1 DEF Progressed
  <2>2. CASE ~ cut(c)
    BY <1>4, <2>2 DEF Progressed
  <2>3. QED
    BY <2>1, <2>2
<1>7. ASSUME NEW c \in Clients, NEW i \in DOMAIN http'[c]
      PROVE  RequestOK(http'[c][i], tokens') /\ (i # 1 => http'[c][i].step = "sent")
  <2>1. CASE cut(c)
    <3>1. http'[c] = failed(c)
      BY <1>4, <2>1
    <3>2. QED
      BY <1>1, <1>3, <1>7, <2>1, <3>1 DEF RequestsOK
  <2>2. CASE ~ cut(c)
    BY <1>1, <1>4, <1>7, <2>2 DEF RequestsOK
  <2>3. QED
    BY <2>1, <2>2
<1>8. RequestsOK'
  BY <1>7 DEF RequestsOK
<1>9. QED
  BY <1>5, <1>6, <1>8

\* The types of the login server's variables.
AccountsType ==
  /\ user \in Seq(Row)
  /\ tokens \in Seq(AuthToken) /\ Len(tokens) <= MaxTokens
  /\ server \in {"starting", "configured", "running"}
  /\ http \in [Clients -> Seq(HttpRequest)]
  /\ \A c \in Clients : Len(http[c]) <= MaxRequests
  /\ events \in 0 .. MaxEvents

\* An account is created by client c, whose login has found none.
Created(c) ==
  /\ http[c] # <<>> /\ http[c][1].kind = "login" /\ http[c][1].step = "create"
  /\ http[c][1].name \in Names /\ http[c][1].pw \in Passwords
  /\ CreateUser(http[c][1].name, http[c][1].pw, Money) /\ Money \in Int
  /\ http'[c][1].step # "create"

\* What a step of the server does to the tables.
RowsKept == SameAccounts /\ NotPoorer
ServerDeletes == \E S : \E why \in {"logout", "cleared"} : Aged(S, why)

ServerDoes ==
  /\ RequestsOK' /\ \A c \in Clients : Progressed(c)
  /\ http' \in [Clients -> Seq(HttpRequest)]
  /\ RowsKept \/ \E c \in Clients : Created(c)
  /\ tokens' = tokens \/ ServerDeletes \/ \E name : Drawn(name)

\* The rows stay when the table does.
LEMMA RowsUnchanged ==
  ASSUME TypeOK, user' = user
  PROVE  RowsKept
<1>1. \A i \in DOMAIN user : user[i].chip \in Int
  BY RowsAreRows DEF Row
<1>2. user \in Seq(Row)
  BY DEF TypeOK
<1>3. QED
  BY <1>1, <1>2 DEF RowsKept, SameAccounts, NotPoorer

\* A request that is carried on is progress, and the others stay as they were.
LEMMA CarriedOnDoes ==
  ASSUME TypeOK, RequestsOK, TokensKept, NEW c \in Clients, NEW req, CarriedOn(c, req),
         req.step = "create" => SearchUser(req.name) = {}
  PROVE  /\ RequestsOK' /\ \A d \in Clients : Progressed(d)
         /\ http' \in [Clients -> Seq(HttpRequest)]
         /\ http'[c][1] = req
<1>1. HeadChanged(c, req) /\ RequestOK(req, tokens')
  BY DEF CarriedOn
<1>2. RequestsOK'
  BY <1>1, HeadKeepsRequests
<1>3. ASSUME NEW d \in Clients PROVE Progressed(d)
  <2>1. CASE d = c
    BY <2>1 DEF CarriedOn, HeadChanged, Progressed
  <2>2. CASE d # c
    BY <2>2 DEF CarriedOn, HeadChanged, Progressed
  <2>3. QED
    BY <2>1, <2>2
<1>4. QED
  BY <1>1, <1>2, <1>3 DEF HeadChanged

\* Where no request is touched, they stay as they were.
LEMMA NoRequestDoes ==
  ASSUME TypeOK, RequestsOK, TokensKept, http' = http
  PROVE  /\ RequestsOK' /\ \A d \in Clients : Progressed(d)
         /\ http' \in [Clients -> Seq(HttpRequest)]
<1>1. RequestsOK'
  BY RequestStaysOK DEF RequestsOK
<1>2. QED
  BY <1>1 DEF Progressed, TypeOK

\* Every step of the server does what ServerDoes says, and no more.
LEMMA ServerStepDoes ==
  ASSUME TypeOK, RequestsOK, ServerStep
  PROVE  ServerDoes
<1> USE DEF ServerDoes
<1>1. CASE ReadConfig
  <2>1. user' = user /\ tokens' = tokens /\ http' = http
    BY <1>1 DEF ReadConfig
  <2>2. TokensKept
    BY <2>1 DEF TokensKept
  <2>3. QED
    BY <2>1, <2>2, RowsUnchanged, NoRequestDoes
<1>2. CASE ClearAuthToken
  <2>1. user' = user /\ http' = http /\ Deleted(DOMAIN tokens, "cleared")
    BY <1>2 DEF ClearAuthToken
  <2>2. Aged(DOMAIN tokens, "cleared")
    BY <2>1, DeletedAges DEF TokenStates
  <2>3. TokensKept /\ ServerDeletes
    BY <2>2, AgedAreKept DEF ServerDeletes
  <2>4. QED
    BY <2>1, <2>3, RowsUnchanged, NoRequestDoes
<1>3. CASE ClearAuthTokenLoop
  <2>1. user' = user /\ http' = http
    BY <1>3 DEF ClearAuthTokenLoop
  <2>2. PICK last \in DOMAIN tokens : Deleted(OldTokens(last), "cleared")
    BY <1>3 DEF ClearAuthTokenLoop
  <2>3. Aged(OldTokens(last), "cleared")
    BY <2>2, DeletedAges DEF TokenStates
  <2>4. TokensKept /\ ServerDeletes
    BY <2>3, AgedAreKept DEF ServerDeletes
  <2>5. QED
    BY <2>1, <2>4, RowsUnchanged, NoRequestDoes
<1>4. CASE TenMinutesPass
  <2>1. tokens' = tokens /\ http' = http
    BY <1>4 DEF TenMinutesPass
  <2>2. TokensKept
    BY <2>1 DEF TokensKept
  <2>3. RowsKept
    BY <1>4, MinutesKeepAccounts DEF RowsKept
  <2>4. QED
    BY <2>1, <2>2, <2>3, NoRequestDoes
<1>5. CASE Restart
  <2>1. user' = user /\ tokens' = tokens
    BY <1>5 DEF Restart
  <2>2. QED
    BY <1>5, <2>1, RowsUnchanged, RestartStep
<1>6. ASSUME NEW c \in Clients, LoginSearch(c) PROVE ServerDoes
  <2>1. user' = user /\ tokens' = tokens
    BY <1>6 DEF LoginSearch
  <2>2. TokensKept
    BY <2>1 DEF TokensKept
  <2>3. PICK req : CarriedOn(c, req) /\ (req.step = "create" => SearchUser(req.name) = {})
    BY <1>6, LoginSearchStep
  <2>4. QED
    BY <2>1, <2>2, <2>3, RowsUnchanged, CarriedOnDoes
<1>7. ASSUME NEW c \in Clients, LoginCreate(c) PROVE ServerDoes
  <2>1. tokens' = tokens
    BY <1>7 DEF LoginCreate
  <2>2. TokensKept
    BY <2>1 DEF TokensKept
  <2>3. PICK req : CarriedOn(c, req) /\ req.step = "save"
    BY <1>7, LoginCreateStep
  <2>4. /\ RequestsOK' /\ \A d \in Clients : Progressed(d)
        /\ http' \in [Clients -> Seq(HttpRequest)] /\ http'[c][1] = req
    BY <2>2, <2>3, CarriedOnDoes
  <2>5. Created(c)
    BY <1>7, <2>3, <2>4, LoginCreateStep DEF Created
  <2>6. QED
    BY <2>1, <2>4, <2>5
<1>8. ASSUME NEW c \in Clients, LoginSave(c) PROVE ServerDoes
  <2>1. user' = user
    BY <1>8 DEF LoginSave
  <2>2. PICK name : Drawn(name)
    BY <1>8, LoginSaveStep
  <2>3. TokensKept
    BY <2>2, DrawnAreKept
  <2>4. PICK req : CarriedOn(c, req) /\ req.step = "reply"
    BY <1>8, LoginSaveStep
  <2>5. QED
    BY <2>1, <2>2, <2>3, <2>4, RowsUnchanged, CarriedOnDoes
<1>9. ASSUME NEW c \in Clients, Logout(c) PROVE ServerDoes
  <2>1. user' = user
    BY <1>9 DEF Logout
  <2>2. PICK t : Aged({t}, "logout")
    BY <1>9, LogoutStep
  <2>3. TokensKept /\ ServerDeletes
    BY <2>2, AgedAreKept DEF ServerDeletes
  <2>4. PICK req : CarriedOn(c, req) /\ req.step = "reply"
    BY <1>9, LogoutStep
  <2>5. QED
    BY <2>1, <2>3, <2>4, RowsUnchanged, CarriedOnDoes
<1>10. ASSUME NEW c \in Clients, RechargeAdd(c) PROVE ServerDoes
  <2>1. tokens' = tokens
    BY <1>10 DEF RechargeAdd
  <2>2. TokensKept
    BY <2>1 DEF TokensKept
  <2>3. PICK req : CarriedOn(c, req) /\ req.step = "mark"
    BY <1>10, RechargeAddStep
  <2>4. RowsKept
    BY <1>10, RechargeAddStep DEF RowsKept
  <2>5. QED
    BY <2>1, <2>2, <2>3, <2>4, CarriedOnDoes
<1>11. ASSUME NEW c \in Clients, RechargeMark(c) PROVE ServerDoes
  <2>1. tokens' = tokens
    BY <1>11 DEF RechargeMark
  <2>2. TokensKept
    BY <2>1 DEF TokensKept
  <2>3. PICK req : CarriedOn(c, req) /\ req.step = "reply"
    BY <1>11, RechargeMarkStep
  <2>4. RowsKept
    BY <1>11, RechargeMarkStep DEF RowsKept
  <2>5. QED
    BY <2>1, <2>2, <2>3, <2>4, CarriedOnDoes
<1>12. ASSUME NEW c \in Clients, RequestFails(c) PROVE ServerDoes
  <2>1. user' = user /\ tokens' = tokens
    BY <1>12 DEF RequestFails
  <2>2. TokensKept
    BY <2>1 DEF TokensKept
  <2>3. PICK req : CarriedOn(c, req) /\ req.step = "reply"
    BY <1>12, RequestFailsStep
  <2>4. QED
    BY <2>1, <2>2, <2>3, RowsUnchanged, CarriedOnDoes
<1>13. QED
  BY <1>1, <1>2, <1>3, <1>4, <1>5, <1>6, <1>7, <1>8, <1>9, <1>10, <1>11, <1>12 DEF ServerStep

\* What the server does keeps every token.
LEMMA ServerKeepsTokens ==
  ASSUME TypeOK, ServerDoes
  PROVE  TokensKept
<1>1. CASE tokens' = tokens
  BY <1>1 DEF TokensKept
<1>2. CASE ServerDeletes
  <2>1. PICK S : \E why \in {"logout", "cleared"} : Aged(S, why)
    BY <1>2 DEF ServerDeletes
  <2>2. PICK why \in {"logout", "cleared"} : Aged(S, why)
    BY <2>1
  <2>3. QED
    BY <2>2, AgedAreKept
<1>3. CASE \E name : Drawn(name)
  BY <1>3, DrawnAreKept
<1>4. QED
  BY <1>1, <1>2, <1>3 DEF ServerDoes

\* The server's steps keep the types of its variables.
LEMMA ServerType ==
  ASSUME TypeOK, RequestsOK, ServerStep
  PROVE  AccountsType'
<1>1. ServerDoes
  BY ServerStepDoes
<1>2. user' \in Seq(Row)
  <2>1. CASE RowsKept
    BY <2>1 DEF RowsKept, SameAccounts
  <2>2. ASSUME NEW c \in Clients, Created(c) PROVE user' \in Seq(Row)
    BY <2>2, CreatedAtEnd DEF Created
  <2>3. QED
    BY <1>1, <2>1, <2>2 DEF ServerDoes
<1>3. tokens' \in Seq(AuthToken) /\ Len(tokens') <= MaxTokens
  <2>1. tokens \in Seq(AuthToken) /\ Len(tokens) <= MaxTokens /\ Len(tokens) \in Nat /\ MaxTokens \in Nat
    BY AccountsAssumption DEF TypeOK, AuthToken
  <2>2. CASE tokens' = tokens
    BY <2>1, <2>2
  <2>3. CASE ServerDeletes
    <3>1. PICK S : \E why \in {"logout", "cleared"} : Aged(S, why)
      BY <2>3 DEF ServerDeletes
    <3>2. QED
      BY <2>1, <3>1 DEF Aged
  <2>4. CASE \E name : Drawn(name)
    <3>1. PICK name : Drawn(name)
      BY <2>4
    <3>2. QED
      BY <2>1, <3>1 DEF Drawn
  <2>5. QED
    BY <1>1, <2>2, <2>3, <2>4 DEF ServerDoes
<1>4. \A c \in Clients : Len(http'[c]) <= MaxRequests
  BY <1>1 DEF ServerDoes, Progressed, TypeOK
<1>5. server' \in {"starting", "configured", "running"}
  BY DEF TypeOK, ServerStep, ReadConfig, ClearAuthToken, ClearAuthTokenLoop, TenMinutesPass,
         Restart, LoginSearch, LoginCreate, LoginSave, Logout, RechargeAdd, RechargeMark, RequestFails
<1>6. events' \in 0 .. MaxEvents
  <2>1. events \in 0 .. MaxEvents /\ MaxEvents \in Nat
    BY AccountsAssumption DEF TypeOK
  <2>2. events' = events \/ Event
    BY DEF ServerStep, ReadConfig, ClearAuthToken, ClearAuthTokenLoop, TenMinutesPass,
           Restart, LoginSearch, LoginCreate, LoginSave, Logout, RechargeAdd, RechargeMark, RequestFails
  <2>3. QED
    BY <2>1, <2>2 DEF Event
<1>7. QED
  BY <1>1, <1>2, <1>3, <1>4, <1>5, <1>6 DEF AccountsType, ServerDoes, AuthToken

-----------------------------------------------------------------------------
(* The client's steps                                                      *)

\* The requests of one client, q, with the tokens toks
QueueOK(q, toks) ==
  /\ q \in Seq(HttpRequest)
  /\ \A i \in DOMAIN q : RequestOK(q[i], toks) /\ (i # 1 => q[i].step = "sent")

\* The requests whose answers change which buttons are enabled
IsAwaited(req) == ~ req.stale /\ req.kind \in {"login", "logout"}
Awaited(q) == {i \in DOMAIN q : IsAwaited(q[i])}

\* A request joins the others behind them.
LEMMA QueueGrows ==
  ASSUME NEW toks, NEW q, QueueOK(q, toks), NEW req \in HttpRequest, RequestOK(req, toks),
         req.step = "sent"
  PROVE  /\ QueueOK(Append(q, req), toks)
         /\ Len(Append(q, req)) = Len(q) + 1 /\ Len(q) \in Nat
         /\ IsAwaited(req) => Awaited(Append(q, req)) = Awaited(q) \cup {Len(q) + 1}
         /\ ~ IsAwaited(req) => Awaited(Append(q, req)) = Awaited(q)
<1> DEFINE r == Append(q, req)
           n == Len(q)
<1>1. q \in Seq(HttpRequest) /\ n \in Nat /\ DOMAIN q = 1 .. n
  BY DEF QueueOK
<1>2. r \in Seq(HttpRequest) /\ Len(r) = n + 1 /\ r[n + 1] = req /\ \A i \in 1 .. n : r[i] = q[i]
  BY <1>1, AppendProperties
<1>3. DOMAIN r = 1 .. n + 1 /\ DOMAIN r = DOMAIN q \cup {n + 1} /\ n + 1 \notin DOMAIN q
  BY <1>1, <1>2
<1> HIDE DEF r
<1>4. QueueOK(r, toks)
  BY <1>1, <1>2, <1>3 DEF QueueOK
<1>5. \A i \in DOMAIN r : i \in Awaited(r) <=> i \in Awaited(q) \/ (i = n + 1 /\ IsAwaited(req))
  BY <1>1, <1>2, <1>3 DEF Awaited
<1>6. Awaited(r) \subseteq DOMAIN r /\ Awaited(q) \subseteq DOMAIN r
  BY <1>3 DEF Awaited
<1>7. QED
  BY <1>1, <1>2, <1>3, <1>4, <1>5, <1>6 DEF r

\* The first request leaves.
LEMMA QueueMoves ==
  ASSUME NEW toks, NEW q, QueueOK(q, toks), q # <<>>
  PROVE  /\ QueueOK(Tail(q), toks)
         /\ Len(Tail(q)) <= Len(q) /\ Len(q) \in Nat /\ Len(Tail(q)) \in Nat
         /\ \A i \in Awaited(Tail(q)) : i + 1 \in Awaited(q) /\ i + 1 # 1
         /\ \A i \in Awaited(q) : i # 1 => i - 1 \in Awaited(Tail(q))
         /\ Awaited(q) \subseteq Nat /\ Awaited(Tail(q)) \subseteq Nat
         /\ q[1] = Head(q) /\ (1 \in Awaited(q) <=> IsAwaited(q[1]))
<1> DEFINE r == Tail(q)
           n == Len(q)
<1>1. q \in Seq(HttpRequest) /\ n \in Nat \ {0} /\ DOMAIN q = 1 .. n
  BY EmptySeq DEF QueueOK
<1>2. r \in Seq(HttpRequest) /\ Len(r) = n - 1 /\ \A i \in 1 .. n - 1 : r[i] = q[i + 1]
  BY <1>1, HeadTailProperties
<1>3. DOMAIN r = 1 .. n - 1 /\ q[1] = Head(q)
  BY <1>1, <1>2
<1> HIDE DEF r
<1>4. \A i \in 1 .. n - 1 : i + 1 \in 1 .. n /\ i + 1 # 1
  BY <1>1
<1>5. \A i \in 1 .. n : i # 1 => i - 1 \in 1 .. n - 1 /\ (i - 1) + 1 = i
  BY <1>1
<1>6. QueueOK(r, toks)
  BY <1>1, <1>2, <1>3, <1>4 DEF QueueOK
<1>7. \A i \in Awaited(r) : i + 1 \in Awaited(q) /\ i + 1 # 1
  BY <1>1, <1>2, <1>3, <1>4 DEF Awaited
<1>8. \A i \in Awaited(q) : i # 1 => i - 1 \in Awaited(r)
  <2>1. ASSUME NEW i \in Awaited(q), i # 1 PROVE i - 1 \in Awaited(r)
    <3>1. i \in 1 .. n /\ IsAwaited(q[i])
      BY <1>1 DEF Awaited
    <3>2. i - 1 \in 1 .. n - 1 /\ (i - 1) + 1 = i
      BY <1>5, <2>1, <3>1
    <3>3. r[i - 1] = q[i]
      BY <1>2, <3>2
    <3>4. QED
      BY <1>3, <3>1, <3>2, <3>3 DEF Awaited
  <2>2. QED
    BY <2>1
<1>9. Awaited(q) \subseteq Nat /\ Awaited(r) \subseteq Nat /\ (1 \in Awaited(q) <=> IsAwaited(q[1]))
  BY <1>1, <1>3 DEF Awaited
<1>10. QED
  BY <1>1, <1>2, <1>3, <1>6, <1>7, <1>8, <1>9 DEF r

\* A new scene waits for nothing.
LEMMA QueueGetsStale ==
  ASSUME NEW toks, NEW q, QueueOK(q, toks)
  PROVE  QueueOK(Stale(q), toks) /\ Len(Stale(q)) = Len(q) /\ Awaited(Stale(q)) = {}
<1> DEFINE n == Len(q)
           old(i) == [q[i] EXCEPT !.stale = TRUE]
<1>1. q \in Seq(HttpRequest) /\ n \in Nat /\ DOMAIN q = 1 .. n /\ \A i \in 1 .. n : q[i] \in HttpRequest
  BY DEF QueueOK
<1>2. \A i \in 1 .. n :
        /\ old(i) \in HttpRequest /\ old(i).stale = TRUE
        /\ old(i).kind = q[i].kind /\ old(i).step = q[i].step /\ old(i).name = q[i].name
        /\ old(i).pw = q[i].pw /\ old(i).result = q[i].result /\ old(i).token = q[i].token
  BY <1>1 DEF HttpRequest
<1>3. Stale(q) = [i \in 1 .. n |-> old(i)]
  BY <1>1 DEF Stale
<1> HIDE DEF old
<1>4. Stale(q) \in Seq(HttpRequest) /\ Len(Stale(q)) = n /\ DOMAIN Stale(q) = 1 .. n
      /\ \A i \in 1 .. n : Stale(q)[i] = old(i)
  BY <1>1, <1>2, <1>3
<1>5. \A i \in 1 .. n : RequestOK(old(i), toks) /\ (i # 1 => old(i).step = "sent")
  BY <1>1, <1>2 DEF QueueOK, RequestOK
<1>6. QueueOK(Stale(q), toks)
  BY <1>4, <1>5 DEF QueueOK
<1>7. Awaited(Stale(q)) = {}
  BY <1>2, <1>4 DEF Awaited, IsAwaited
<1>8. QED
  BY <1>4, <1>6, <1>7

\* The scene sc of a client with controls u and requests q: one login or logout
\* is under way exactly while the button that would start one is disabled, and
\* channels are shown with a token that was saved.
DialogueOK(sc, u, q, toks) ==
  /\ u.loginMenu => ~ u.shown
  /\ sc = "game" => u.loginMenu
  /\ u.loginMenu \/ u.shown <=> Awaited(q) = {}
  /\ \A i, j \in Awaited(q) : i = j
  /\ u.shown => HandedOut(u.token, toks)

DialoguesOK == \A c \in Clients : DialogueOK(scene[c], ui[c], http[c], tokens)

\* The first of the requests q is a login that creates an account of this name.
Creating(q, name) ==
  1 \in DOMAIN q /\ q[1].kind = "login" /\ q[1].step = "create" /\ q[1].name = name

\* The requests r of a client were q, and no other login has come to create.
Follows(r, q) == \A name \in Names : Creating(r, name) => Creating(q, name)

\* Whatever becomes of a client's requests on its own side, none of them becomes a
\* login that creates an account.
LEMMA QueuesFollow ==
  ASSUME NEW toks, NEW q, QueueOK(q, toks)
  PROVE  /\ Follows(q, q)
         /\ \A req \in HttpRequest : req.step = "sent" => Follows(Append(q, req), q)
         /\ q # <<>> => Follows(Tail(q), q) /\ Follows(Stale(Tail(q)), q)
         /\ Follows(Stale(q), q)
<1>1. q \in Seq(HttpRequest) /\ Len(q) \in Nat /\ DOMAIN q = 1 .. Len(q)
  BY DEF QueueOK
<1>2. ASSUME NEW req \in HttpRequest, req.step = "sent" PROVE Follows(Append(q, req), q)
  <2> DEFINE r == Append(q, req)
  <2>1. Len(r) = Len(q) + 1 /\ r[Len(q) + 1] = req /\ \A i \in 1 .. Len(q) : r[i] = q[i]
    BY <1>1, AppendProperties
  <2> HIDE DEF r
  <2>2. CASE Len(q) = 0
    <3>1. r[1] = req
      BY <2>1, <2>2
    <3>2. QED
      BY <1>2, <3>1 DEF Follows, Creating, r
  <2>3. CASE Len(q) # 0
    <3>1. 1 \in DOMAIN q /\ r[1] = q[1]
      BY <1>1, <2>1, <2>3
    <3>2. QED
      BY <3>1 DEF Follows, Creating, r
  <2>4. QED
    BY <2>2, <2>3
<1>3. ASSUME NEW r, QueueOK(r, toks) PROVE Follows(Stale(r), r)
  <2>1. DOMAIN Stale(r) = DOMAIN r
    BY DEF Stale
  <2>2. \A i \in DOMAIN r : r[i] \in HttpRequest /\ Stale(r)[i] = [r[i] EXCEPT !.stale = TRUE]
    BY <1>3 DEF Stale, QueueOK
  <2>3. \A i \in DOMAIN r : Stale(r)[i].kind = r[i].kind /\ Stale(r)[i].step = r[i].step
                            /\ Stale(r)[i].name = r[i].name
    BY <2>2 DEF HttpRequest
  <2>4. QED
    BY <2>1, <2>3 DEF Follows, Creating
<1>4. ASSUME q # <<>> PROVE Follows(Tail(q), q) /\ Follows(Stale(Tail(q)), q)
  <2>1. QueueOK(Tail(q), toks)
    BY <1>4, QueueMoves
  <2>2. \A i \in DOMAIN Tail(q) : i = 1 => Tail(q)[i].step = "sent"
    <3>1. \A i \in 1 .. Len(Tail(q)) : Tail(q)[i] = q[i + 1]
      BY <1>1, <1>4, HeadTailProperties
    <3>2. DOMAIN Tail(q) = 1 .. Len(q) - 1 /\ Len(Tail(q)) = Len(q) - 1
      BY <1>1, <1>4, EmptySeq
    <3>3. SUFFICES ASSUME 1 \in DOMAIN Tail(q) PROVE Tail(q)[1].step = "sent"
      OBVIOUS
    <3>4. 2 \in DOMAIN q /\ Tail(q)[1] = q[2]
      BY <1>1, <3>1, <3>2, <3>3
    <3>5. QED
      BY <3>4 DEF QueueOK
  <2>3. \A name \in Names : ~ Creating(Tail(q), name)
    BY <2>2 DEF Creating
  <2>4. Follows(Stale(Tail(q)), Tail(q))
    BY <1>3, <2>1
  <2>5. QED
    BY <2>3, <2>4 DEF Follows
<1>5. Follows(q, q)
  BY DEF Follows
<1>6. Follows(Stale(q), q)
  BY <1>3
<1>7. QED
  BY <1>2, <1>4, <1>5, <1>6

\* The step of client c touches nothing of the other clients, and its own
\* requests and dialogue stay as they should be.
OnlyOf(c) ==
  /\ http' \in [Clients -> Seq(HttpRequest)]
  /\ scene' \in [Clients -> {"login", "game"}]
  /\ ui' \in [Clients -> Scene]
  /\ \A d \in Clients : d # c => http'[d] = http[d] /\ scene'[d] = scene[d] /\ ui'[d] = ui[d]
  /\ QueueOK(http'[c], tokens) /\ Len(http'[c]) <= MaxRequests
  /\ DialogueOK(scene'[c], ui'[c], http'[c], tokens)
  /\ Follows(http'[c], http[c])

\* A step that sets requests, scene and controls of one client touches no other.
LEMMA SetsOnlyOf ==
  ASSUME TypeOK, NEW c \in Clients, NEW q, NEW sc \in {"login", "game"}, NEW u \in Scene,
         http' = [http EXCEPT ![c] = q], scene' = [scene EXCEPT ![c] = sc], ui' = [ui EXCEPT ![c] = u],
         QueueOK(q, tokens), Len(q) <= MaxRequests,
         DialogueOK(sc, u, q, tokens), Follows(q, http[c])
  PROVE  OnlyOf(c)
<1>1. /\ http \in [Clients -> Seq(HttpRequest)] /\ scene \in [Clients -> {"login", "game"}]
      /\ ui \in [Clients -> Scene] /\ q \in Seq(HttpRequest)
  BY DEF TypeOK, QueueOK
<1>2. http'[c] = q /\ scene'[c] = sc /\ ui'[c] = u
  BY <1>1
<1>3. \A d \in Clients : d # c => http'[d] = http[d] /\ scene'[d] = scene[d] /\ ui'[d] = ui[d]
  BY <1>1
<1>4. /\ http' \in [Clients -> Seq(HttpRequest)] /\ scene' \in [Clients -> {"login", "game"}]
      /\ ui' \in [Clients -> Scene]
  BY <1>1
<1>5. QED
  BY <1>2, <1>3, <1>4 DEF OnlyOf

\* A client before its step
LEMMA ClientBefore ==
  ASSUME TypeOK, RequestsOK, DialoguesOK, NEW c \in Clients
  PROVE  /\ QueueOK(http[c], tokens) /\ Len(http[c]) <= MaxRequests
         /\ scene[c] \in {"login", "game"} /\ ui[c] \in Scene
         /\ DialogueOK(scene[c], ui[c], http[c], tokens)
         /\ Follows(http[c], http[c])
<1>1. QueueOK(http[c], tokens)
  BY DEF TypeOK, RequestsOK, QueueOK
<1>2. QED
  BY <1>1, QueuesFollow DEF TypeOK, DialoguesOK

\* Controls may change as long as the dialogue stays the same.
LEMMA ControlsOnly ==
  ASSUME TypeOK, RequestsOK, DialoguesOK, NEW c \in Clients, NEW u \in Scene,
         http' = http, scene' = scene, ui' = [ui EXCEPT ![c] = u],
         u.loginMenu = ui[c].loginMenu, u.shown = ui[c].shown, u.token = ui[c].token
  PROVE  OnlyOf(c)
<1>1. /\ QueueOK(http[c], tokens) /\ Len(http[c]) <= MaxRequests
      /\ scene[c] \in {"login", "game"} /\ DialogueOK(scene[c], ui[c], http[c], tokens)
      /\ Follows(http[c], http[c])
  BY ClientBefore
<1>2. http' = [http EXCEPT ![c] = http[c]] /\ scene' = [scene EXCEPT ![c] = scene[c]]
  BY DEF TypeOK
<1>3. DialogueOK(scene[c], u, http[c], tokens)
  BY <1>1 DEF DialogueOK
<1>4. QED
  BY <1>1, <1>2, <1>3, SetsOnlyOf

\* A name is typed.
LEMMA TypeNameDoes ==
  ASSUME TypeOK, RequestsOK, DialoguesOK, NEW c \in Clients, NEW name \in Names \cup {NoName},
         TypeName(c, name)
  PROVE  OnlyOf(c)
<1> DEFINE u == [ui[c] EXCEPT !.name = name]
<1>1. ui[c] \in Scene
  BY DEF TypeOK
<1>2. u \in Scene /\ u.loginMenu = ui[c].loginMenu /\ u.shown = ui[c].shown /\ u.token = ui[c].token
  BY <1>1 DEF Scene
<1>3. http' = http /\ scene' = scene /\ ui' = [ui EXCEPT ![c] = u]
  BY DEF TypeName, accountVars
<1>4. QED
  <2> HIDE DEF u
  <2> QED
    BY <1>2, <1>3, ControlsOnly

\* The login button sends a login and is disabled until its answer comes.
LEMMA LoginButtonDoes ==
  ASSUME TypeOK, RequestsOK, DialoguesOK, NEW c \in Clients, NEW name \in Names,
         NEW pw \in Passwords, LoginButton(c, name, pw)
  PROVE  OnlyOf(c)
<1> DEFINE u == [ui[c] EXCEPT !.loginMenu = FALSE, !.name = name]
           req == Request("login", name, pw, 0)
           q == Append(http[c], req)
<1>1. ui[c] \in Scene /\ scene[c] \in {"login", "game"} /\ http[c] \in Seq(HttpRequest)
  BY DEF TypeOK
<1>2. u \in Scene /\ ~ u.loginMenu /\ u.shown = ui[c].shown
  BY <1>1 DEF Scene
<1>3. req \in HttpRequest /\ req.step = "sent" /\ IsAwaited(req)
      /\ req.kind = "login" /\ req.name = name /\ req.pw = pw /\ req.result = "NONE"
  BY DEF Request, HttpRequest, IsAwaited
<1>4. RequestOK(req, tokens)
  <2> HIDE DEF req
  <2> QED
    BY <1>3 DEF RequestOK, Granted
<1>5. /\ scene[c] = "login" /\ ui[c].loginMenu /\ Len(http[c]) < MaxRequests
      /\ http' = [http EXCEPT ![c] = q] /\ scene' = [scene EXCEPT ![c] = "login"]
  BY DEF LoginButton, Sent, TypeOK
<1>6. ui' = [ui EXCEPT ![c] = u]
  BY DEF LoginButton
<1>7. QueueOK(http[c], tokens) /\ DialogueOK(scene[c], ui[c], http[c], tokens)
  BY ClientBefore
<1> HIDE DEF u, req
<1>8. /\ QueueOK(q, tokens) /\ Len(q) = Len(http[c]) + 1 /\ Len(http[c]) \in Nat
      /\ Awaited(q) = Awaited(http[c]) \cup {Len(http[c]) + 1}
  BY <1>3, <1>4, <1>7, QueueGrows
<1>9. Follows(q, http[c])
  BY <1>3, <1>7, QueuesFollow
<1> HIDE DEF q
<1>10. DialogueOK("login", u, q, tokens)
  BY <1>2, <1>5, <1>7, <1>8 DEF DialogueOK
<1>11. Len(q) <= MaxRequests
  BY <1>5, <1>8, DialogueAssumption
<1>12. QED
  BY <1>2, <1>5, <1>6, <1>8, <1>9, <1>10, <1>11, SetsOnlyOf

\* The logout button hides the channels until its answer comes.
LEMMA LogoutButtonDoes ==
  ASSUME TypeOK, RequestsOK, DialoguesOK, NEW c \in Clients, LogoutButton(c)
  PROVE  OnlyOf(c)
<1> DEFINE u == PopDown(ui[c])
           req == Request("logout", NoName, NoName, ui[c].token)
           q == Append(http[c], req)
<1>1. ui[c] \in Scene /\ scene[c] \in {"login", "game"} /\ http[c] \in Seq(HttpRequest)
  BY DEF TypeOK
<1>2. u \in Scene /\ u.loginMenu = ui[c].loginMenu /\ ~ u.shown
  BY <1>1 DEF Scene, PopDown
<1>3. req \in HttpRequest /\ req.step = "sent" /\ IsAwaited(req) /\ req.kind = "logout"
  <2>1. ui[c].token \in Nat
    BY <1>1 DEF Scene
  <2>2. QED
    BY <2>1 DEF Request, HttpRequest, IsAwaited
<1>4. RequestOK(req, tokens)
  <2> HIDE DEF req
  <2> QED
    BY <1>3 DEF RequestOK
<1>5. /\ scene[c] = "login" /\ ui[c].shown /\ Len(http[c]) < MaxRequests
      /\ http' = [http EXCEPT ![c] = q] /\ scene' = [scene EXCEPT ![c] = "login"]
  BY DEF LogoutButton, Sent, TypeOK
<1>6. ui' = [ui EXCEPT ![c] = u]
  BY DEF LogoutButton
<1>7. QueueOK(http[c], tokens) /\ DialogueOK(scene[c], ui[c], http[c], tokens)
  BY ClientBefore
<1> HIDE DEF u, req
<1>8. /\ QueueOK(q, tokens) /\ Len(q) = Len(http[c]) + 1 /\ Len(http[c]) \in Nat
      /\ Awaited(q) = Awaited(http[c]) \cup {Len(http[c]) + 1}
  BY <1>3, <1>4, <1>7, QueueGrows
<1>9. Follows(q, http[c])
  BY <1>3, <1>7, QueuesFollow
<1> HIDE DEF q
<1>10. DialogueOK("login", u, q, tokens)
  BY <1>2, <1>5, <1>7, <1>8 DEF DialogueOK
<1>11. Len(q) <= MaxRequests
  BY <1>5, <1>8, DialogueAssumption
<1>12. QED
  BY <1>2, <1>5, <1>6, <1>8, <1>9, <1>10, <1>11, SetsOnlyOf

\* The recharge button sends a request no control waits for.
LEMMA RechargeButtonDoes ==
  ASSUME TypeOK, RequestsOK, DialoguesOK, NEW c \in Clients, RechargeButton(c)
  PROVE  OnlyOf(c)
<1> DEFINE req == Request("recharge", ui[c].name, NoName, 0)
           q == Append(http[c], req)
<1>1. ui[c] \in Scene /\ scene[c] \in {"login", "game"} /\ http[c] \in Seq(HttpRequest)
  BY DEF TypeOK
<1>2. req \in HttpRequest /\ req.step = "sent" /\ ~ IsAwaited(req) /\ req.kind = "recharge"
  <2>1. ui[c].name \in Names \cup {NoName}
    BY <1>1 DEF Scene
  <2>2. QED
    BY <2>1 DEF Request, HttpRequest, IsAwaited
<1>3. RequestOK(req, tokens)
  <2> HIDE DEF req
  <2> QED
    BY <1>2 DEF RequestOK
<1>4. /\ Len(http[c]) < MaxRequests /\ http' = [http EXCEPT ![c] = q]
      /\ scene' = [scene EXCEPT ![c] = scene[c]] /\ ui' = [ui EXCEPT ![c] = ui[c]]
  BY DEF RechargeButton, Sent, TypeOK, clientVars
<1>5. QueueOK(http[c], tokens) /\ DialogueOK(scene[c], ui[c], http[c], tokens)
  BY ClientBefore
<1> HIDE DEF req
<1>6. /\ QueueOK(q, tokens) /\ Len(q) = Len(http[c]) + 1 /\ Len(http[c]) \in Nat
      /\ Awaited(q) = Awaited(http[c])
  BY <1>2, <1>3, <1>5, QueueGrows
<1>7. Follows(q, http[c])
  BY <1>2, <1>5, QueuesFollow
<1> HIDE DEF q
<1>8. DialogueOK(scene[c], ui[c], q, tokens)
  BY <1>5, <1>6 DEF DialogueOK
<1>9. Len(q) <= MaxRequests
  BY <1>4, <1>6, DialogueAssumption
<1>10. QED
  BY <1>1, <1>4, <1>6, <1>7, <1>8, <1>9, SetsOnlyOf

\* What the controls become when an answer comes, res
Answering(u, res, v) ==
  /\ v \in Scene
  /\ IF IsAwaited(res)
     THEN /\ v.loginMenu <=> ~ v.shown
          /\ v.shown => u.shown \/ HandedOut(v.token, tokens)
     ELSE v.loginMenu = u.loginMenu /\ v.shown = u.shown /\ v.token = u.token

\* The dialogue after an answer.
LEMMA AnswerKeepsDialogue ==
  ASSUME TypeOK, RequestsOK, DialoguesOK, NEW c \in Clients, http[c] # <<>>, NEW v,
         Answering(ui[c], http[c][1], v)
  PROVE  DialogueOK(scene[c], v, Tail(http[c]), tokens)
<1> DEFINE q == http[c]
           u == ui[c]
           r == Tail(q)
<1>1. QueueOK(q, tokens) /\ DialogueOK(scene[c], u, q, tokens)
  BY ClientBefore
<1>2. /\ \A i \in Awaited(r) : i + 1 \in Awaited(q) /\ i + 1 # 1
      /\ \A i \in Awaited(q) : i # 1 => i - 1 \in Awaited(r)
      /\ Awaited(q) \subseteq Nat /\ Awaited(r) \subseteq Nat
      /\ 1 \in Awaited(q) <=> IsAwaited(q[1])
  BY <1>1, QueueMoves
<1>3. /\ v.loginMenu \in BOOLEAN /\ v.shown \in BOOLEAN
      /\ u.loginMenu \in BOOLEAN /\ u.shown \in BOOLEAN
  BY DEF TypeOK, Answering, Scene
<1>4. DialogueOK(scene[c], v, r, tokens) <=> DialogueOK(scene[c], v, Tail(http[c]), tokens)
  OBVIOUS
<1> HIDE DEF q, r, u
<1>5. CASE IsAwaited(q[1])
  <2>1. Awaited(r) = {}
    BY <1>1, <1>2, <1>5 DEF DialogueOK
  <2>2. ~ u.loginMenu /\ ~ u.shown /\ scene[c] # "game"
    BY <1>1, <1>2, <1>5 DEF DialogueOK
  <2>3. /\ v.loginMenu <=> ~ v.shown
        /\ v.shown => u.shown \/ HandedOut(v.token, tokens)
    BY <1>5 DEF Answering, q, u
  <2>4. DialogueOK(scene[c], v, r, tokens)
    BY <1>3, <2>1, <2>2, <2>3 DEF DialogueOK
  <2>5. QED
    BY <1>4, <2>4
<1>6. CASE ~ IsAwaited(q[1])
  <2>1. \A i \in Awaited(q) : i # 1
    BY <1>2, <1>6
  <2>2. Awaited(r) = {} <=> Awaited(q) = {}
    BY <1>2, <2>1
  <2>3. \A i, j \in Awaited(r) : i = j
    <3>1. ASSUME NEW i \in Awaited(r), NEW j \in Awaited(r) PROVE i = j
      <4>1. i \in Nat /\ j \in Nat /\ i + 1 \in Awaited(q) /\ j + 1 \in Awaited(q)
        BY <1>2
      <4>2. i + 1 = j + 1
        BY <1>1, <4>1 DEF DialogueOK
      <4>3. QED
        BY <4>1, <4>2
    <3>2. QED
      BY <3>1
  <2>4. v.loginMenu = u.loginMenu /\ v.shown = u.shown /\ v.token = u.token
    BY <1>6 DEF Answering, q, u
  <2>5. DialogueOK(scene[c], v, r, tokens)
    BY <1>1, <1>3, <2>2, <2>3, <2>4 DEF DialogueOK
  <2>6. QED
    BY <1>4, <2>5
<1>7. QED
  BY <1>5, <1>6

\* An answer changes the controls as it says.
LEMMA ResponseControls ==
  ASSUME TypeOK, RequestsOK, DialoguesOK, NEW c \in Clients, Response(c)
  PROVE  \E v : ui' = [ui EXCEPT ![c] = v] /\ Answering(ui[c], http[c][1], v)
<1> DEFINE u == ui[c]
           res == Head(http[c])
<1>1. /\ http[c] # <<>> /\ res.step = "reply" /\ ~ res.stale
      /\ ~ (res.kind = "login" /\ res.result = "EXCEPTION")
  BY DEF Response
<1>2. res = http[c][1] /\ res \in HttpRequest /\ RequestOK(res, tokens)
  BY <1>1, FirstRequest
<1>3. ui \in [Clients -> Scene] /\ u \in Scene
  BY DEF TypeOK
<1>4. DialogueOK(scene[c], u, http[c], tokens)
  BY ClientBefore
<1>5. IsAwaited(res) => ~ u.shown /\ ~ u.loginMenu
  <2>1. 1 \in DOMAIN http[c]
    BY <1>1, FirstRequest
  <2>2. IsAwaited(res) => 1 \in Awaited(http[c])
    BY <1>2, <2>1 DEF Awaited
  <2>3. QED
    BY <1>4, <2>2 DEF DialogueOK
<1>6. CASE res.kind = "login" /\ LoginResponse(c, res)
  <2> DEFINE p == Parsed(u, res)
  <2>1. IsAwaited(res)
    BY <1>1, <1>6 DEF IsAwaited
  <2>2. res.token \in Nat /\ res.chip \in Int
    BY <1>2 DEF HttpRequest
  <2>3. /\ p \in Scene /\ p.token = res.token /\ p.shown = u.shown
    BY <1>3, <2>2 DEF Parsed, Scene
  <2>4. \A x \in Scene : /\ LoginAgain(x) \in Scene /\ LoginAgain(x).loginMenu
                         /\ LoginAgain(x).shown = x.shown
                         /\ PopUp(x) \in Scene /\ ~ PopUp(x).loginMenu /\ PopUp(x).shown
                         /\ PopUp(x).token = x.token
    BY DEF LoginAgain, PopUp, Scene
  <2> HIDE DEF p
  <2>5. CASE res.result = "EMPTY"
    <3>1. ui' = [ui EXCEPT ![c] = LoginAgain(u)]
      BY <1>6, <2>5 DEF LoginResponse
    <3>2. Answering(u, res, LoginAgain(u))
      BY <1>3, <1>5, <2>1, <2>4 DEF Answering
    <3>3. QED
      BY <1>2, <3>1, <3>2
  <2>6. CASE res.result \in {"NONE", "CREATE_SUCCESS"}
    <3>1. ui' = [ui EXCEPT ![c] = PopUp(p)]
      BY <1>6, <2>6 DEF LoginResponse, p
    <3>2. HandedOut(res.token, tokens)
      BY <1>1, <1>2, <1>6, <2>6 DEF RequestOK, Granted
    <3>3. Answering(u, res, PopUp(p))
      BY <2>1, <2>3, <2>4, <3>2 DEF Answering
    <3>4. QED
      BY <1>2, <3>1, <3>3
  <2>7. CASE res.result \in {"INVALID_PW", "AUTH_DUPLICATE"}
    <3>1. ui' = [ui EXCEPT ![c] = LoginAgain(p)]
      BY <1>6, <2>7 DEF LoginResponse, p
    <3>2. Answering(u, res, LoginAgain(p))
      BY <1>5, <2>1, <2>3, <2>4 DEF Answering
    <3>3. QED
      BY <1>2, <3>1, <3>2
  <2>8. res.result \in {"NONE", "CREATE_SUCCESS", "INVALID_PW", "AUTH_DUPLICATE", "EMPTY"}
    BY <1>1, <1>2, <1>6 DEF HttpRequest
  <2>9. QED
    BY <2>5, <2>6, <2>7, <2>8
<1>7. CASE res.kind = "logout" /\ LogoutResponse(c)
  <2>1. ui' = [ui EXCEPT ![c] = LoginAgain(u)]
    BY <1>7 DEF LogoutResponse
  <2>2. LoginAgain(u) \in Scene /\ LoginAgain(u).loginMenu /\ LoginAgain(u).shown = u.shown
    BY <1>3 DEF LoginAgain, Scene
  <2>3. IsAwaited(res)
    BY <1>1, <1>7 DEF IsAwaited
  <2>4. Answering(u, res, LoginAgain(u))
    BY <1>5, <2>2, <2>3 DEF Answering
  <2>5. QED
    BY <1>2, <2>1, <2>4
<1>8. CASE res.kind = "recharge" /\ RechargeResponse(c, res)
  <2>1. ~ IsAwaited(res)
    BY <1>8 DEF IsAwaited
  <2> DEFINE v == [u EXCEPT !.chip = res.chip]
  <2>2. res.chip \in Int
    BY <1>2 DEF HttpRequest
  <2>3. v \in Scene /\ v.loginMenu = u.loginMenu /\ v.shown = u.shown /\ v.token = u.token
    BY <1>3, <2>2 DEF Scene
  <2>4. ui' = [ui EXCEPT ![c] = v] \/ ui' = [ui EXCEPT ![c] = u]
    BY <1>3, <1>8 DEF RechargeResponse
  <2> HIDE DEF v
  <2>5. Answering(u, res, v) /\ Answering(u, res, u)
    BY <1>3, <2>1, <2>3 DEF Answering
  <2>6. QED
    BY <1>2, <2>4, <2>5
<1>9. QED
  BY <1>6, <1>7, <1>8 DEF Response

\* An answer is taken by the scene it was asked for ...
LEMMA ResponseDoes ==
  ASSUME TypeOK, RequestsOK, DialoguesOK, NEW c \in Clients, Response(c)
  PROVE  OnlyOf(c)
<1>1. PICK v : ui' = [ui EXCEPT ![c] = v] /\ Answering(ui[c], http[c][1], v)
  BY ResponseControls
<1>2. http[c] # <<>> /\ http' = [http EXCEPT ![c] = Tail(http[c])] /\ scene' = [scene EXCEPT ![c] = scene[c]]
  BY DEF Response, TypeOK
<1>3. DialogueOK(scene[c], v, Tail(http[c]), tokens)
  BY <1>1, <1>2, AnswerKeepsDialogue
<1>4. QueueOK(http[c], tokens) /\ Len(http[c]) <= MaxRequests /\ scene[c] \in {"login", "game"}
  BY ClientBefore
<1>5. QueueOK(Tail(http[c]), tokens) /\ Follows(Tail(http[c]), http[c])
  BY <1>2, <1>4, QueueMoves, QueuesFollow
<1>6. Len(Tail(http[c])) <= MaxRequests
  BY <1>2, <1>4, QueueMoves, DialogueAssumption
<1>7. v \in Scene
  BY <1>1 DEF Answering
<1>8. QED
  BY <1>1, <1>2, <1>3, <1>4, <1>5, <1>6, <1>7, SetsOnlyOf

\* ... or comes for a scene that has been replaced ...
LEMMA StaleResponseDoes ==
  ASSUME TypeOK, RequestsOK, DialoguesOK, NEW c \in Clients, StaleResponse(c)
  PROVE  OnlyOf(c)
<1>1. /\ http[c] # <<>> /\ Head(http[c]).stale /\ http' = [http EXCEPT ![c] = Tail(http[c])]
      /\ scene' = [scene EXCEPT ![c] = scene[c]] /\ ui' = [ui EXCEPT ![c] = ui[c]]
  BY DEF StaleResponse, TypeOK, clientVars
<1>2. /\ QueueOK(http[c], tokens) /\ Len(http[c]) <= MaxRequests /\ scene[c] \in {"login", "game"}
      /\ ui[c] \in Scene
  BY ClientBefore
<1>3. Answering(ui[c], http[c][1], ui[c])
  BY <1>1, <1>2, FirstRequest DEF Answering, IsAwaited
<1>4. DialogueOK(scene[c], ui[c], Tail(http[c]), tokens)
  BY <1>1, <1>3, AnswerKeepsDialogue
<1>5. QueueOK(Tail(http[c]), tokens) /\ Follows(Tail(http[c]), http[c])
  BY <1>1, <1>2, QueueMoves, QueuesFollow
<1>6. Len(Tail(http[c])) <= MaxRequests
  BY <1>1, <1>2, QueueMoves, DialogueAssumption
<1>7. QED
  BY <1>1, <1>2, <1>4, <1>5, <1>6, SetsOnlyOf

\* A new login scene, or the game, waits for nothing.
LEMMA NewSceneOK ==
  ASSUME NEW q, Awaited(q) = {}, NEW sc
  PROVE  NewLoginScene \in Scene /\ DialogueOK(sc, NewLoginScene, q, tokens)
BY DEF NewLoginScene, Scene, DialogueOK

\* The scene is replaced.
LEMMA ReplacedDoes ==
  ASSUME TypeOK, RequestsOK, DialoguesOK, NEW c \in Clients, NEW next \in {"login", "game"},
         Replaced(c, next)
  PROVE  OnlyOf(c)
<1> DEFINE q == Stale(http[c])
<1>1. /\ scene' = [scene EXCEPT ![c] = next] /\ ui' = [ui EXCEPT ![c] = NewLoginScene]
      /\ http' = [http EXCEPT ![c] = q]
  BY DEF Replaced
<1>2. QueueOK(http[c], tokens) /\ Len(http[c]) <= MaxRequests
  BY ClientBefore
<1>3. QueueOK(q, tokens) /\ Len(q) = Len(http[c]) /\ Awaited(q) = {} /\ Follows(q, http[c])
  BY <1>2, QueueGetsStale, QueuesFollow
<1> HIDE DEF q
<1>4. NewLoginScene \in Scene /\ DialogueOK(next, NewLoginScene, q, tokens)
  BY <1>3, NewSceneOK
<1>5. QED
  BY <1>1, <1>2, <1>3, <1>4, SetsOnlyOf

\* ... or ends the client.
LEMMA BadResponseDoes ==
  ASSUME TypeOK, RequestsOK, DialoguesOK, NEW c \in Clients, BadResponse(c)
  PROVE  OnlyOf(c)
<1> DEFINE r == Tail(http[c])
           q == Stale(r)
<1>1. /\ http[c] # <<>> /\ http' = [http EXCEPT ![c] = q]
      /\ scene' = [scene EXCEPT ![c] = "login"] /\ ui' = [ui EXCEPT ![c] = NewLoginScene]
  BY DEF BadResponse
<1>2. QueueOK(http[c], tokens) /\ Len(http[c]) <= MaxRequests
  BY ClientBefore
<1>3. QueueOK(r, tokens) /\ Follows(q, http[c])
  BY <1>1, <1>2, QueueMoves, QueuesFollow
<1>4. Len(r) <= MaxRequests
  BY <1>1, <1>2, QueueMoves, DialogueAssumption
<1> HIDE DEF r
<1>5. QueueOK(q, tokens) /\ Len(q) = Len(r) /\ Awaited(q) = {}
  BY <1>3, QueueGetsStale
<1> HIDE DEF q
<1>6. NewLoginScene \in Scene /\ DialogueOK("login", NewLoginScene, q, tokens)
  BY <1>5, NewSceneOK
<1>7. QED
  BY <1>1, <1>3, <1>4, <1>5, <1>6, SetsOnlyOf

\* Connecting to a channel enables and disables its menu.
LEMMA ConnectingDoes ==
  ASSUME TypeOK, RequestsOK, DialoguesOK, NEW c \in Clients,
         ChannelButton(c) \/ ConnectFails(c) \/ Connected(c)
  PROVE  OnlyOf(c)
<1> DEFINE menu(b) == [ui[c] EXCEPT !.channelsMenu = b]
<1>1. ui[c] \in Scene /\ ui \in [Clients -> Scene]
  BY DEF TypeOK
<1>2. \A b \in BOOLEAN : /\ menu(b) \in Scene /\ menu(b).loginMenu = ui[c].loginMenu
                         /\ menu(b).shown = ui[c].shown /\ menu(b).token = ui[c].token
  BY <1>1 DEF Scene
<1>3. /\ http' = http /\ scene' = scene
      /\ \/ ui' = [ui EXCEPT ![c] = menu(TRUE)]
         \/ ui' = [ui EXCEPT ![c] = menu(FALSE)]
         \/ ui' = [ui EXCEPT ![c] = ui[c]]
  BY <1>1 DEF ChannelButton, ConnectFails, Connected, accountVars
<1> HIDE DEF menu
<1>4. QED
  BY <1>1, <1>2, <1>3, ControlsOnly

\* Every step of a client does.
LEMMA ClientStepDoes ==
  ASSUME TypeOK, RequestsOK, DialoguesOK, NEW c \in Clients, ClientStep(c)
  PROVE  OnlyOf(c)
<1>1. CASE RoomEnterRes(c)
  BY <1>1, ReplacedDoes DEF RoomEnterRes
<1>2. CASE LeaveScene(c)
  BY <1>2, ReplacedDoes DEF LeaveScene, Quit
<1>3. QED
  BY <1>1, <1>2, TypeNameDoes, LoginButtonDoes, LogoutButtonDoes, RechargeButtonDoes,
     ResponseDoes, BadResponseDoes, StaleResponseDoes, ConnectingDoes DEF ClientStep

-----------------------------------------------------------------------------
(* Sessions and their jobs under the client's steps                        *)

\* The types of the sessions and of the jobs of their users.
SessionsType ==
  /\ sessions \in Seq(Session) /\ Len(sessions) <= MaxSessions
  /\ jobs \in Seq(Seq(Int)) /\ Len(jobs) = Len(sessions)

\* The session has not changed as far as its account is concerned.
SameAccount(s) ==
  /\ sessions'[s].token = sessions[s].token /\ sessions'[s].name = sessions[s].name
  /\ sessions'[s].state = sessions[s].state /\ sessions'[s].money = sessions[s].money

\* Sessions and jobs stay, except that sessions may come that have just asked.
SessionsKept ==
  /\ SessionsType'
  /\ DOMAIN sessions \subseteq DOMAIN sessions' /\ Len(sessions) <= Len(sessions')
  /\ \A s \in DOMAIN sessions : jobs'[s] = jobs[s] /\ SameAccount(s)
  /\ \A s \in DOMAIN sessions' \ DOMAIN sessions :
       jobs'[s] = <<>> /\ sessions'[s].name = NoName /\ sessions'[s].state = "asked"

\* Sessions and jobs that are not touched are kept.
LEMMA SessionsUntouched ==
  ASSUME TypeOK, sessions' = sessions, jobs' = jobs
  PROVE  SessionsKept
<1>1. sessions \in Seq(Session) /\ Len(sessions) \in Nat
  BY DEF TypeOK
<1>2. QED
  BY <1>1 DEF SessionsKept, SessionsType, SameAccount, TypeOK

\* A connection adds a session without jobs.
LEMMA ConnectedKeeps ==
  ASSUME TypeOK, NEW c \in Clients, Connected(c)
  PROVE  SessionsKept /\ Len(sessions') = Len(sessions) + 1
<1> DEFINE n == Len(sessions)
           new == [client |-> c, token |-> ui[c].token, state |-> "asked",
                   answer |-> "none", closed |-> FALSE,
                   name |-> NoName, money |-> 0, paid |-> 0]
<1>1. ui[c].token \in Nat
  <2>1. ui[c] \in Scene
    BY DEF TypeOK
  <2>2. QED
    BY <2>1 DEF Scene
<1>2. new \in Session /\ new.name = NoName /\ new.state = "asked"
  BY <1>1 DEF Session
<1>3. sessions \in Seq(Session) /\ jobs \in Seq(Seq(Int)) /\ n \in Nat /\ Len(jobs) = n /\ n < MaxSessions
      /\ MaxSessions \in Nat
  BY DialogueAssumption DEF TypeOK, Connected
<1>4. sessions' = Append(sessions, new) /\ jobs' = Append(jobs, <<>>)
  BY DEF Connected
<1> HIDE DEF new
<1>5. /\ sessions' \in Seq(Session) /\ Len(sessions') = n + 1 /\ sessions'[n + 1] = new
      /\ \A s \in 1 .. n : sessions'[s] = sessions[s]
  BY <1>2, <1>3, <1>4, AppendProperties
<1>6. /\ jobs' \in Seq(Seq(Int)) /\ Len(jobs') = n + 1 /\ jobs'[n + 1] = <<>>
      /\ \A s \in 1 .. n : jobs'[s] = jobs[s]
  <2>1. <<>> \in Seq(Int)
    OBVIOUS
  <2>2. QED
    BY <1>3, <1>4, <2>1, AppendProperties
<1>7. DOMAIN sessions = 1 .. n /\ DOMAIN sessions' = 1 .. n + 1
  BY <1>3, <1>5
<1>8. SessionsType'
  BY <1>3, <1>5, <1>6 DEF SessionsType
<1>9. \A s \in DOMAIN sessions' \ DOMAIN sessions : s = n + 1
  BY <1>3, <1>7
<1>10. \A s \in DOMAIN sessions : jobs'[s] = jobs[s] /\ SameAccount(s)
  BY <1>5, <1>6, <1>7 DEF SameAccount
<1>11. \A s \in DOMAIN sessions' \ DOMAIN sessions :
         jobs'[s] = <<>> /\ sessions'[s].name = NoName /\ sessions'[s].state = "asked"
  BY <1>2, <1>5, <1>6, <1>9
<1>12. Len(sessions') = n + 1 /\ n <= n + 1 /\ DOMAIN sessions \subseteq DOMAIN sessions'
  BY <1>3, <1>5, <1>7
<1>13. QED
  BY <1>8, <1>10, <1>11, <1>12 DEF SessionsKept

\* The client takes the answer of its session.
LEMMA RoomEnterResKeeps ==
  ASSUME TypeOK, NEW c \in Clients, RoomEnterRes(c)
  PROVE  SessionsKept /\ Len(sessions') = Len(sessions)
<1> DEFINE s == conn[c]
           new == [sessions[s] EXCEPT !.answer = "none"]
<1>1. sessions \in Seq(Session) /\ Len(sessions) \in Nat /\ DOMAIN sessions = 1 .. Len(sessions)
  BY DEF TypeOK
<1>2. s \in 1 .. Len(sessions)
  BY <1>1 DEF TypeOK, RoomEnterRes
<1>3. sessions[s] \in Session
  BY <1>1, <1>2
<1>4. /\ new \in Session /\ new.token = sessions[s].token /\ new.name = sessions[s].name
      /\ new.state = sessions[s].state /\ new.money = sessions[s].money
  BY <1>3 DEF Session
<1>5. sessions' = [sessions EXCEPT ![s] = new] /\ jobs' = jobs
  BY DEF RoomEnterRes
<1> HIDE DEF new, s
<1>6. /\ sessions' \in Seq(Session) /\ Len(sessions') = Len(sessions)
      /\ \A r \in 1 .. Len(sessions) : sessions'[r] = IF r = s THEN new ELSE sessions[r]
  BY <1>1, <1>2, <1>4, <1>5, ExceptSeq
<1>7. DOMAIN sessions' = 1 .. Len(sessions)
  BY <1>6
<1>8. SessionsType'
  BY <1>5, <1>6 DEF SessionsType, TypeOK
<1>9. \A r \in DOMAIN sessions : SameAccount(r)
  BY <1>1, <1>4, <1>6 DEF SameAccount
<1>10. QED
  BY <1>1, <1>5, <1>6, <1>7, <1>8, <1>9 DEF SessionsKept

\* A client's step neither writes a table nor takes part in the game.
ClientKeeps ==
  /\ SessionsKept
  /\ user' = user /\ tokens' = tokens /\ server' = server /\ events' \in 0 .. MaxEvents
  /\ connecting' \in [Clients -> BOOLEAN]
  /\ conn' \in [Clients -> 0 .. Len(sessions')]

\* Every step of a client does so.
LEMMA ClientStepKeeps ==
  ASSUME TypeOK, NEW c \in Clients, ClientStep(c)
  PROVE  ClientKeeps
<1>1. /\ events \in 0 .. MaxEvents /\ MaxEvents \in Nat /\ connecting \in [Clients -> BOOLEAN]
      /\ conn \in [Clients -> 0 .. Len(sessions)] /\ Len(sessions) \in Nat
  BY AccountsAssumption DEF TypeOK
<1>2. CASE Connected(c)
  <2>1. SessionsKept /\ Len(sessions') = Len(sessions) + 1
    BY <1>2, ConnectedKeeps
  <2>2. /\ user' = user /\ tokens' = tokens /\ server' = server /\ events' = events
        /\ connecting' = [connecting EXCEPT ![c] = FALSE]
        /\ conn' = [conn EXCEPT ![c] = Len(sessions) + 1]
    BY <1>2 DEF Connected, accountVars
  <2>3. conn' \in [Clients -> 0 .. Len(sessions')] /\ connecting' \in [Clients -> BOOLEAN]
    BY <1>1, <2>1, <2>2
  <2>4. QED
    BY <1>1, <2>1, <2>2, <2>3 DEF ClientKeeps
<1>3. CASE RoomEnterRes(c)
  <2>1. SessionsKept /\ Len(sessions') = Len(sessions)
    BY <1>3, RoomEnterResKeeps
  <2>2. /\ user' = user /\ tokens' = tokens /\ server' = server /\ events' = events
        /\ connecting' = connecting /\ conn' = conn
    BY <1>3 DEF RoomEnterRes
  <2>3. QED
    BY <1>1, <2>1, <2>2 DEF ClientKeeps
<1>4. CASE ~ Connected(c) /\ ~ RoomEnterRes(c)
  <2>1. /\ user' = user /\ tokens' = tokens /\ server' = server /\ sessions' = sessions /\ jobs' = jobs
        /\ events' = events \/ Event
    BY <1>4 DEF ClientStep, TypeName, LoginButton, LogoutButton, RechargeButton, Response,
                BadResponse, StaleResponse, ChannelButton, ConnectFails, LeaveScene, Quit, Sent,
                accountVars
  <2>2. /\ conn' = conn \/ conn' = [conn EXCEPT ![c] = 0]
        /\ connecting' = connecting \/ \E b \in BOOLEAN : connecting' = [connecting EXCEPT ![c] = b]
    BY <1>4 DEF ClientStep, TypeName, LoginButton, LogoutButton, RechargeButton, Response,
                BadResponse, StaleResponse, ChannelButton, ConnectFails, LeaveScene, Quit, Sent,
                clientVars
  <2>3. SessionsKept
    BY <2>1, SessionsUntouched
  <2>4. conn' \in [Clients -> 0 .. Len(sessions')] /\ connecting' \in [Clients -> BOOLEAN]
    BY <1>1, <2>1, <2>2
  <2>5. events' \in 0 .. MaxEvents
    BY <1>1, <2>1 DEF Event
  <2>6. QED
    BY <2>1, <2>3, <2>4, <2>5 DEF ClientKeeps
<1>5. QED
  BY <1>2, <1>3, <1>4

-----------------------------------------------------------------------------
(* The game server's steps                                                 *)

\* A step for session s leaves the other sessions and their jobs alone, and the
\* session its token.
OnlyForSession(s) ==
  /\ SessionsType' /\ DOMAIN sessions' = DOMAIN sessions /\ Len(sessions') = Len(sessions)
  /\ sessions'[s].token = sessions[s].token
  /\ \A r \in DOMAIN sessions : r # s => jobs'[r] = jobs[r] /\ SameAccount(r)

\* A session that is set, with its jobs, is the only one to change.
LEMMA SessionIsSet ==
  ASSUME TypeOK, NEW s \in DOMAIN sessions, NEW new \in Session, NEW q \in Seq(Int),
         Becoming(s, new), jobs' = [jobs EXCEPT ![s] = q], new.token = sessions[s].token
  PROVE  OnlyForSession(s) /\ sessions'[s] = new /\ jobs'[s] = q
<1> DEFINE n == Len(sessions)
<1>1. /\ sessions \in Seq(Session) /\ jobs \in Seq(Seq(Int)) /\ n \in Nat /\ Len(jobs) = n
      /\ DOMAIN sessions = 1 .. n /\ s \in 1 .. n /\ n <= MaxSessions
  BY DEF TypeOK
<1>2. /\ sessions' \in Seq(Session) /\ Len(sessions') = n
      /\ \A r \in 1 .. n : sessions'[r] = IF r = s THEN new ELSE sessions[r]
  BY <1>1, ExceptSeq DEF Becoming
<1>3. /\ jobs' \in Seq(Seq(Int)) /\ Len(jobs') = n
      /\ \A r \in 1 .. n : jobs'[r] = IF r = s THEN q ELSE jobs[r]
  BY <1>1, ExceptSeq
<1>4. SessionsType' /\ DOMAIN sessions' = 1 .. n
  BY <1>1, <1>2, <1>3 DEF SessionsType
<1>5. \A r \in DOMAIN sessions : r # s => jobs'[r] = jobs[r] /\ SameAccount(r)
  BY <1>1, <1>2, <1>3 DEF SameAccount
<1>6. sessions'[s] = new /\ jobs'[s] = q
  BY <1>1, <1>2, <1>3
<1>7. QED
  BY <1>1, <1>2, <1>4, <1>5, <1>6 DEF OnlyForSession

\* The account is found: its token is live and it has one row.
Found(s) ==
  LET t == sessions[s].token IN
  /\ sessions[s].state = "asked" /\ sessions'[s].state = "found"
  /\ t \in DOMAIN tokens /\ tokens[t].state = "live"
  /\ \E i \in DOMAIN user : /\ SearchUser(tokens[t].name) = {i}
                            /\ sessions'[s].name = user[i].name
                            /\ sessions'[s].money = user[i].chip
  /\ jobs'[s] = jobs[s] /\ user' = user /\ tokens' = tokens

\* The session moves on; nothing happens to the account.
Moved(s) ==
  /\ sessions'[s].name = sessions[s].name /\ sessions'[s].money = sessions[s].money
  /\ \/ sessions'[s].state = sessions[s].state
     \/ sessions[s].state = "asked" /\ sessions'[s].state \in {"found", "overrun"}
     \/ sessions[s].state = "found" /\ sessions'[s].state = "over"
     \/ sessions[s].state = "found" /\ sessions'[s].state = "room" /\ sessions[s].name # NoName
  /\ jobs'[s] = jobs[s] /\ user' = user /\ tokens' = tokens

\* A round is paid in the room, and a job for the database is left.
Paid(s, delta) ==
  /\ delta \in Int \ {0}
  /\ sessions[s].state = "room" /\ sessions'[s].state = "room"
  /\ sessions'[s].name = sessions[s].name /\ sessions'[s].money = sessions[s].money + delta
  /\ jobs'[s] = Append(jobs[s], delta) /\ user' = user /\ tokens' = tokens

\* The user leaves the room, and the job that deletes the token is left.
Left(s) ==
  /\ sessions[s].state = "room" /\ sessions'[s].state = "over"
  /\ sessions'[s].name = sessions[s].name
  /\ jobs'[s] = ClearedLast(s) /\ user' = user /\ tokens' = tokens

\* The first job of the session is done.
Performed(s) ==
  LET name == sessions[s].name IN
  /\ SameAccount(s)
  /\ jobs[s] # <<>> /\ jobs'[s] = Tail(jobs[s])
  /\ \/ /\ Head(jobs[s]) = ClearToken
        /\ Aged({t \in DOMAIN tokens : tokens[t].name = name}, "left") /\ user' = user
     \/ /\ Head(jobs[s]) # ClearToken
        /\ SameAccounts /\ tokens' = tokens
        /\ \A i \in DOMAIN user :
             user'[i].chip = IF user[i].name = name THEN user[i].chip + Head(jobs[s]) ELSE user[i].chip

\* What a step of the game server for session s does.
GameDoes(s) ==
  /\ OnlyForSession(s)
  /\ Found(s) \/ Moved(s) \/ (\E delta : Paid(s, delta)) \/ Left(s) \/ Performed(s)

\* GetUserInfoByAuthToken finds the account, or not, or writes past its end.
LEMMA ReadAccountDoes ==
  ASSUME TypeOK, NEW s \in DOMAIN sessions, ReadAccount(s)
  PROVE  GameDoes(s)
<1> DEFINE token == sessions[s].token
           rows == IF token \in DOMAIN tokens /\ tokens[token].state = "live"
                   THEN SearchUser(tokens[token].name) ELSE {}
<1>1. sessions[s] \in Session /\ jobs[s] \in Seq(Int) /\ jobs' = [jobs EXCEPT ![s] = jobs[s]]
      /\ user' = user /\ tokens' = tokens /\ sessions[s].state = "asked"
  <2>1. jobs' = jobs /\ user' = user /\ tokens' = tokens /\ sessions[s].state = "asked"
    BY DEF ReadAccount, accountVars
  <2>2. QED
    BY <2>1 DEF TypeOK
<1>2. ASSUME NEW new \in Session, Becoming(s, new), new.token = sessions[s].token,
             new.name = sessions[s].name, new.money = sessions[s].money,
             new.state \in {"found", "overrun"}
      PROVE  GameDoes(s)
  <2>1. OnlyForSession(s) /\ sessions'[s] = new /\ jobs'[s] = jobs[s]
    BY <1>1, <1>2, SessionIsSet
  <2>2. Moved(s)
    BY <1>1, <1>2, <2>1 DEF Moved
  <2>3. QED
    BY <2>1, <2>2 DEF GameDoes
<1>3. CASE Becoming(s, [sessions[s] EXCEPT !.state = "found"])
  <2> DEFINE new == [sessions[s] EXCEPT !.state = "found"]
  <2>1. /\ new \in Session /\ new.token = sessions[s].token /\ new.name = sessions[s].name
        /\ new.money = sessions[s].money /\ new.state = "found"
    BY <1>1 DEF Session
  <2>2. QED
    BY <1>2, <1>3, <2>1
<1>4. CASE Becoming(s, [sessions[s] EXCEPT !.state = "overrun"])
  <2> DEFINE new == [sessions[s] EXCEPT !.state = "overrun"]
  <2>1. /\ new \in Session /\ new.token = sessions[s].token /\ new.name = sessions[s].name
        /\ new.money = sessions[s].money /\ new.state = "overrun"
    BY <1>1 DEF Session
  <2>2. QED
    BY <1>2, <1>4, <2>1
<1>5. ASSUME NEW i \in rows, rows = {i},
             Becoming(s, [sessions[s] EXCEPT !.state = "found", !.name = user[i].name,
                                            !.money = user[i].chip])
      PROVE  GameDoes(s)
  <2> DEFINE new == [sessions[s] EXCEPT !.state = "found", !.name = user[i].name,
                                        !.money = user[i].chip]
  <2>1. token \in DOMAIN tokens /\ tokens[token].state = "live" /\ SearchUser(tokens[token].name) = {i}
        /\ i \in DOMAIN user
    BY <1>5 DEF SearchUser
  <2>2. user[i].name \in Names /\ user[i].chip \in Int
    <3>1. user[i] \in Row
      BY <2>1, RowsAreRows
    <3>2. QED
      BY <3>1 DEF Row
  <2>3. /\ new \in Session /\ new.token = sessions[s].token /\ new.state = "found"
        /\ new.name = user[i].name /\ new.money = user[i].chip
    BY <1>1, <2>2 DEF Session
  <2>4. Becoming(s, new)
    BY <1>5
  <2> HIDE DEF new
  <2>5. OnlyForSession(s) /\ sessions'[s] = new /\ jobs'[s] = jobs[s]
    BY <1>1, <2>3, <2>4, SessionIsSet, ZenonT(30)
  <2>6. Found(s)
    <3>1. /\ sessions'[s].state = "found" /\ sessions'[s].name = user[i].name
          /\ sessions'[s].money = user[i].chip
      BY <2>3, <2>5
    <3> HIDE DEF rows
    <3>2. QED
      BY <1>1, <2>1, <2>5, <3>1, Zenon DEF Found
  <2>7. QED
    BY <2>5, <2>6 DEF GameDoes
<1>6. QED
  BY <1>3, <1>4, <1>5 DEF ReadAccount

\* GetUserByAuthProcess: the user enters a room, or not.
LEMMA EnterRoomDoes ==
  ASSUME TypeOK, NEW s \in DOMAIN sessions, EnterRoom(s)
  PROVE  GameDoes(s)
<1>1. sessions[s] \in Session /\ jobs[s] \in Seq(Int) /\ jobs' = [jobs EXCEPT ![s] = jobs[s]]
      /\ user' = user /\ tokens' = tokens /\ sessions[s].state = "found"
  BY DEF TypeOK, EnterRoom, accountVars
<1>2. SUFFICES ASSUME NEW new \in Session, Becoming(s, new), new.token = sessions[s].token,
                      new.name = sessions[s].name, new.money = sessions[s].money,
                      new.state = "over" \/ (new.state = "room" /\ sessions[s].name # NoName)
               PROVE  GameDoes(s)
  <2> DEFINE new(state, answer) == [sessions[s] EXCEPT !.state = state, !.answer = answer]
  <2>1. Answer(s, "INVALID_AUTH") \in {"none", "INVALID_AUTH"} /\ Answer(s, "NONE") \in {"none", "NONE"}
        /\ sessions[s].answer \in {"none", "INVALID_AUTH", "NONE"}
    BY <1>1 DEF Answer, Session
  <2>2. \A state \in {"over", "room"}, answer \in {"none", "INVALID_AUTH", "NONE"} :
          /\ new(state, answer) \in Session /\ new(state, answer).token = sessions[s].token
          /\ new(state, answer).name = sessions[s].name
          /\ new(state, answer).money = sessions[s].money /\ new(state, answer).state = state
    BY <1>1 DEF Session
  <2>3. [sessions[s] EXCEPT !.state = "over"] = new("over", sessions[s].answer)
    BY <1>1 DEF Session
  <2>4. \/ Becoming(s, new("over", Answer(s, "INVALID_AUTH")))
        \/ Becoming(s, new("room", Answer(s, "NONE"))) /\ sessions[s].name # NoName
        \/ Becoming(s, new("over", sessions[s].answer))
    BY <2>3 DEF EnterRoom
  <2> HIDE DEF new
  <2>5. QED
    BY <1>2, <2>1, <2>2, <2>4
<1>3. OnlyForSession(s) /\ sessions'[s] = new /\ jobs'[s] = jobs[s]
  BY <1>1, <1>2, SessionIsSet
<1>4. Moved(s)
  BY <1>1, <1>2, <1>3 DEF Moved
<1>5. QED
  BY <1>3, <1>4 DEF GameDoes

\* SubmitUserEarnMoney: the user's chips change and a payment waits.
LEMMA PayDoes ==
  ASSUME TypeOK, NEW s \in DOMAIN sessions, NEW delta \in Changes, Pay(s, delta)
  PROVE  GameDoes(s)
<1> DEFINE money == sessions[s].money + delta
           paid == sessions[s].paid + 1
           new == [sessions[s] EXCEPT !.money = money, !.paid = paid]
           q == Append(jobs[s], delta)
<1>1. sessions[s] \in Session /\ jobs[s] \in Seq(Int) /\ delta \in Int \ {0}
  BY DialogueAssumption DEF TypeOK
<1>2. sessions[s].state = "room" /\ user' = user /\ tokens' = tokens
      /\ Becoming(s, new) /\ jobs' = [jobs EXCEPT ![s] = q]
  BY DEF Pay, accountVars
<1>3. money \in Int /\ paid \in Nat /\ q \in Seq(Int)
  BY <1>1 DEF Session
<1> HIDE DEF money, paid
<1>4. /\ new \in Session /\ new.token = sessions[s].token /\ new.name = sessions[s].name
      /\ new.money = money /\ new.state = "room"
  BY <1>1, <1>2, <1>3 DEF Session
<1> HIDE DEF new
<1>5. OnlyForSession(s) /\ sessions'[s] = new /\ jobs'[s] = q
  BY <1>2, <1>3, <1>4, SessionIsSet
<1>6. Paid(s, delta)
  BY <1>1, <1>2, <1>4, <1>5 DEF Paid, money
<1>7. QED
  BY <1>5, <1>6 DEF GameDoes

\* Room::LeaveRoom, of a kicked user or of one whose session is closed
LEMMA LeaveRoomDoes ==
  ASSUME TypeOK, NEW s \in DOMAIN sessions, NEW session \in Session, LeaveRoom(s, session),
         session.token = sessions[s].token, session.name = sessions[s].name,
         sessions[s].state = "room", user' = user, tokens' = tokens
  PROVE  GameDoes(s)
<1> DEFINE new == [session EXCEPT !.state = "over"]
           q == ClearedLast(s)
<1>1. jobs[s] \in Seq(Int)
  BY DEF TypeOK
<1>2. q \in Seq(Int)
  BY <1>1 DEF ClearedLast, ClearToken
<1>3. new \in Session /\ new.token = session.token /\ new.name = session.name /\ new.state = "over"
  BY DEF Session
<1>4. Becoming(s, new) /\ jobs' = [jobs EXCEPT ![s] = q]
  BY DEF LeaveRoom
<1> HIDE DEF new, q
<1>5. OnlyForSession(s) /\ sessions'[s] = new /\ jobs'[s] = q
  BY <1>2, <1>3, <1>4, SessionIsSet, ZenonT(30)
<1>6. Left(s)
  <2>1. sessions'[s].state = "over" /\ sessions'[s].name = sessions[s].name /\ jobs'[s] = ClearedLast(s)
    BY <1>3, <1>5 DEF q
  <2>2. QED
    BY <2>1 DEF Left
<1>7. QED
  BY <1>5, <1>6 DEF GameDoes

\* NtfSysCloseSesson
LEMMA CloseSessionDoes ==
  ASSUME TypeOK, NEW s \in DOMAIN sessions, CloseSession(s)
  PROVE  GameDoes(s)
<1> DEFINE session == [sessions[s] EXCEPT !.closed = TRUE, !.answer = "none"]
<1>1. sessions[s] \in Session /\ jobs[s] \in Seq(Int)
  BY DEF TypeOK
<1>2. /\ session \in Session /\ session.token = sessions[s].token /\ session.name = sessions[s].name
      /\ session.money = sessions[s].money /\ session.state = sessions[s].state
  BY <1>1 DEF Session
<1>3. user' = user /\ tokens' = tokens
  BY DEF CloseSession, accountVars
<1>4. \/ session.state = "room" /\ LeaveRoom(s, session)
      \/ session.state # "room" /\ Becoming(s, session) /\ jobs' = jobs
  BY DEF CloseSession
<1> HIDE DEF session
<1>5. CASE session.state = "room" /\ LeaveRoom(s, session)
  BY <1>2, <1>3, <1>5, LeaveRoomDoes
<1>6. CASE session.state # "room" /\ Becoming(s, session) /\ jobs' = jobs
  <2>1. jobs' = [jobs EXCEPT ![s] = jobs[s]]
    BY <1>6 DEF TypeOK
  <2>2. OnlyForSession(s) /\ sessions'[s] = session /\ jobs'[s] = jobs[s]
    BY <1>1, <1>2, <1>6, <2>1, SessionIsSet
  <2>3. Moved(s)
    BY <1>2, <1>3, <2>2 DEF Moved
  <2>4. QED
    BY <2>2, <2>3 DEF GameDoes
<1>7. QED
  BY <1>4, <1>5, <1>6

\* The database thread performs the first job of the session.
LEMMA PerformJobDoes ==
  ASSUME TypeOK, NEW s \in DOMAIN sessions, PerformJob(s)
  PROVE  GameDoes(s)
<1> DEFINE name == sessions[s].name
           q == Tail(jobs[s])
<1>1. sessions[s] \in Session /\ jobs[s] \in Seq(Int) /\ sessions' = [sessions EXCEPT ![s] = sessions[s]]
  BY DEF TypeOK, PerformJob
<1>2. jobs[s] # <<>> /\ jobs' = [jobs EXCEPT ![s] = q]
  BY DEF PerformJob
<1>3. q \in Seq(Int) /\ Head(jobs[s]) \in Int
  BY <1>1, <1>2
<1>4. OnlyForSession(s) /\ sessions'[s] = sessions[s] /\ jobs'[s] = q
  <2>1. Becoming(s, sessions[s])
    BY <1>1 DEF Becoming
  <2>2. QED
    BY <1>1, <1>2, <1>3, <2>1, SessionIsSet
<1>5. SameAccount(s)
  BY <1>4 DEF SameAccount
<1>6. CASE Head(jobs[s]) = ClearToken /\ Remove_AuthToken(name) /\ user' = user
  <2>1. "left" \in TokenStates
    BY DEF TokenStates
  <2>2. Aged({t \in DOMAIN tokens : tokens[t].name = name}, "left")
    BY <1>6, <2>1, DeletedAges DEF Remove_AuthToken
  <2>3. Performed(s)
    BY <1>2, <1>4, <1>5, <1>6, <2>2 DEF Performed
  <2>4. QED
    BY <1>4, <2>3 DEF GameDoes
<1>7. CASE Head(jobs[s]) # ClearToken /\ Calc_user_money(name, Head(jobs[s])) /\ tokens' = tokens
  <2> DEFINE delta == Head(jobs[s])
  <2>1. /\ SameAccounts
        /\ \A i \in DOMAIN user :
             user'[i].chip = IF user[i].name = name THEN user[i].chip + delta ELSE user[i].chip
    <3> HIDE DEF delta
    <3>1. delta \in Int /\ Calc_user_money(name, delta)
      BY <1>3, <1>7 DEF delta
    <3>2. QED
      BY <3>1, PaymentKeepsAccounts
  <2>2. Performed(s)
    BY <1>2, <1>4, <1>5, <1>7, <2>1 DEF Performed
  <2>3. QED
    BY <1>4, <2>2 DEF GameDoes
<1>8. QED
  BY <1>6, <1>7 DEF PerformJob

\* What the game server leaves alone.
GameKeeps ==
  UNCHANGED <<server, http, events, scene, ui, connecting, conn>>

\* Every step of the game server for a session does so.
LEMMA GameStepDoes ==
  ASSUME TypeOK, NEW s \in DOMAIN sessions, GameServerStep(s)
  PROVE  GameDoes(s) /\ GameKeeps
<1>1. GameKeeps
  BY DEF GameServerStep, ReadAccount, EnterRoom, Pay, Kick, CloseSession, PerformJob,
         accountVars, clientVars, GameKeeps
<1>2. CASE Kick(s)
  <2>1. sessions[s] \in Session
    BY DEF TypeOK
  <2>2. QED
    BY <1>1, <1>2, <2>1, LeaveRoomDoes DEF Kick, accountVars
<1>3. QED
  BY <1>1, <1>2, ReadAccountDoes, EnterRoomDoes, PayDoes, CloseSessionDoes, PerformJobDoes
     DEF GameServerStep

-----------------------------------------------------------------------------
(* Types, requests and dialogues                                           *)

\* The three kinds of steps.
ServerMoves == ServerDoes /\ AccountsType' /\ UNCHANGED <<clientVars, sessions, jobs>>
ClientMoves == \E c \in Clients : OnlyOf(c) /\ ClientKeeps
GameMoves == \E s \in DOMAIN sessions : GameDoes(s) /\ GameKeeps

\* Every step of the system is one of them.
LEMMA NextDoes ==
  ASSUME TypeOK, RequestsOK, DialoguesOK, [Next]_vars
  PROVE  ServerMoves \/ ClientMoves \/ GameMoves
<1>1. CASE UNCHANGED vars
  <2>1. /\ user' = user /\ tokens' = tokens /\ server' = server /\ http' = http /\ events' = events
        /\ UNCHANGED <<clientVars, sessions, jobs>>
    BY <1>1 DEF vars, accountVars, clientVars
  <2>2. TokensKept
    BY <2>1 DEF TokensKept
  <2>3. ServerDoes
    BY <2>1, <2>2, RowsUnchanged, NoRequestDoes DEF ServerDoes
  <2>4. AccountsType'
    BY <2>1 DEF AccountsType, AuthToken, TypeOK
  <2>5. QED
    BY <2>1, <2>3, <2>4 DEF ServerMoves
<1>2. CASE ServerStep /\ UNCHANGED <<clientVars, sessions, jobs>>
  BY <1>2, ServerStepDoes, ServerType DEF ServerMoves
<1>3. CASE \E c \in Clients : ClientStep(c)
  BY <1>3, ClientStepDoes, ClientStepKeeps DEF ClientMoves
<1>4. CASE \E s \in DOMAIN sessions : GameServerStep(s)
  BY <1>4, GameStepDoes DEF GameMoves
<1>5. QED
  BY <1>1, <1>2, <1>3, <1>4 DEF Next

\* The game server's steps keep tokens and tables as they should be.
LEMMA GameKeepsTables ==
  ASSUME TypeOK, NEW s \in DOMAIN sessions, GameDoes(s)
  PROVE  /\ TokensKept /\ tokens' \in Seq(AuthToken) /\ Len(tokens') <= MaxTokens
         /\ SameAccounts
<1>1. tokens \in Seq(AuthToken) /\ Len(tokens) <= MaxTokens
  BY DEF TypeOK, AuthToken
<1>2. CASE tokens' = tokens /\ user' = user
  <2>1. TokensKept
    BY <1>2 DEF TokensKept
  <2>2. SameAccounts
    BY <1>2, RowsUnchanged DEF RowsKept
  <2>3. QED
    BY <1>1, <1>2, <2>1, <2>2
<1>3. CASE user' = user /\ Aged({t \in DOMAIN tokens : tokens[t].name = sessions[s].name}, "left")
  <2> DEFINE S == {t \in DOMAIN tokens : tokens[t].name = sessions[s].name}
  <2>1. Aged(S, "left")
    BY <1>3
  <2> HIDE DEF S
  <2>2. TokensKept /\ tokens' \in Seq(AuthToken) /\ Len(tokens') = Len(tokens)
    BY <2>1, AgedAreKept DEF Aged
  <2>3. SameAccounts
    BY <1>3, RowsUnchanged DEF RowsKept
  <2>4. QED
    BY <1>1, <2>2, <2>3
<1>4. CASE SameAccounts /\ tokens' = tokens
  <2>1. TokensKept
    BY <1>4 DEF TokensKept
  <2>2. QED
    BY <1>1, <1>4, <2>1
<1>5. QED
  BY <1>2, <1>3, <1>4 DEF GameDoes, Found, Moved, Paid, Left, Performed

\* Every step keeps the tokens.
LEMMA NextKeepsTokens ==
  ASSUME TypeOK, ServerMoves \/ ClientMoves \/ GameMoves
  PROVE  TokensKept
<1>1. CASE ServerMoves
  BY <1>1, ServerKeepsTokens DEF ServerMoves
<1>2. CASE ClientMoves
  BY <1>2 DEF ClientMoves, ClientKeeps, TokensKept
<1>3. CASE GameMoves
  BY <1>3, GameKeepsTables DEF GameMoves
<1>4. QED
  BY <1>1, <1>2, <1>3

\* The variables of the first states have their types, and nothing is under way.
LEMMA InitOK ==
  ASSUME Init
  PROVE  TypeOK /\ RequestsOK /\ DialoguesOK
<1>1. /\ MaxTokens \in Nat /\ MaxEvents \in Nat /\ MaxRequests \in Nat /\ MaxSessions \in Nat
  BY AccountsAssumption, DialogueAssumption
<1>2. NewLoginScene \in Scene /\ NewLoginScene.loginMenu /\ ~ NewLoginScene.shown
  BY DEF NewLoginScene, Scene
<1>3. /\ user = <<>> /\ tokens = <<>> /\ server = "starting" /\ events = 0
      /\ sessions = <<>> /\ jobs = <<>>
      /\ \A c \in Clients : http[c] = <<>> /\ scene[c] = "login" /\ ui[c] = NewLoginScene
  BY DEF Init, AccountsInit
<1>4. /\ http \in [Clients -> Seq(HttpRequest)] /\ scene \in [Clients -> {"login", "game"}]
      /\ ui \in [Clients -> Scene] /\ connecting \in [Clients -> BOOLEAN]
      /\ conn \in [Clients -> 0 .. Len(sessions)]
  BY <1>2 DEF Init, AccountsInit
<1>5. TypeOK
  BY <1>1, <1>3, <1>4 DEF TypeOK
<1>6. RequestsOK
  BY <1>3 DEF RequestsOK
<1>7. DialoguesOK
  <2>1. Awaited(<<>>) = {}
    BY DEF Awaited
  <2>2. QED
    BY <1>2, <1>3, <2>1 DEF DialoguesOK, DialogueOK
<1>8. QED
  BY <1>5, <1>6, <1>7

\* Every step keeps the types.
LEMMA NextType ==
  ASSUME TypeOK, ServerMoves \/ ClientMoves \/ GameMoves
  PROVE  TypeOK'
<1>1. CASE ServerMoves
  BY <1>1 DEF ServerMoves, AccountsType, AuthToken, TypeOK, clientVars
<1>2. CASE ClientMoves
  <2>1. PICK c \in Clients : OnlyOf(c) /\ ClientKeeps
    BY <1>2 DEF ClientMoves
  <2>2. \A d \in Clients : Len(http'[d]) <= MaxRequests
    BY <2>1 DEF OnlyOf, TypeOK
  <2>3. /\ user' = user /\ tokens' = tokens /\ server' = server /\ events' \in 0 .. MaxEvents
        /\ connecting' \in [Clients -> BOOLEAN] /\ conn' \in [Clients -> 0 .. Len(sessions')]
        /\ SessionsType'
    BY <2>1 DEF ClientKeeps, SessionsKept
  <2>4. /\ http' \in [Clients -> Seq(HttpRequest)] /\ scene' \in [Clients -> {"login", "game"}]
        /\ ui' \in [Clients -> Scene]
    BY <2>1 DEF OnlyOf
  <2>5. QED
    BY <2>2, <2>3, <2>4 DEF TypeOK, SessionsType
<1>3. CASE GameMoves
  <2>1. PICK s \in DOMAIN sessions : GameDoes(s) /\ GameKeeps
    BY <1>3 DEF GameMoves
  <2>2. tokens' \in Seq(AuthToken) /\ Len(tokens') <= MaxTokens /\ user' \in Seq(Row)
    BY <2>1, GameKeepsTables DEF SameAccounts
  <2>3. SessionsType' /\ Len(sessions') = Len(sessions)
    BY <2>1 DEF GameDoes, OnlyForSession
  <2>4. /\ server' = server /\ http' = http /\ events' = events /\ scene' = scene /\ ui' = ui
        /\ connecting' = connecting /\ conn' = conn
    BY <2>1 DEF GameKeeps
  <2>5. QED
    BY <2>2, <2>3, <2>4 DEF TypeOK, SessionsType, AuthToken
<1>4. QED
  BY <1>1, <1>2, <1>3

\* Every step keeps the requests and the dialogues as they should be.
LEMMA NextDialogues ==
  ASSUME TypeOK, RequestsOK, DialoguesOK, ServerMoves \/ ClientMoves \/ GameMoves
  PROVE  RequestsOK' /\ DialoguesOK'
<1>1. TokensKept
  BY NextKeepsTokens
<1>2. ASSUME NEW c \in Clients, scene'[c] = scene[c], ui'[c] = ui[c], Awaited(http'[c]) = Awaited(http[c])
      PROVE  DialogueOK(scene'[c], ui'[c], http'[c], tokens')
  BY <1>1, <1>2, HandedOutStays DEF DialoguesOK, DialogueOK
<1>3. CASE ServerMoves
  <2>1. ServerDoes /\ scene' = scene /\ ui' = ui
    BY <1>3 DEF ServerMoves, clientVars
  <2>2. ASSUME NEW c \in Clients PROVE Awaited(http'[c]) = Awaited(http[c])
    <3>1. Progressed(c) /\ http'[c] \in Seq(HttpRequest) /\ http[c] \in Seq(HttpRequest)
      BY <2>1 DEF ServerDoes, TypeOK
    <3>2. CASE http'[c] # http[c]
      <4>1. /\ Len(http'[c]) = Len(http[c]) /\ 1 \in DOMAIN http[c]
            /\ http'[c][1].kind = http[c][1].kind /\ http'[c][1].stale = http[c][1].stale
            /\ \A i \in DOMAIN http[c] : i # 1 => http'[c][i] = http[c][i]
        BY <3>1, <3>2 DEF Progressed
      <4>2. DOMAIN http'[c] = DOMAIN http[c]
        BY <3>1, <4>1
      <4>3. \A i \in DOMAIN http[c] : IsAwaited(http'[c][i]) <=> IsAwaited(http[c][i])
        BY <4>1 DEF IsAwaited
      <4>4. QED
        BY <4>2, <4>3 DEF Awaited
    <3>3. QED
      BY <3>2
  <2>3. QED
    BY <1>2, <2>1, <2>2 DEF ServerDoes, DialoguesOK
<1>4. CASE ClientMoves
  <2>1. PICK c \in Clients : OnlyOf(c) /\ ClientKeeps
    BY <1>4 DEF ClientMoves
  <2>2. tokens' = tokens
    BY <2>1 DEF ClientKeeps
  <2>3. QueueOK(http'[c], tokens') /\ DialogueOK(scene'[c], ui'[c], http'[c], tokens')
    BY <2>1, <2>2 DEF OnlyOf
  <2>4. \A d \in Clients : d # c => http'[d] = http[d] /\ scene'[d] = scene[d] /\ ui'[d] = ui[d]
    BY <2>1 DEF OnlyOf
  <2>5. RequestsOK'
    BY <2>2, <2>3, <2>4 DEF RequestsOK, QueueOK
  <2>6. DialoguesOK'
    BY <1>2, <2>3, <2>4 DEF DialoguesOK
  <2>7. QED
    BY <2>5, <2>6
<1>5. CASE GameMoves
  <2>1. http' = http /\ scene' = scene /\ ui' = ui
    BY <1>5 DEF GameMoves, GameKeeps
  <2>2. RequestsOK'
    BY <1>1, <2>1, NoRequestDoes
  <2>3. DialoguesOK'
    BY <1>2, <2>1 DEF DialoguesOK
  <2>4. QED
    BY <2>2, <2>3
<1>6. QED
  BY <1>3, <1>4, <1>5

\* Inductive: an answer that shows the channels brings a token that was saved,
\* and the buttons are as the login or logout under way says.
LEMMA DialogueInvariant == Spec => [](TypeOK /\ RequestsOK /\ DialoguesOK)
<1>1. Init => TypeOK /\ RequestsOK /\ DialoguesOK
  BY InitOK
<1>2. TypeOK /\ RequestsOK /\ DialoguesOK /\ [Next]_vars => (TypeOK /\ RequestsOK /\ DialoguesOK)'
  BY NextDoes, NextType, NextDialogues
<1>3. QED
  BY <1>1, <1>2, PTL DEF Spec

\* The variables have their types.
THEOREM TypeCorrect == Spec => []TypeOK
BY DialogueInvariant, PTL

\* No dialogue is left without a button and without an answer to come.
THEOREM NobodyIsStuck == Spec => []DialogueNotStuck
<1>1. TypeOK /\ RequestsOK /\ DialoguesOK => DialogueNotStuck
  BY DEF DialoguesOK, DialogueOK, DialogueNotStuck, Awaited, IsAwaited
<1>2. QED
  BY <1>1, DialogueInvariant, PTL

\* A token that was refused never gets a dialogue to show the channels.
THEOREM ShownTokensAreSaved == Spec => []ShownTokenWasSaved
<1>1. TypeOK /\ RequestsOK /\ DialoguesOK => ShownTokenWasSaved
  BY DEF DialoguesOK, DialogueOK, ShownTokenWasSaved, HandedOut
<1>2. QED
  BY <1>1, DialogueInvariant, PTL

-----------------------------------------------------------------------------
(* Rows of the table user                                                  *)

\* The clients whose logins are about to create an account of this name
Creators(name) == {c \in Clients : Creating(http[c], name)}

\* An account's rows and the logins about to create one are not more than the
\* clients.
RowsCounted ==
  \A name \in Names :
    Cardinality(SearchUser(name)) + Cardinality(Creators(name)) <= Cardinality(Clients)

\* Where no row comes, the logins that create one get fewer, or there was no row.
LEMMA CountStays ==
  ASSUME NEW R, IsFiniteSet(R), NEW C \in SUBSET Clients, NEW D \in SUBSET Clients,
         Cardinality(R) + Cardinality(C) <= Cardinality(Clients),
         D \subseteq C \/ R = {}
  PROVE  Cardinality(R) + Cardinality(D) <= Cardinality(Clients)
<1>1. /\ IsFiniteSet(Clients) /\ IsFiniteSet(C) /\ IsFiniteSet(D)
      /\ Cardinality(D) <= Cardinality(Clients)
  BY AccountsAssumption, FS_Subset
<1>2. /\ Cardinality(R) \in Nat /\ Cardinality(C) \in Nat /\ Cardinality(D) \in Nat
      /\ Cardinality(Clients) \in Nat
  BY <1>1, FS_CardinalityType
<1>3. CASE D \subseteq C
  <2>1. Cardinality(D) <= Cardinality(C)
    BY <1>1, <1>3, FS_Subset
  <2>2. QED
    BY <1>2, <2>1
<1>4. CASE R = {}
  <2>1. Cardinality(R) = 0
    BY <1>4, FS_EmptySet
  <2>2. QED
    BY <1>1, <1>2, <2>1
<1>5. QED
  BY <1>3, <1>4

\* Where a login has created a row, it does so no more.
LEMMA CountMoves ==
  ASSUME NEW R, IsFiniteSet(R), NEW x, x \notin R,
         NEW C \in SUBSET Clients, NEW D \in SUBSET Clients, NEW c \in C, c \notin D,
         Cardinality(R) + Cardinality(C) <= Cardinality(Clients),
         D \subseteq C \/ R = {}
  PROVE  Cardinality(R \cup {x}) + Cardinality(D) <= Cardinality(Clients)
<1>1. IsFiniteSet(Clients) /\ IsFiniteSet(C) /\ IsFiniteSet(D)
  BY AccountsAssumption, FS_Subset
<1>2. /\ Cardinality(R) \in Nat /\ Cardinality(C) \in Nat /\ Cardinality(D) \in Nat
      /\ Cardinality(Clients) \in Nat
  BY <1>1, FS_CardinalityType
<1>3. Cardinality(R \cup {x}) = Cardinality(R) + 1
  BY FS_AddElement
<1>4. Cardinality(D \cup {c}) = Cardinality(D) + 1
  BY <1>1, FS_AddElement
<1>5. CASE D \subseteq C
  <2>1. Cardinality(D \cup {c}) <= Cardinality(C)
    BY <1>1, <1>5, FS_Subset
  <2>2. QED
    BY <1>2, <1>3, <1>4, <2>1
<1>6. CASE R = {}
  <2>1. Cardinality(R) = 0
    BY <1>6, FS_EmptySet
  <2>2. Cardinality(D \cup {c}) <= Cardinality(Clients)
    BY <1>1, FS_Subset
  <2>3. QED
    BY <1>2, <1>3, <1>4, <2>1, <2>2
<1>7. QED
  BY <1>5, <1>6

\* The rows found are finitely many.
LEMMA RowsAreFinite ==
  ASSUME TypeOK, NEW name
  PROVE  IsFiniteSet(SearchUser(name)) /\ Len(user) + 1 \notin SearchUser(name)
<1>1. Len(user) \in Nat /\ DOMAIN user = 1 .. Len(user)
  BY DEF TypeOK
<1>2. SearchUser(name) \subseteq 1 .. Len(user)
  BY <1>1 DEF SearchUser
<1>3. IsFiniteSet(1 .. Len(user))
  BY <1>1, FS_Interval
<1>4. QED
  BY <1>1, <1>2, <1>3, FS_Subset

\* A step that keeps names keeps the rows found.
LEMMA SameRowsFound ==
  ASSUME SameAccounts, NEW name
  PROVE  SearchUser(name)' = SearchUser(name)
BY DEF SameAccounts, SearchUser

\* Every step keeps the count.
LEMMA NextRows ==
  ASSUME TypeOK, RowsCounted, ServerMoves \/ ClientMoves \/ GameMoves
  PROVE  RowsCounted'
<1> SUFFICES ASSUME NEW name \in Names
             PROVE  Cardinality(SearchUser(name)') + Cardinality(Creators(name)') <= Cardinality(Clients)
  BY DEF RowsCounted
<1>1. IsFiniteSet(SearchUser(name))
  BY RowsAreFinite
<1>2. Creators(name) \in SUBSET Clients /\ Creators(name)' \in SUBSET Clients
  BY DEF Creators
<1>3. Cardinality(SearchUser(name)) + Cardinality(Creators(name)) <= Cardinality(Clients)
  BY DEF RowsCounted
<1>4. CASE SearchUser(name)' = SearchUser(name)
           /\ (Creators(name)' \subseteq Creators(name) \/ SearchUser(name) = {})
  BY <1>1, <1>2, <1>3, <1>4, CountStays
<1>5. CASE ServerMoves
  <2>1. ServerDoes
    BY <1>5 DEF ServerMoves
  <2>2. Creators(name)' \subseteq Creators(name) \/ SearchUser(name) = {}
    <3>1. ASSUME SearchUser(name) # {}, NEW c \in Clients, Creating(http'[c], name)
          PROVE  Creating(http[c], name)
      <4>1. Progressed(c)
        BY <2>1 DEF ServerDoes
      <4>2. ~ (http'[c][1].step = "create" => SearchUser(http'[c][1].name) = {})
        BY <3>1 DEF Creating
      <4>3. http'[c] = http[c]
        BY <4>1, <4>2 DEF Progressed
      <4>4. QED
        BY <3>1, <4>3
    <3>2. QED
      BY <3>1 DEF Creators
  <2>3. CASE RowsKept
    BY <1>4, <2>2, <2>3, SameRowsFound DEF RowsKept
  <2>4. ASSUME NEW c \in Clients, Created(c)
        PROVE  Cardinality(SearchUser(name)') + Cardinality(Creators(name)') <= Cardinality(Clients)
    <3> DEFINE n == Len(user) + 1
    <3>1. /\ DOMAIN user' = DOMAIN user \cup {n} /\ user'[n].name = http[c][1].name
          /\ \A i \in DOMAIN user : user'[i] = user[i]
      BY <2>4, CreatedAtEnd DEF Created
    <3>2. CASE http[c][1].name # name
      <4>1. SearchUser(name)' = SearchUser(name)
        BY <3>1, <3>2 DEF SearchUser
      <4>2. QED
        BY <1>4, <2>2, <4>1
    <3>3. CASE http[c][1].name = name
      <4>1. SearchUser(name)' = SearchUser(name) \cup {n}
        BY <3>1, <3>3 DEF SearchUser
      <4>2. n \notin SearchUser(name)
        BY RowsAreFinite
      <4>3. c \in Creators(name)
        <5>1. 1 \in DOMAIN http[c]
          BY <2>4, HeadIsFirst DEF Created
        <5>2. QED
          BY <2>4, <3>3, <5>1 DEF Creators, Creating, Created
      <4>4. c \notin Creators(name)'
        BY <2>4 DEF Creators, Creating, Created
      <4> HIDE DEF n
      <4>5. QED
        BY <1>1, <1>2, <1>3, <2>2, <4>1, <4>2, <4>3, <4>4, CountMoves
    <3>4. QED
      BY <3>2, <3>3
  <2>5. QED
    BY <2>1, <2>3, <2>4 DEF ServerDoes
<1>6. CASE ClientMoves
  <2>1. PICK c \in Clients : OnlyOf(c) /\ ClientKeeps
    BY <1>6 DEF ClientMoves
  <2>2. SearchUser(name)' = SearchUser(name)
    BY <2>1 DEF ClientKeeps, SearchUser
  <2>3. \A d \in Clients : Follows(http'[d], http[d])
    BY <2>1 DEF OnlyOf, Follows
  <2>4. Creators(name)' \subseteq Creators(name)
    BY <2>3 DEF Creators, Follows
  <2>5. QED
    BY <1>4, <2>2, <2>4
<1>7. CASE GameMoves
  <2>1. SameAccounts /\ http' = http
    BY <1>7, GameKeepsTables DEF GameMoves, GameKeeps
  <2>2. Creators(name)' = Creators(name)
    BY <2>1 DEF Creators
  <2>3. QED
    BY <1>4, <2>1, <2>2, SameRowsFound
<1>8. QED
  BY <1>5, <1>6, <1>7

\* However many logins, faults and restarts there are, an account has no more
\* rows than there are clients.
THEOREM RowsComeFromRaces == Spec => []RowsOnlyFromRaces
<1> DEFINE Inv == TypeOK /\ RequestsOK /\ DialoguesOK /\ RowsCounted
<1>1. Init => Inv
  <2> SUFFICES ASSUME Init PROVE RowsCounted
    BY InitOK
  <2>1. ASSUME NEW name \in Names PROVE SearchUser(name) = {} /\ Creators(name) = {}
    BY DEF Init, AccountsInit, SearchUser, Creators, Creating
  <2>2. Cardinality({}) = 0 /\ Cardinality(Clients) \in Nat
    BY AccountsAssumption, FS_EmptySet, FS_CardinalityType
  <2>3. QED
    BY <2>1, <2>2 DEF RowsCounted
<1>2. Inv /\ [Next]_vars => Inv'
  BY NextDoes, NextType, NextDialogues, NextRows
<1>3. Inv => RowsOnlyFromRaces
  <2> SUFFICES ASSUME Inv, NEW name \in Names
               PROVE  Cardinality(SearchUser(name)) <= Cardinality(Clients)
    BY DEF RowsOnlyFromRaces, SearchUser
  <2>1. IsFiniteSet(SearchUser(name)) /\ IsFiniteSet(Creators(name)) /\ IsFiniteSet(Clients)
    BY AccountsAssumption, RowsAreFinite, FS_Subset DEF Creators
  <2>2. Cardinality(SearchUser(name)) \in Nat /\ Cardinality(Creators(name)) \in Nat
        /\ Cardinality(Clients) \in Nat
    BY <2>1, FS_CardinalityType
  <2>3. QED
    BY <2>2 DEF RowsCounted
<1>4. QED
  BY <1>1, <1>2, <1>3, PTL DEF Spec

-----------------------------------------------------------------------------
(* Jobs of the sessions                                                    *)

\* CLEAR_AUTH_TOKEN is among the jobs q.
Clears(q) == \E i \in DOMAIN q : q[i] = ClearToken

\* The jobs q of a session in this state, whose user has this name: the token is
\* deleted last, by the job that leaving the room has left.
JobsFit(name, state, q) ==
  /\ \A i \in DOMAIN q : q[i] = ClearToken => i = Len(q) /\ state = "over"
  /\ q # <<>> => name # NoName /\ (state = "room" \/ Clears(q))
  /\ state = "asked" => name = NoName
  /\ state = "room" => name # NoName

JobsOK == \A s \in DOMAIN sessions : JobsFit(sessions[s].name, sessions[s].state, jobs[s])

\* A job is appended.
LEMMA JobAppended ==
  ASSUME NEW q \in Seq(Int), NEW x \in Int, NEW name, JobsFit(name, "room", q)
  PROVE  /\ x # ClearToken => JobsFit(name, "room", Append(q, x))
         /\ x = ClearToken => JobsFit(name, "over", Append(q, x))
<1> DEFINE r == Append(q, x)
           n == Len(q)
<1>1. n \in Nat /\ DOMAIN q = 1 .. n /\ Len(r) = n + 1 /\ DOMAIN r = 1 .. n + 1 /\ r[n + 1] = x
      /\ \A i \in 1 .. n : r[i] = q[i]
  OBVIOUS
<1> HIDE DEF r
<1>2. \A i \in 1 .. n : r[i] # ClearToken
  BY <1>1 DEF JobsFit
<1>3. \A i \in 1 .. n + 1 : r[i] = ClearToken => i = n + 1 /\ x = ClearToken
  BY <1>1, <1>2
<1>4. name # NoName
  BY DEF JobsFit
<1>5. x = ClearToken => Clears(r)
  BY <1>1 DEF Clears
<1>6. QED
  BY <1>1, <1>3, <1>4, <1>5 DEF JobsFit, r

\* A job is done.
LEMMA JobDone ==
  ASSUME NEW q \in Seq(Int), q # <<>>, NEW name, NEW state, JobsFit(name, state, q)
  PROVE  /\ JobsFit(name, state, Tail(q))
         /\ Clears(Tail(q)) => Clears(q)
         /\ Head(q) = ClearToken => Tail(q) = <<>> /\ state = "over" /\ Clears(q)
<1> DEFINE r == Tail(q)
           n == Len(q)
<1>1. n \in Nat \ {0} /\ DOMAIN q = 1 .. n /\ q[1] = Head(q)
  BY EmptySeq
<1>2. r \in Seq(Int) /\ Len(r) = n - 1 /\ \A i \in 1 .. n - 1 : r[i] = q[i + 1]
  BY <1>1, HeadTailProperties
<1>3. DOMAIN r = 1 .. n - 1
  BY <1>2
<1> HIDE DEF r
<1>4. \A i \in 1 .. n - 1 : i + 1 \in 1 .. n /\ (i + 1 = n <=> i = n - 1)
  BY <1>1
<1>5. ASSUME NEW i \in DOMAIN r, r[i] = ClearToken PROVE i = Len(r) /\ state = "over"
  <2>1. i \in 1 .. n - 1 /\ i + 1 \in DOMAIN q /\ q[i + 1] = ClearToken
    BY <1>1, <1>2, <1>3, <1>4, <1>5
  <2>2. i + 1 = n /\ state = "over"
    BY <2>1 DEF JobsFit
  <2>3. QED
    BY <1>2, <1>4, <2>1, <2>2
<1>6. Clears(r) => Clears(q)
  BY <1>1, <1>2, <1>3, <1>4 DEF Clears
<1>7. r # <<>> => name # NoName /\ (state = "room" \/ Clears(r))
  <2> SUFFICES ASSUME r # <<>>, state # "room" PROVE Clears(r)
    BY <1>1 DEF JobsFit
  <2>1. n - 1 \in 1 .. n - 1 /\ (n - 1) + 1 = n
    <3>1. Len(r) # 0
      BY <1>2, EmptySeq
    <3>2. QED
      BY <1>1, <1>2, <3>1
  <2>2. PICK i \in DOMAIN q : q[i] = ClearToken
    BY <1>1 DEF JobsFit, Clears
  <2>3. i = n
    BY <2>2 DEF JobsFit
  <2>4. r[n - 1] = ClearToken
    BY <1>2, <2>1, <2>2, <2>3
  <2>5. QED
    BY <1>3, <2>1, <2>4 DEF Clears
<1>8. Head(q) = ClearToken => r = <<>> /\ state = "over" /\ Clears(q)
  <2> SUFFICES ASSUME Head(q) = ClearToken PROVE r = <<>> /\ state = "over" /\ Clears(q)
    OBVIOUS
  <2>1. 1 \in DOMAIN q /\ q[1] = ClearToken
    BY <1>1
  <2>2. 1 = n /\ state = "over" /\ Clears(q)
    BY <2>1 DEF JobsFit, Clears
  <2>3. QED
    BY <1>2, <2>2, EmptySeq
<1>9. QED
  BY <1>5, <1>6, <1>7, <1>8 DEF JobsFit, r

\* Every step keeps the jobs as they should be.
LEMMA NextJobs ==
  ASSUME TypeOK, JobsOK, ServerMoves \/ ClientMoves \/ GameMoves
  PROVE  JobsOK'
<1>1. CASE ServerMoves
  BY <1>1 DEF ServerMoves, JobsOK
<1>2. CASE ClientMoves
  <2>1. SessionsKept
    BY <1>2 DEF ClientMoves, ClientKeeps
  <2>2. ASSUME NEW s \in DOMAIN sessions' PROVE JobsFit(sessions'[s].name, sessions'[s].state, jobs'[s])
    <3>1. CASE s \in DOMAIN sessions
      BY <2>1, <3>1 DEF SessionsKept, SameAccount, JobsOK
    <3>2. CASE s \notin DOMAIN sessions
      <4>1. jobs'[s] = <<>> /\ sessions'[s].name = NoName /\ sessions'[s].state = "asked"
        BY <2>1, <2>2, <3>2 DEF SessionsKept
      <4>2. QED
        BY <4>1 DEF JobsFit
    <3>3. QED
      BY <3>1, <3>2
  <2>3. QED
    BY <2>2 DEF JobsOK
<1>3. CASE GameMoves
  <2>1. PICK s \in DOMAIN sessions : GameDoes(s)
    BY <1>3 DEF GameMoves
  <2>2. OnlyForSession(s) /\ JobsFit(sessions[s].name, sessions[s].state, jobs[s]) /\ jobs[s] \in Seq(Int)
    BY <2>1 DEF GameDoes, JobsOK, TypeOK
  <2>3. JobsFit(sessions'[s].name, sessions'[s].state, jobs'[s])
    <3>1. CASE Found(s) \/ Moved(s)
      <4>1. /\ jobs'[s] = jobs[s]
            /\ \/ sessions'[s].state = sessions[s].state /\ sessions'[s].name = sessions[s].name
               \/ sessions[s].state = "asked" /\ sessions'[s].state \in {"found", "overrun"}
               \/ sessions[s].state = "found" /\ sessions'[s].state = "over"
               \/ /\ sessions[s].state = "found" /\ sessions'[s].state = "room"
                  /\ sessions'[s].name = sessions[s].name /\ sessions[s].name # NoName
        BY <3>1 DEF Found, Moved
      <4>2. sessions[s].state \in {"asked", "found"} => jobs[s] = <<>>
        BY <2>2 DEF JobsFit, Clears
      <4>3. QED
        BY <2>2, <4>1, <4>2 DEF JobsFit
    <3>2. CASE \E delta : Paid(s, delta)
      BY <2>2, <3>2, JobAppended DEF Paid, ClearToken
    <3>3. CASE Left(s)
      BY <2>2, <3>3, JobAppended DEF Left, ClearedLast, ClearToken
    <3>4. CASE Performed(s)
      BY <2>2, <3>4, JobDone DEF Performed, SameAccount
    <3>5. QED
      BY <2>1, <3>1, <3>2, <3>3, <3>4 DEF GameDoes
  <2>4. QED
    BY <2>2, <2>3 DEF OnlyForSession, SameAccount, JobsOK
<1>4. QED
  BY <1>1, <1>2, <1>3

-----------------------------------------------------------------------------
(* Who holds a token                                                       *)

\* An account has no two live tokens.
OneLive ==
  \A t, u \in DOMAIN tokens :
    tokens[t].name = tokens[u].name /\ tokens[t].state = "live" /\ tokens[u].state = "live" => t = u

\* The session's user plays with the account, or is about to, or what it leaves
\* behind still has to delete the token.
Holds(s) ==
  /\ sessions[s].name # NoName
  /\ sessions[s].state \in {"found", "room"} \/ Clears(jobs[s])

\* The session s has its account, of this name, by a token that is live, unless
\* one of the account's tokens was lost.
HolderOK(s, name) ==
  Holds(s) /\ sessions[s].name = name
    => /\ sessions[s].token \in DOMAIN tokens
       /\ tokens[sessions[s].token].name = name
       /\ TokenLost(name) \/ tokens[sessions[s].token].state = "live"

HoldersOK == \A s \in DOMAIN sessions : \A name \in Names : HolderOK(s, name)

\* A token that is lost stays lost.
LEMMA LossStays ==
  ASSUME TokensKept, DOMAIN sessions \subseteq DOMAIN sessions',
         \A s \in DOMAIN sessions : sessions'[s].token = sessions[s].token,
         NEW name, TokenLost(name)
  PROVE  TokenLost(name)'
<1>1. PICK s \in DOMAIN sessions :
        LET t == sessions[s].token IN
        /\ t \in DOMAIN tokens /\ tokens[t].name = name
        /\ \/ tokens[t].state \in {"cleared", "logout"}
           \/ \E r \in DOMAIN sessions \ {s} : sessions[r].token = t
  BY DEF TokenLost
<1> DEFINE t == sessions[s].token
<1>2. /\ s \in DOMAIN sessions' /\ sessions'[s].token = t
      /\ t \in DOMAIN tokens' /\ tokens'[t].name = name
  BY <1>1 DEF TokensKept
<1>3. CASE tokens[t].state \in {"cleared", "logout"}
  <2>1. tokens'[t].state \in {"cleared", "logout"}
    BY <1>1, <1>3 DEF TokensKept
  <2>2. QED
    BY <1>2, <2>1 DEF TokenLost
<1>4. CASE \E r \in DOMAIN sessions \ {s} : sessions[r].token = t
  <2>1. \E r \in DOMAIN sessions' \ {s} : sessions'[r].token = t
    BY <1>4
  <2>2. QED
    BY <1>2, <2>1 DEF TokenLost
<1>5. QED
  BY <1>1, <1>3, <1>4

\* Every step keeps the sessions' tokens, so that what is lost stays lost.
LEMMA NextKeepsLoss ==
  ASSUME TypeOK, ServerMoves \/ ClientMoves \/ GameMoves, NEW name, TokenLost(name)
  PROVE  TokenLost(name)'
<1>1. /\ DOMAIN sessions \subseteq DOMAIN sessions'
      /\ \A s \in DOMAIN sessions : sessions'[s].token = sessions[s].token
  <2>1. CASE ServerMoves
    BY <2>1 DEF ServerMoves
  <2>2. CASE ClientMoves
    BY <2>2 DEF ClientMoves, ClientKeeps, SessionsKept, SameAccount
  <2>3. CASE GameMoves
    <3>1. PICK s \in DOMAIN sessions : OnlyForSession(s)
      BY <2>3 DEF GameMoves, GameDoes
    <3>2. QED
      BY <3>1 DEF OnlyForSession, SameAccount
  <2>4. QED
    BY <2>1, <2>2, <2>3
<1>2. QED
  BY <1>1, NextKeepsTokens, LossStays

\* Two sessions that hold the same account have it by the same token.
LEMMA TwoHolders ==
  ASSUME TypeOK, OneLive, HoldersOK, NEW r \in DOMAIN sessions, NEW s \in DOMAIN sessions, r # s,
         Holds(r), Holds(s), sessions[r].name = sessions[s].name
  PROVE  TokenLost(sessions[s].name)
<1> DEFINE name == sessions[s].name
           t == sessions[s].token
           u == sessions[r].token
<1>1. name \in Names
  <2>1. sessions[s] \in Session /\ name # NoName
    BY DEF TypeOK, Holds
  <2>2. QED
    BY <2>1 DEF Session
<1>2. HolderOK(s, name) /\ HolderOK(r, name)
  BY <1>1 DEF HoldersOK
<1>3. CASE tokens[t].state = "live" /\ tokens[u].state = "live"
  <2>1. t \in DOMAIN tokens /\ u \in DOMAIN tokens /\ tokens[t].name = name /\ tokens[u].name = name
    BY <1>2 DEF HolderOK
  <2>2. t = u
    BY <1>3, <2>1 DEF OneLive
  <2>3. QED
    BY <2>1, <2>2 DEF TokenLost
<1>4. QED
  BY <1>2, <1>3 DEF HolderOK

\* Deleting tokens leaves no more live ones.
LEMMA AgedOneLive ==
  ASSUME OneLive, NEW S, NEW why, why # "live", Aged(S, why)
  PROVE  OneLive'
<1>1. ASSUME NEW t \in DOMAIN tokens', tokens'[t].state = "live"
      PROVE  t \in DOMAIN tokens /\ tokens[t].state = "live" /\ tokens'[t].name = tokens[t].name
  BY <1>1 DEF Aged
<1>2. QED
  BY <1>1 DEF OneLive

\* Every step keeps tokens of an account apart.
LEMMA NextOneLive ==
  ASSUME TypeOK, OneLive, ServerMoves \/ ClientMoves \/ GameMoves
  PROVE  OneLive'
<1>1. CASE tokens' = tokens
  BY <1>1 DEF OneLive
<1>2. CASE ServerDeletes
  <2>1. PICK S : \E why \in {"logout", "cleared"} : Aged(S, why)
    BY <1>2 DEF ServerDeletes
  <2>2. PICK why \in {"logout", "cleared"} : Aged(S, why)
    BY <2>1
  <2>3. QED
    BY <2>2, AgedOneLive
<1>3. ASSUME NEW name, Drawn(name) PROVE OneLive'
  <2> DEFINE n == Len(tokens) + 1
  <2>1. /\ DOMAIN tokens' = DOMAIN tokens \cup {n}
        /\ tokens'[n].name = name /\ tokens'[n].state = Saved(name)
        /\ \A t \in DOMAIN tokens : tokens'[t] = tokens[t]
    BY <1>3 DEF Drawn
  <2> HIDE DEF n
  <2>2. Saved(name) = "live" => \A t \in DOMAIN tokens : tokens[t].name = name => tokens[t].state # "live"
    BY DEF Saved, HasToken
  <2>3. QED
    BY <2>1, <2>2 DEF OneLive
<1>4. ASSUME NEW s \in DOMAIN sessions, Performed(s), tokens' # tokens PROVE OneLive'
  <2>1. Aged({t \in DOMAIN tokens : tokens[t].name = sessions[s].name}, "left")
    BY <1>4 DEF Performed
  <2>2. QED
    BY <2>1, AgedOneLive
<1>5. CASE ServerMoves
  BY <1>1, <1>2, <1>3, <1>5 DEF ServerMoves, ServerDoes
<1>6. CASE ClientMoves
  BY <1>1, <1>6 DEF ClientMoves, ClientKeeps
<1>7. CASE GameMoves
  BY <1>1, <1>4, <1>7 DEF GameMoves, GameDoes, Found, Moved, Paid, Left
<1>8. QED
  BY <1>5, <1>6, <1>7

\* A holder that goes on holding keeps its token, or the token was lost.
LEMMA HolderStays ==
  ASSUME TypeOK, ServerMoves \/ ClientMoves \/ GameMoves,
         NEW s \in DOMAIN sessions, NEW name, HolderOK(s, name),
         sessions'[s].token = sessions[s].token,
         Holds(s)' /\ sessions'[s].name = name => Holds(s) /\ sessions[s].name = name,
         sessions[s].token \in DOMAIN tokens /\ tokens[sessions[s].token].state = "live"
           /\ tokens[sessions[s].token].name = name /\ Holds(s) /\ sessions[s].name = name
           => tokens'[sessions[s].token].state = "live" \/ TokenLost(name)'
  PROVE  HolderOK(s, name)'
<1> DEFINE t == sessions[s].token
<1> SUFFICES ASSUME Holds(s)', sessions'[s].name = name
             PROVE  /\ t \in DOMAIN tokens' /\ tokens'[t].name = name
                    /\ TokenLost(name)' \/ tokens'[t].state = "live"
  BY DEF HolderOK
<1>1. /\ t \in DOMAIN tokens /\ tokens[t].name = name
      /\ TokenLost(name) \/ tokens[t].state = "live"
  BY DEF HolderOK
<1>2. t \in DOMAIN tokens' /\ tokens'[t].name = name
  BY <1>1, NextKeepsTokens DEF TokensKept
<1>3. QED
  BY <1>1, <1>2, NextKeepsLoss

\* What a holder does with its session and its jobs, it does as a holder.
LEMMA HoldsBefore ==
  ASSUME TypeOK, JobsOK, NEW s \in DOMAIN sessions, GameDoes(s), ~ Found(s), Holds(s)'
  PROVE  Holds(s) /\ sessions'[s].name = sessions[s].name
<1>1. JobsFit(sessions[s].name, sessions[s].state, jobs[s]) /\ jobs[s] \in Seq(Int)
  BY DEF JobsOK, TypeOK
<1>2. /\ sessions'[s].name # NoName
      /\ sessions'[s].state \in {"found", "room"} \/ Clears(jobs'[s])
  BY DEF Holds
<1>3. CASE Moved(s)
  <2>1. sessions[s].state # "asked"
    BY <1>1, <1>2, <1>3 DEF Moved, JobsFit
  <2>2. QED
    BY <1>1, <1>2, <1>3, <2>1 DEF Moved, Holds
<1>4. CASE (\E delta : Paid(s, delta)) \/ Left(s)
  BY <1>2, <1>4 DEF Paid, Left, Holds
<1>5. CASE Performed(s)
  <2>1. /\ jobs[s] # <<>> /\ jobs'[s] = Tail(jobs[s]) /\ sessions'[s].state = sessions[s].state
        /\ sessions'[s].name = sessions[s].name
    BY <1>5 DEF Performed, SameAccount
  <2>2. Clears(jobs'[s]) => Clears(jobs[s])
    BY <1>1, <2>1, JobDone
  <2>3. QED
    BY <1>2, <2>1, <2>2 DEF Holds
<1>6. QED
  BY <1>3, <1>4, <1>5 DEF GameDoes

\* Who still has jobs for an account holds it.
LEMMA JobsHold ==
  ASSUME JobsOK, NEW s \in DOMAIN sessions, jobs[s] # <<>>
  PROVE  Holds(s)
BY DEF JobsOK, JobsFit, Holds

\* Every step keeps the holders' tokens.
LEMMA NextHolders ==
  ASSUME TypeOK, JobsOK, OneLive, HoldersOK, ServerMoves \/ ClientMoves \/ GameMoves
  PROVE  HoldersOK'
<1>1. ASSUME NEW s \in DOMAIN sessions, NEW name \in Names PROVE HolderOK(s, name)
  BY DEF HoldersOK
<1>2. CASE ServerMoves
  <2> SUFFICES ASSUME NEW s \in DOMAIN sessions, NEW name \in Names PROVE HolderOK(s, name)'
    BY <1>2 DEF ServerMoves, HoldersOK
  <2> DEFINE t == sessions[s].token
  <2>1. sessions' = sessions /\ jobs' = jobs /\ ServerDoes
    BY <1>2 DEF ServerMoves
  <2>2. ASSUME t \in DOMAIN tokens, tokens[t].state = "live", tokens[t].name = name
        PROVE  tokens'[t].state = "live" \/ TokenLost(name)'
    <3>1. CASE tokens' = tokens
      BY <2>2, <3>1
    <3>2. CASE ServerDeletes
      <4>1. PICK S : \E why \in {"logout", "cleared"} : Aged(S, why)
        BY <3>2 DEF ServerDeletes
      <4>2. /\ t \in DOMAIN tokens' /\ tokens'[t].name = name
            /\ tokens'[t].state \in {"live", "logout", "cleared"}
        BY <2>2, <4>1 DEF Aged
      <4>3. QED
        BY <2>1, <4>2 DEF TokenLost
    <3>3. CASE \E x : Drawn(x)
      BY <2>2, <3>3 DEF Drawn
    <3>4. QED
      BY <2>1, <3>1, <3>2, <3>3 DEF ServerDoes
  <2>3. Holds(s)' <=> Holds(s)
    BY <2>1 DEF Holds
  <2>4. QED
    BY <1>1, <2>1, <2>2, <2>3, HolderStays
<1>3. CASE ClientMoves
  <2>1. SessionsKept /\ tokens' = tokens
    BY <1>3 DEF ClientMoves, ClientKeeps
  <2>2. ASSUME NEW s \in DOMAIN sessions', NEW name \in Names PROVE HolderOK(s, name)'
    <3>1. CASE s \in DOMAIN sessions
      <4>1. jobs'[s] = jobs[s] /\ SameAccount(s)
        BY <2>1, <3>1 DEF SessionsKept
      <4>2. Holds(s)' <=> Holds(s)
        BY <4>1 DEF Holds, SameAccount
      <4>3. QED
        BY <1>1, <2>1, <3>1, <4>1, <4>2, HolderStays DEF SameAccount
    <3>2. CASE s \notin DOMAIN sessions
      <4>1. sessions'[s].name = NoName
        BY <2>1, <2>2, <3>2 DEF SessionsKept
      <4>2. QED
        BY <4>1 DEF HolderOK, Holds
    <3>3. QED
      BY <3>1, <3>2
  <2>3. QED
    BY <2>2 DEF HoldersOK
<1>4. CASE GameMoves
  <2>1. PICK r \in DOMAIN sessions : GameDoes(r)
    BY <1>4 DEF GameMoves
  <2>2. OnlyForSession(r)
    BY <2>1 DEF GameDoes
  <2> SUFFICES ASSUME NEW s \in DOMAIN sessions, NEW name \in Names PROVE HolderOK(s, name)'
    BY <2>2 DEF OnlyForSession, HoldersOK
  <2> DEFINE t == sessions[s].token
  <2>3. sessions'[s].token = t
    BY <2>2 DEF OnlyForSession, SameAccount
  <2>4. CASE s = r /\ Found(s)
    <3>1. /\ t \in DOMAIN tokens /\ tokens[t].state = "live" /\ tokens' = tokens
          /\ sessions'[s].name = tokens[t].name
      BY <2>4 DEF Found, SearchUser
    <3>2. QED
      BY <2>3, <3>1 DEF HolderOK
  <2>5. CASE ~ (s = r /\ Found(s))
    <3>1. Holds(s)' => Holds(s) /\ sessions'[s].name = sessions[s].name
      <4>1. CASE s = r
        BY <2>1, <2>5, <4>1, HoldsBefore
      <4>2. CASE s # r
        BY <2>2, <4>2 DEF OnlyForSession, SameAccount, Holds
      <4>3. QED
        BY <4>1, <4>2
    <3>2. ASSUME t \in DOMAIN tokens, tokens[t].state = "live", tokens[t].name = name,
                 Holds(s), sessions[s].name = name, Holds(s)'
          PROVE  tokens'[t].state = "live" \/ TokenLost(name)'
      <4>1. CASE tokens' = tokens
        BY <3>2, <4>1
      <4>2. CASE Performed(r) /\ Head(jobs[r]) = ClearToken
        <5>1. Aged({u \in DOMAIN tokens : tokens[u].name = sessions[r].name}, "left")
          BY <4>2 DEF Performed
        <5>2. jobs[r] # <<>> /\ jobs'[r] = Tail(jobs[r]) /\ SameAccount(r)
          BY <4>2 DEF Performed
        <5>3. Holds(r)
          BY <5>2, JobsHold
        <5>4. CASE s = r
          <6>1. JobsFit(sessions[r].name, sessions[r].state, jobs[r]) /\ jobs[r] \in Seq(Int)
            BY DEF JobsOK, TypeOK
          <6>2. Tail(jobs[r]) = <<>> /\ sessions[r].state = "over"
            BY <4>2, <5>2, <6>1, JobDone
          <6>3. ~ Holds(r)'
            BY <5>2, <6>2 DEF Holds, Clears, SameAccount
          <6>4. QED
            BY <3>2, <5>4, <6>3
        <5>5. CASE s # r /\ sessions[r].name = name
          <6>1. TokenLost(name)
            BY <3>2, <5>3, <5>5, TwoHolders
          <6>2. QED
            BY <6>1, NextKeepsLoss
        <5>6. CASE sessions[r].name # name
          BY <3>2, <5>1, <5>6 DEF Aged
        <5>7. QED
          BY <5>4, <5>5, <5>6
      <4>3. QED
        BY <2>1, <4>1, <4>2 DEF GameDoes, Found, Moved, Paid, Left, Performed
    <3>3. CASE Holds(s)'
      BY <1>1, <2>3, <3>1, <3>2, <3>3, HolderStays
    <3>4. CASE ~ Holds(s)'
      BY <3>4 DEF HolderOK
    <3>5. QED
      BY <3>3, <3>4
  <2>6. QED
    BY <2>4, <2>5
<1>5. QED
  BY <1>2, <1>3, <1>4

\* Inductive: an account has no two live tokens, and whoever holds it has its
\* live token, unless one was lost.
HoldingOK == JobsOK /\ OneLive /\ HoldersOK

\* It holds in the first states, and every step keeps it.
LEMMA HoldingInvariant ==
  /\ Init => HoldingOK
  /\ TypeOK /\ RequestsOK /\ DialoguesOK /\ HoldingOK /\ [Next]_vars => HoldingOK'
<1>1. Init => HoldingOK
  BY DEF Init, AccountsInit, HoldingOK, JobsOK, OneLive, HoldersOK
<1>2. TypeOK /\ RequestsOK /\ DialoguesOK /\ HoldingOK /\ [Next]_vars => HoldingOK'
  BY NextDoes, NextJobs, NextOneLive, NextHolders DEF HoldingOK
<1>3. QED
  BY <1>1, <1>2

\* An account sits in two rooms only after one of its tokens was lost.
THEOREM TwiceNeedsLoss == Spec => []TwiceOnlyAfterLoss
<1> DEFINE Inv == TypeOK /\ RequestsOK /\ DialoguesOK /\ HoldingOK
<1>1. Init => Inv
  BY InitOK, HoldingInvariant
<1>2. Inv /\ [Next]_vars => Inv'
  BY NextDoes, NextType, NextDialogues, HoldingInvariant
<1>3. Inv => TwiceOnlyAfterLoss
  <2> SUFFICES ASSUME Inv, NEW r \in DOMAIN sessions, NEW s \in DOMAIN sessions, r # s,
                      InGame(r), InGame(s), sessions[r].name = sessions[s].name
               PROVE  TokenLost(sessions[s].name)
    BY DEF TwiceOnlyAfterLoss
  <2>1. Holds(r) /\ Holds(s)
    BY DEF InGame, HoldingOK, JobsOK, JobsFit, Holds
  <2>2. QED
    BY <2>1, TwoHolders DEF HoldingOK
<1>4. QED
  BY <1>1, <1>2, <1>3, PTL DEF Spec

-----------------------------------------------------------------------------
(* Chips of the players and of the database                                *)

\* The chips of an account in the database, in the first row of its name
Chips(name) == user[Min(SearchUser(name))].chip

\* The session s does not have more chips of the account of this name than the
\* database will have once its own payments are made, unless a token was lost.
MoneyOK(s, name) ==
  /\ sessions[s].state \in {"found", "room"} /\ sessions[s].name = name
  /\ ~ TokenLost(name)
  => /\ SearchUser(name) # {}
     /\ sessions[s].money <= Chips(name) + SumOf(jobs[s])

MoneysOK == \A s \in DOMAIN sessions : \A name \in Names : MoneyOK(s, name)

\* The first of some rows is the first still when one joins them behind the last.
LEMMA FirstStays ==
  ASSUME NEW n \in Nat, NEW S \in SUBSET (1 .. n), S # {}
  PROVE  Min(S \cup {n + 1}) = Min(S)
<1> DEFINE a == Min(S)
           b == Min(S \cup {n + 1})
<1>1. a \in S /\ \A x \in S : a <= x
  BY LeastMember
<1>2. b \in S \cup {n + 1} /\ \A x \in S \cup {n + 1} : b <= x
  <2>1. S \cup {n + 1} \in SUBSET Nat
    OBVIOUS
  <2>2. QED
    BY <2>1, LeastMember
<1> HIDE DEF a, b
<1>3. a \in 1 .. n /\ b <= a
  BY <1>1, <1>2
<1>4. b \in S
  BY <1>2, <1>3
<1>5. a = b
  BY <1>1, <1>3, <1>4
<1>6. QED
  BY <1>5 DEF a, b

\* Rows that keep their names keep the first row of an account.
LEMMA FirstRowStays ==
  ASSUME TypeOK, SameAccounts, NEW name, SearchUser(name) # {}
  PROVE  /\ SearchUser(name)' = SearchUser(name)
         /\ Min(SearchUser(name)) \in SearchUser(name)
         /\ Min(SearchUser(name)) \in DOMAIN user
         /\ Chips(name)' = user'[Min(SearchUser(name))].chip
         /\ Chips(name) \in Int /\ Chips(name)' \in Int
<1> DEFINE i == Min(SearchUser(name))
<1>1. i \in SearchUser(name) /\ i \in DOMAIN user /\ user[i] \in Row
  BY RowFound
<1>2. SearchUser(name)' = SearchUser(name)
  BY SameRowsFound
<1>3. user'[i] \in Row
  BY <1>1 DEF SameAccounts
<1>4. Chips(name)' = user'[i].chip
  BY <1>2 DEF Chips
<1>5. user[i].chip \in Int /\ user'[i].chip \in Int
  BY <1>1, <1>3 DEF Row
<1>6. QED
  BY <1>1, <1>2, <1>4, <1>5 DEF Chips

\* No step of the server takes chips from an account.
LEMMA ServerKeepsChips ==
  ASSUME TypeOK, ServerDoes, NEW name, SearchUser(name) # {}
  PROVE  /\ SearchUser(name)' # {}
         /\ Chips(name) \in Int /\ Chips(name)' \in Int /\ Chips(name) <= Chips(name)'
<1>1. CASE RowsKept
  <2>1. SameAccounts /\ NotPoorer
    BY <1>1 DEF RowsKept
  <2>2. QED
    BY <2>1, FirstRowStays DEF NotPoorer, Chips
<1>2. ASSUME NEW c \in Clients, Created(c)
      PROVE  /\ SearchUser(name)' # {} /\ Chips(name) \in Int
             /\ Chips(name)' = Chips(name)
  <2> DEFINE n == Len(user)
             i == Min(SearchUser(name))
  <2>1. /\ n \in Nat /\ DOMAIN user = 1 .. n /\ DOMAIN user' = DOMAIN user \cup {n + 1}
        /\ \A k \in DOMAIN user : user'[k] = user[k]
    BY <1>2, CreatedAtEnd DEF Created
  <2>2. i \in SearchUser(name) /\ i \in DOMAIN user /\ user[i] \in Row
    BY RowFound
  <2>3. SearchUser(name) \in SUBSET (1 .. n)
    BY <2>1 DEF SearchUser
  <2>4. SearchUser(name)' \in {SearchUser(name), SearchUser(name) \cup {n + 1}}
    BY <2>1 DEF SearchUser
  <2>5. Min(SearchUser(name)') = i
    <3>1. Min(SearchUser(name) \cup {n + 1}) = i
      <4> HIDE DEF n
      <4> QED
        BY <2>1, <2>3, FirstStays
    <3>2. QED
      BY <2>4, <3>1
  <2>6. Chips(name)' = user'[i].chip
    BY <2>5 DEF Chips
  <2>7. user[i].chip \in Int
    BY <2>2 DEF Row
  <2>8. QED
    BY <2>1, <2>2, <2>4, <2>6, <2>7 DEF Chips
<1>3. QED
  BY <1>1, <1>2 DEF ServerDoes

\* Sums and chips of a session are numbers, before and after a step.
LEMMA MoneyTypes ==
  /\ TypeOK => \A s \in DOMAIN sessions : /\ sessions[s].money \in Int /\ jobs[s] \in Seq(Int)
                                          /\ SumOf(jobs[s]) \in Int
  /\ TypeOK' => \A s \in DOMAIN sessions' : sessions'[s].money \in Int /\ SumOf(jobs'[s]) \in Int
<1>1. ASSUME TypeOK, NEW s \in DOMAIN sessions
      PROVE  /\ sessions[s].money \in Int /\ jobs[s] \in Seq(Int)
             /\ SumOf(jobs[s]) \in Int
  <2>1. sessions[s] \in Session /\ jobs[s] \in Seq(Int)
    BY <1>1 DEF TypeOK
  <2>2. QED
    BY <2>1, SumType DEF Session
<1>2. ASSUME TypeOK', NEW s \in DOMAIN sessions'
      PROVE  sessions'[s].money \in Int /\ SumOf(jobs'[s]) \in Int
  <2>1. sessions'[s] \in Session /\ jobs'[s] \in Seq(Int)
    BY <1>2 DEF TypeOK
  <2>2. QED
    BY <2>1, SumType DEF Session
<1>3. QED
  BY <1>1, <1>2

\* A session whose account is left alone has no more chips than before.
LEMMA MoneyStays ==
  ASSUME TypeOK, ServerMoves \/ ClientMoves \/ GameMoves, NEW s \in DOMAIN sessions, NEW name,
         MoneyOK(s, name), SameAccount(s), jobs'[s] = jobs[s],
         SearchUser(name) # {} =>
           /\ SearchUser(name)' # {}
           /\ Chips(name) \in Int /\ Chips(name)' \in Int /\ Chips(name) <= Chips(name)'
  PROVE  MoneyOK(s, name)'
<1> SUFFICES ASSUME sessions'[s].state \in {"found", "room"}, sessions'[s].name = name,
                    ~ TokenLost(name)'
             PROVE  SearchUser(name)' # {} /\ sessions'[s].money <= Chips(name)' + SumOf(jobs'[s])
  BY DEF MoneyOK
<1>1. ~ TokenLost(name)
  BY NextKeepsLoss
<1>2. SearchUser(name) # {} /\ sessions[s].money <= Chips(name) + SumOf(jobs[s])
  BY <1>1 DEF MoneyOK, SameAccount
<1>3. sessions[s].money \in Int /\ SumOf(jobs[s]) \in Int
  BY MoneyTypes
<1>4. sessions'[s].money = sessions[s].money /\ SumOf(jobs'[s]) = SumOf(jobs[s])
  BY DEF SameAccount
<1>5. QED
  BY <1>2, <1>3, <1>4

\* The session a step of the game server is for: it gets chips only with the
\* database's, or with a payment that waits.
LEMMA OwnMoney ==
  ASSUME TypeOK, TypeOK', JobsOK, NEW s \in DOMAIN sessions, GameDoes(s), GameKeeps,
         NEW name \in Names, MoneyOK(s, name)
  PROVE  MoneyOK(s, name)'
<1> SUFFICES ASSUME sessions'[s].state \in {"found", "room"}, sessions'[s].name = name,
                    ~ TokenLost(name)'
             PROVE  SearchUser(name)' # {} /\ sessions'[s].money <= Chips(name)' + SumOf(jobs'[s])
  BY DEF MoneyOK
<1>1. ~ TokenLost(name)
  BY NextKeepsLoss DEF GameMoves
<1>2. /\ sessions[s].money \in Int /\ jobs[s] \in Seq(Int) /\ SumOf(jobs[s]) \in Int
  BY MoneyTypes
<1>3. /\ JobsFit(sessions[s].name, sessions[s].state, jobs[s]) /\ name # NoName
  BY AccountsAssumption DEF JobsOK
<1>4. CASE Found(s)
  <2>1. PICK i \in DOMAIN user : /\ SearchUser(tokens[sessions[s].token].name) = {i}
                                 /\ sessions'[s].name = user[i].name
                                 /\ sessions'[s].money = user[i].chip
    BY <1>4 DEF Found
  <2>2. tokens[sessions[s].token].name = name
    BY <2>1 DEF SearchUser
  <2>3. SearchUser(name) = {i} /\ user' = user
    BY <1>4, <2>1, <2>2 DEF Found
  <2>4. Min(SearchUser(name)) = i
    BY <2>3, RowFound
  <2>5. SearchUser(name)' = {i} /\ Chips(name)' = user[i].chip /\ user[i].chip \in Int
    <3>1. SearchUser(name)' = SearchUser(name)
      BY <2>3 DEF SearchUser
    <3>2. user[i] \in Row
      BY RowsAreRows
    <3>3. QED
      BY <2>3, <2>4, <3>1, <3>2 DEF Chips, Row
  <2>6. jobs'[s] = <<>>
    BY <1>3, <1>4 DEF Found, JobsFit
  <2>7. SumOf(jobs'[s]) = 0 /\ sessions'[s].money = Chips(name)' /\ Chips(name)' \in Int
    BY <2>1, <2>5, <2>6, SumOfNone
  <2>8. SearchUser(name)' # {}
    BY <2>5
  <2>9. QED
    BY <2>7, <2>8
<1>5. CASE Moved(s) \/ \E delta : Paid(s, delta)
  <2>1. user' = user /\ sessions[s].state \in {"found", "room"} /\ sessions[s].name = name
    BY <1>3, <1>5 DEF Moved, Paid, JobsFit
  <2>2. SearchUser(name) # {} /\ sessions[s].money <= Chips(name) + SumOf(jobs[s])
    BY <1>1, <2>1 DEF MoneyOK
  <2>3. SearchUser(name)' # {} /\ Chips(name)' = Chips(name) /\ Chips(name) \in Int
    <3>1. SameAccounts
      BY <2>1, RowsUnchanged DEF RowsKept
    <3>2. QED
      BY <2>1, <2>2, <3>1, FirstRowStays DEF Chips
  <2>4. CASE Moved(s)
    BY <2>2, <2>3, <2>4 DEF Moved
  <2>5. ASSUME NEW delta, Paid(s, delta) PROVE sessions'[s].money <= Chips(name)' + SumOf(jobs'[s])
    <3>1. delta \in Int /\ sessions'[s].money = sessions[s].money + delta
      BY <2>5 DEF Paid
    <3>2. SumOf(jobs'[s]) = SumOf(jobs[s]) + delta
      BY <1>2, <2>5, <3>1, SumOfMore DEF Paid
    <3>3. QED
      BY <1>2, <2>2, <2>3, <3>1, <3>2
  <2>6. QED
    BY <1>5, <2>3, <2>4, <2>5
<1>6. CASE Left(s)
  BY <1>6 DEF Left
<1>7. CASE Performed(s)
  <2> DEFINE delta == Head(jobs[s])
  <2>1. jobs[s] # <<>> /\ jobs'[s] = Tail(jobs[s]) /\ SameAccount(s)
    BY <1>7 DEF Performed
  <2>2. sessions[s].state # "over"
    BY <2>1 DEF SameAccount
  <2>3. delta # ClearToken
    BY <1>2, <1>3, <2>1, <2>2, JobDone
  <2>4. /\ SameAccounts
        /\ \A i \in DOMAIN user :
             user'[i].chip = IF user[i].name = name THEN user[i].chip + delta ELSE user[i].chip
    BY <1>7, <2>1, <2>3 DEF Performed, SameAccount
  <2>5. SearchUser(name) # {} /\ sessions[s].money <= Chips(name) + SumOf(jobs[s])
    BY <1>1, <2>1 DEF MoneyOK, SameAccount
  <2>6. delta \in Int /\ SumOf(jobs'[s]) = SumOf(jobs[s]) - delta
    BY <1>2, <2>1, SumOfRest
  <2> HIDE DEF delta
  <2>7. /\ SearchUser(name)' # {} /\ Chips(name) \in Int
        /\ Chips(name)' = Chips(name) + delta
    <3> DEFINE i == Min(SearchUser(name))
    <3>1. /\ SearchUser(name)' = SearchUser(name) /\ i \in SearchUser(name) /\ i \in DOMAIN user
          /\ Chips(name)' = user'[i].chip /\ Chips(name) \in Int
      BY <2>4, <2>5, FirstRowStays
    <3>2. user[i].name = name /\ user[i].chip = Chips(name)
      BY <3>1 DEF SearchUser, Chips
    <3> HIDE DEF i
    <3>3. user'[i].chip = user[i].chip + delta
      BY <2>4, <3>1, <3>2
    <3>4. QED
      BY <2>5, <3>1, <3>2, <3>3
  <2>8. sessions'[s].money = sessions[s].money
    BY <2>1 DEF SameAccount
  <2>9. QED
    BY <1>2, <2>5, <2>6, <2>7, <2>8
<1>8. QED
  BY <1>4, <1>5, <1>6, <1>7 DEF GameDoes

\* Every step keeps players from being richer than the database.
LEMMA NextMoney ==
  ASSUME TypeOK, TypeOK', HoldingOK, MoneysOK, ServerMoves \/ ClientMoves \/ GameMoves
  PROVE  MoneysOK'
<1>1. CASE ServerMoves
  <2>1. ServerDoes /\ sessions' = sessions /\ jobs' = jobs
    BY <1>1 DEF ServerMoves
  <2>2. ASSUME NEW s \in DOMAIN sessions, NEW name \in Names PROVE MoneyOK(s, name)'
    <3>1. MoneyOK(s, name) /\ SameAccount(s)
      BY <2>1 DEF MoneysOK, SameAccount
    <3>2. QED
      BY <1>1, <2>1, <3>1, ServerKeepsChips, MoneyStays
  <2>3. QED
    BY <2>1, <2>2 DEF MoneysOK
<1>2. CASE ClientMoves
  <2>1. SessionsKept /\ user' = user
    BY <1>2 DEF ClientMoves, ClientKeeps
  <2>2. SameAccounts
    BY <2>1, RowsUnchanged DEF RowsKept
  <2>3. ASSUME NEW s \in DOMAIN sessions', NEW name \in Names PROVE MoneyOK(s, name)'
    <3>1. CASE s \in DOMAIN sessions
      <4>1. MoneyOK(s, name) /\ SameAccount(s) /\ jobs'[s] = jobs[s]
        BY <2>1, <3>1 DEF SessionsKept, MoneysOK
      <4>2. SearchUser(name) # {} =>
              /\ SearchUser(name)' # {}
              /\ Chips(name) \in Int /\ Chips(name)' \in Int /\ Chips(name) <= Chips(name)'
        BY <2>1, <2>2, FirstRowStays DEF Chips
      <4>3. QED
        BY <1>2, <3>1, <4>1, <4>2, MoneyStays
    <3>2. CASE s \notin DOMAIN sessions
      <4>1. sessions'[s].state = "asked"
        BY <2>1, <2>3, <3>2 DEF SessionsKept
      <4>2. QED
        BY <4>1 DEF MoneyOK
    <3>3. QED
      BY <3>1, <3>2
  <2>4. QED
    BY <2>3 DEF MoneysOK
<1>3. CASE GameMoves
  <2>1. PICK r \in DOMAIN sessions : GameDoes(r) /\ GameKeeps
    BY <1>3 DEF GameMoves
  <2>2. OnlyForSession(r)
    BY <2>1 DEF GameDoes
  <2> SUFFICES ASSUME NEW s \in DOMAIN sessions, NEW name \in Names PROVE MoneyOK(s, name)'
    BY <2>2 DEF OnlyForSession, MoneysOK
  <2>3. MoneyOK(s, name) /\ JobsOK
    BY DEF MoneysOK, HoldingOK
  <2>4. CASE s = r
    BY <2>1, <2>3, <2>4, OwnMoney
  <2>5. CASE s # r
    <3>1. jobs'[s] = jobs[s] /\ SameAccount(s)
      BY <2>2, <2>5 DEF OnlyForSession
    <3>2. CASE user' = user
      <4>1. SameAccounts
        BY <3>2, RowsUnchanged DEF RowsKept
      <4>2. SearchUser(name) # {} =>
              /\ SearchUser(name)' # {}
              /\ Chips(name) \in Int /\ Chips(name)' \in Int /\ Chips(name) <= Chips(name)'
        BY <3>2, <4>1, FirstRowStays DEF Chips
      <4>3. QED
        BY <1>3, <2>3, <3>1, <4>2, MoneyStays
    <3>3. CASE Performed(r) /\ Head(jobs[r]) # ClearToken
      <4>1. /\ SameAccounts
            /\ \A i \in DOMAIN user : user[i].name # sessions[r].name => user'[i].chip = user[i].chip
            /\ jobs[r] # <<>>
        BY <3>3 DEF Performed
      <4>2. CASE sessions[r].name = name /\ Holds(s) /\ sessions[s].name = name
        <5>1. Holds(r)
          BY <2>3, <4>1, JobsHold
        <5>2. TokenLost(name)
          BY <2>5, <4>2, <5>1, TwoHolders DEF HoldingOK
        <5>3. TokenLost(name)'
          BY <1>3, <5>2, NextKeepsLoss
        <5>4. QED
          BY <5>3 DEF MoneyOK
      <4>3. CASE ~ (Holds(s) /\ sessions[s].name = name)
        <5>1. name # NoName
          BY AccountsAssumption
        <5>2. QED
          BY <3>1, <4>3, <5>1 DEF MoneyOK, Holds, SameAccount
      <4>4. CASE sessions[r].name # name
        <5>1. SearchUser(name) # {} =>
                /\ SearchUser(name)' # {}
                /\ Chips(name) \in Int /\ Chips(name)' \in Int /\ Chips(name) <= Chips(name)'
          <6> SUFFICES ASSUME SearchUser(name) # {}
                       PROVE  /\ SearchUser(name)' # {}
                              /\ Chips(name) \in Int /\ Chips(name)' = Chips(name)
            OBVIOUS
          <6>1. /\ Min(SearchUser(name)) \in SearchUser(name) /\ SearchUser(name)' # {}
                /\ Chips(name) \in Int /\ Chips(name)' = user'[Min(SearchUser(name))].chip
            BY <4>1, FirstRowStays
          <6>2. user'[Min(SearchUser(name))].chip = Chips(name)
            BY <4>1, <4>4, <6>1 DEF SearchUser, Chips
          <6>3. QED
            BY <6>1, <6>2
        <5>2. QED
          BY <1>3, <2>3, <3>1, <5>1, MoneyStays
      <4>5. QED
        BY <4>2, <4>3, <4>4
    <3>4. QED
      BY <2>1, <3>2, <3>3 DEF GameDoes, Found, Moved, Paid, Left, Performed
  <2>6. QED
    BY <2>4, <2>5
<1>4. QED
  BY <1>1, <1>2, <1>3

\* While no token of an account is lost, its payments under way are those of the
\* one session that plays with it.
LEMMA PendingOfOne ==
  ASSUME TypeOK, HoldingOK, NEW s \in DOMAIN sessions, InGame(s), ~ TokenLost(sessions[s].name)
  PROVE  Pending(sessions[s].name) = SumOf(jobs[s])
<1> DEFINE name == sessions[s].name
           n == Len(sessions)
           q == [r \in DOMAIN sessions |-> IF sessions[r].name = name THEN SumOf(jobs[r]) ELSE 0]
<1>1. n \in Nat /\ DOMAIN sessions = 1 .. n
  BY DEF TypeOK
<1>2. Len(q) = n /\ q[s] = SumOf(jobs[s]) /\ q[s] \in Int
  BY <1>1, MoneyTypes
<1>3. Holds(s)
  BY DEF HoldingOK, JobsOK, JobsFit, Holds, InGame
<1>4. ASSUME NEW r \in 1 .. n, r # s PROVE q[r] = 0
  <2>1. CASE sessions[r].name = name
    <3>1. jobs[r] = <<>>
      BY <1>1, <1>3, <1>4, <2>1, JobsHold, TwoHolders DEF HoldingOK
    <3>2. QED
      BY <1>1, <3>1, SumOfNone
  <2>2. CASE sessions[r].name # name
    BY <1>1, <2>2
  <2>3. QED
    BY <2>1, <2>2
<1>5. SumOf(q) = q[s]
  <2> HIDE DEF q
  <2> QED
    BY <1>1, <1>2, <1>4, SumOfOne
<1>6. QED
  BY <1>2, <1>5 DEF Pending

\* As long as no token of the account is lost, nobody plays with chips that a
\* payment under way has spent.
THEOREM PlayersAreNotRicher == Spec => []NeverRicherThanDatabase
<1> DEFINE Inv == TypeOK /\ RequestsOK /\ DialoguesOK /\ HoldingOK /\ MoneysOK
<1>1. Init => Inv
  <2>1. Init => MoneysOK
    BY DEF Init, MoneysOK
  <2>2. QED
    BY <2>1, InitOK, HoldingInvariant
<1>2. Inv /\ [Next]_vars => Inv'
  BY NextDoes, NextType, NextDialogues, HoldingInvariant, NextMoney
<1>3. Inv => NeverRicherThanDatabase
  <2> SUFFICES ASSUME Inv, NEW s \in DOMAIN sessions, InGame(s), ~ TokenLost(sessions[s].name)
               PROVE  sessions[s].money <= user[Min(SearchUser(sessions[s].name))].chip
                                           + Pending(sessions[s].name)
    BY DEF NeverRicherThanDatabase
  <2>1. sessions[s].name \in Names
    <3>1. sessions[s] \in Session /\ sessions[s].name # NoName
      BY DEF TypeOK, HoldingOK, JobsOK, JobsFit, InGame
    <3>2. QED
      BY <3>1 DEF Session
  <2>2. sessions[s].money <= Chips(sessions[s].name) + SumOf(jobs[s])
    BY <2>1 DEF MoneysOK, MoneyOK, InGame
  <2>3. QED
    BY <2>2, PendingOfOne DEF Chips
<1>4. QED
  BY <1>1, <1>2, <1>3, PTL DEF Spec
=============================================================================
