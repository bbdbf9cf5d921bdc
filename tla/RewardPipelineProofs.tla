------------------------ MODULE RewardPipelineProofs ------------------------
(***************************************************************************)
(* Theorems about RewardPipeline: what createAllocations allocates adds up   *)
(* to the reward, users are not credited more than it, and it is moved to    *)
(* the vault once.  For every amount, correction and set of shares, and for  *)
(* any number of calls that interleave.                                      *)
(***************************************************************************)
EXTENDS RewardPipeline, NatSets

-----------------------------------------------------------------------------
(* The inductive invariant. *)

AmountOf(r) == IF r = "reward" THEN Amount ELSE Corrected - Amount

AllShares == UNION {p.shares : p \in Setups}

\* Every copy of a row has the amount of its reward, and what is worked on is a row.
AmountInv ==
  /\ \A r \in Rewards : row[r] # None => row[r].amount = AmountOf(r)
  /\ confirm # None => confirm.row.amount = AmountOf(confirm.id)
  /\ \A c \in Creators : create[c] # None =>
       row[create[c].id] # None /\ create[c].row.amount = AmountOf(create[c].id)
  /\ move # None =>
       /\ row[move.id] # None /\ move.row.amount = AmountOf(move.id)
       /\ \A r \in Rewards : move.later[r] # None =>
            row[r] # None /\ move.later[r].amount = AmountOf(r)
  /\ dist # None /\ dist.pc = "end" =>
       dist.row # None /\ row[dist.id] # None /\ dist.row.amount = AmountOf(dist.id)
  /\ \A r \in Rewards : Allocated(r) # {} => row[r] # None

\* How far a call of createAllocations is.
Underway(t) ==
  /\ t.todo \subseteq DOMAIN t.shares
  /\ ~t.saved => t.todo = DOMAIN t.shares
  /\ t.saved => t.todo # {}

\* The allocations of a reward are some of those computed from shares s.
SharesFit(r, s) ==
  \A u \in Allocated(r) : u \in DOMAIN s /\ alloc[r][u].amount = Computed(AmountOf(r), s)[u]

\* A call has a reward to itself.
Alone ==
  \A c, d \in Creators : create[c] # None /\ create[d] # None /\ create[c].id = create[d].id => c = d

\* The reward of a call has the allocations of its shares that the call has made.
CallFits(c) ==
  create[c] # None =>
    /\ Allocated(create[c].id) = DOMAIN create[c].shares \ create[c].todo
    /\ SharesFit(create[c].id, create[c].shares)

\* A reward has allocations of one set of shares, all of them when no call is under way.
RewardFits(r) ==
  Allocated(r) # {} =>
    \E s \in AllShares :
      SharesFit(r, s) /\ ("crash" \in seen \/ Creating(r) # {} \/ Allocated(r) = DOMAIN s)

AllocInv ==
  /\ \A c \in Creators : create[c] # None => Underway(create[c])
  /\ "overlap" \notin seen =>
       Alone /\ (\A c \in Creators : CallFits(c)) /\ (\A r \in Rewards : RewardFits(r))

\* From its first allocation on nothing of a reward stays undistributed.
RemainderInv ==
  seen \cap {"overlap", "stale"} = {} =>
    \A r \in Rewards :
      Allocated(r) # {} \/ (\E c \in Creating(r) : create[c].saved) => row[r].remainder = 0

\* What was credited, and what a distribution is about to credit, is what was allocated.
CreditInv ==
  /\ dist # None /\ dist.pc = "save" => dist.todo # {}
  /\ dist # None => \A u \in dist.todo : dist.rows[u] # None /\ alloc[dist.id][u] # None
  /\ "overlap" \notin seen =>
       /\ \A r \in Rewards, u \in Users :
            credited[r][u] # None => alloc[r][u] # None /\ credited[r][u] = alloc[r][u].amount
       /\ dist # None => \A u \in dist.todo : dist.rows[u].amount = alloc[dist.id][u].amount

\* A transfer that reached the vault has its receipt, or is about to get it.
MoveInv ==
  seen \cap {"lost", "db", "crash"} = {} =>
    \A r \in Rewards :
      \/ vault[r] = 0
      \/ vault[r] = 1 /\ r \in marked
      \/ vault[r] = 1 /\ move # None /\ move.id = r /\ move.pc = "mark"

RewardInv == TypeOK /\ AmountInv /\ AllocInv /\ RemainderInv /\ CreditInv /\ MoveInv

-----------------------------------------------------------------------------
(* The arithmetic of createAllocations. *)

\* Rounding a product down towards zero keeps it within the product.
LEMMA RoundedProduct ==
  ASSUME NEW n \in Int, NEW w \in Nat, NEW d \in Nat \ {0}, NEW r, r = RoundDown(n * w, d)
  PROVE  /\ r \in Int
         /\ n >= 0 => r >= 0 /\ d * r <= n * w
         /\ n <= 0 => r <= 0 /\ n * w <= d * r
<1>1. \A a \in Nat : a \div d \in Nat /\ d * (a \div d) <= a
  OBVIOUS
<1>2. n * w \in Int /\ (n >= 0 => n * w >= 0) /\ (n <= 0 => n * w <= 0)
  OBVIOUS
<1>3. PICK m \in Int : m = n * w
  BY <1>2
<1>4. CASE m >= 0
  <2>1. RoundDown(m, d) = m \div d /\ m \div d \in Nat /\ d * (m \div d) <= m
    BY <1>1, <1>4 DEF RoundDown
  <2>2. PICK q \in Nat : q = m \div d
    BY <2>1
  <2>3. n <= 0 => m = 0
    BY <1>2, <1>3, <1>4
  <2>4. m = 0 => q <= 0 /\ m <= d * q
    <3>1. \A k \in Nat : d * k <= 0 => k = 0
      OBVIOUS
    <3>2. d * q \in Int /\ d * q >= 0
      OBVIOUS
    <3> QED BY <2>1, <2>2, <3>1, <3>2
  <2> QED BY <1>3, <1>4, <2>1, <2>2, <2>3, <2>4
<1>5. CASE m < 0
  <2>1. /\ RoundDown(m, d) = -((-m) \div d) /\ (-m) \div d \in Nat
        /\ d * ((-m) \div d) <= -m
    BY <1>1, <1>5 DEF RoundDown
  <2>2. PICK q \in Nat : q = (-m) \div d
    BY <2>1
  <2>3. d * (-q) = -(d * q) /\ d * q \in Int
    OBVIOUS
  <2>4. m <= d * (-q) /\ -q <= 0 /\ -q \in Int
    BY <2>1, <2>2, <2>3
  <2>5. ~(n >= 0)
    BY <1>2, <1>3, <1>5
  <2> QED BY <1>3, <2>1, <2>2, <2>4, <2>5
<1> QED BY <1>4, <1>5

\* Dividing an inequality by a positive number.
LEMMA Divides ==
  ASSUME NEW d \in Nat \ {0}, NEW m \in Int, NEW n \in Int, d * m <= n * d
  PROVE  m <= n
<1>1. SUFFICES ASSUME m > n PROVE FALSE
  OBVIOUS
<1>2. PICK k \in Nat : m = n + 1 + k
  <2>1. m - n - 1 \in Nat /\ m = n + 1 + (m - n - 1)
    BY <1>1
  <2> QED BY <2>1
<1>3. d * m = n * d + d + d * k
  BY <1>2
<1>4. d * k >= 0 /\ d * k \in Int /\ n * d \in Int
  OBVIOUS
<1> QED BY <1>3, <1>4

\* The shares an allocation is made from.
Shares(s) == DOMAIN s \subseteq Users /\ \A u \in DOMAIN s : s[u] \in Nat \ {0}

\* The shares of every setup are such.
LEMMA AllSharesAre == \A s \in AllShares : Shares(s) /\ IsFiniteSet(DOMAIN s)
<1>1. \A s \in AllShares : Shares(s)
  BY RewardAssumption DEF AllShares, Shares
<1>2. \A s \in AllShares : IsFiniteSet(DOMAIN s)
  BY <1>1, RewardAssumption, FS_Subset DEF Shares
<1> QED BY <1>1, <1>2

\* The first of some users is one of them.
LEMMA FirstIsOne ==
  ASSUME NEW s, Shares(s), NEW us, us \subseteq DOMAIN s, us # {}
  PROVE  First(s, us) \in us
<1> DEFINE Before(u, v) == s[u] > s[v] \/ (s[u] = s[v] /\ u <= v)
           F == {T \in SUBSET us : T = {} \/ \E u \in T : \A v \in T : Before(u, v)}
<1>1. IsFiniteSet(us) /\ \A u \in us : u \in Nat /\ s[u] \in Nat
  <2>1. us \in SUBSET Users
    BY DEF Shares
  <2>2. \A k, u : u \in 1..k => u \in Nat
    OBVIOUS
  <2>3. \A u \in us : u \in Nat
    BY <2>1, <2>2, RewardAssumption
  <2>4. IsFiniteSet(us)
    BY <2>1, RewardAssumption, FS_Subset
  <2> QED BY <2>3, <2>4 DEF Shares
<1>2. {} \in F
  OBVIOUS
<1>3. ASSUME NEW T \in F, NEW y \in us \ T PROVE T \cup {y} \in F
  <2>1. CASE T = {}
    BY <1>1, <2>1
  <2>2. CASE T # {}
    <3>1. PICK u \in T : \A v \in T : Before(u, v)
      BY <2>2
    <3>2. u \in us
      BY <3>1
    <3>3. CASE Before(u, y)
      <4>1. \A v \in T \cup {y} : Before(u, v)
        BY <3>1, <3>3
      <4> QED BY <3>1, <4>1
    <3>4. CASE Before(y, u)
      <4>1. \A v \in T \cup {y} : Before(y, v)
        BY <1>1, <3>1, <3>2, <3>4
      <4> QED BY <4>1
    <3>5. Before(u, y) \/ Before(y, u)
      BY <1>1, <3>2
    <3> QED BY <3>3, <3>4, <3>5
  <2> QED BY <2>1, <2>2
<1>4. us \in F
  <2>1. F \in SUBSET SUBSET us
    OBVIOUS
  <2> HIDE DEF F
  <2> QED BY <1>1, <1>2, <1>3, <2>1, FiniteInduction
<1>5. \E u \in us : \A v \in us : s[u] > s[v] \/ (s[u] = s[v] /\ u <= v)
  BY <1>4
<1> QED BY <1>5 DEF First

\* A quotient rounded to the nearest exceeds the exact one by a half at most.
LEMMA HalfUpAtMost ==
  ASSUME NEW w \in Nat, NEW d \in Nat \ {0}
  PROVE  HalfUp(w, d) \in Nat /\ d * (2 * HalfUp(w, d) - 1) <= 2 * w
<1>1. \A a \in Nat, e \in Nat \ {0} : a \div e \in Nat /\ e * (a \div e) <= a
  OBVIOUS
<1>2. 2 * w + d \in Nat /\ 2 * d \in Nat \ {0}
  OBVIOUS
<1>3. PICK q \in Nat : q = HalfUp(w, d) /\ (2 * d) * q <= 2 * w + d
  BY <1>1, <1>2 DEF HalfUp
<1>4. (2 * d) * q = d * (2 * q - 1) + d /\ d * (2 * q - 1) \in Int
  OBVIOUS
<1>5. PICK m \in Int : m = d * (2 * q - 1)
  BY <1>4
<1>6. m + d <= 2 * w + d
  BY <1>3, <1>4, <1>5
<1> QED BY <1>3, <1>5, <1>6

\* What the ratios of some shares add up to: the whole, and half a unit for each user.
LEMMA RatioSum ==
  ASSUME NEW s, Shares(s), IsFiniteSet(DOMAIN s), DOMAIN s # {}
  PROVE  LET q == [u \in DOMAIN s |-> Ratio(s, u)]
         IN  /\ \A u \in DOMAIN s : Ratio(s, u) \in Nat
             /\ SumFunctionOnSet(q, DOMAIN s) \in Int
             /\ 2 * SumFunctionOnSet(q, DOMAIN s) <= 2 * Scale + Cardinality(DOMAIN s)
<1> DEFINE D == DOMAIN s
           q == [u \in D |-> Ratio(s, u)]
           g == [u \in D |-> 2 * Ratio(s, u) - 1]
           h == [u \in D |-> 2 * Ratio(s, u)]
<1>1. PICK d \in Nat \ {0} : d = SumFunctionOnSet(s, D) /\ d = TotalShares(s)
  <2>1. PICK a \in D : TRUE
    OBVIOUS
  <2>2. \A u \in D : s[u] \in Int
    BY DEF Shares
  <2>3. SumFunctionOnSet(s, D) = s[a] + SumFunctionOnSet(s, D \ {a})
    BY <2>2, SumFacts
  <2>4. 0 <= SumFunctionOnSet(s, D \ {a}) /\ SumFunctionOnSet(s, D \ {a}) \in Int
    <3>1. IsFiniteSet(D \ {a}) /\ {} \in SUBSET (D \ {a}) /\ \A u \in D \ {a} : s[u] \in Nat
      BY FS_Subset DEF Shares
    <3>2. SumFunctionOnSet(s, {}) <= SumFunctionOnSet(s, D \ {a})
      BY <3>1, SumMonotone
    <3>3. SumFunctionOnSet(s, {}) = 0
      BY FS_EmptySet, SumFacts
    <3>4. SumFunctionOnSet(s, D \ {a}) \in Int
      BY <3>1, SumFacts
    <3> QED BY <3>2, <3>3, <3>4
  <2>5. s[a] \in Nat \ {0}
    BY DEF Shares
  <2>6. SumFunctionOnSet(s, D) \in Nat \ {0}
    BY <2>3, <2>4, <2>5
  <2> QED BY <2>6 DEF TotalShares, SumFunction
<1>2. Scale \in Nat \ {0}
  BY RewardAssumption
<1>3. ASSUME NEW u \in D
      PROVE  Ratio(s, u) \in Nat /\ d * (2 * Ratio(s, u) - 1) <= (2 * Scale) * s[u] /\ s[u] \in Int
  <2>1. s[u] \in Nat /\ s[u] * Scale \in Nat
    <3>1. s[u] \in Nat
      BY DEF Shares
    <3>2. \A x, y \in Nat : x * y \in Nat
      OBVIOUS
    <3> QED BY <1>2, <3>1, <3>2
  <2>2. Ratio(s, u) = HalfUp(s[u] * Scale, d)
    BY <1>1 DEF Ratio
  <2>3. Ratio(s, u) \in Nat /\ d * (2 * Ratio(s, u) - 1) <= 2 * (s[u] * Scale)
    BY <2>1, <2>2, HalfUpAtMost
  <2>4. 2 * (s[u] * Scale) = (2 * Scale) * s[u]
    BY <1>2, <2>1
  <2> QED BY <2>1, <2>3, <2>4
<1>4. \A u \in D : /\ q[u] \in Int /\ g[u] \in Int /\ h[u] \in Int /\ s[u] \in Int
                   /\ h[u] = g[u] + 1 /\ 2 * q[u] <= 1 * h[u]
                   /\ d * g[u] <= (2 * Scale) * s[u]
  BY <1>3
<1> HIDE DEF q, g, h
<1>5. SumFunctionOnSet(h, D) = SumFunctionOnSet(g, D) + Cardinality(D)
  BY <1>4, SumOfSuccessors
<1>6. 2 * SumFunctionOnSet(q, D) <= 1 * SumFunctionOnSet(h, D)
  <2>1. 2 \in Int /\ 1 \in Int
    OBVIOUS
  <2> QED BY <1>4, <2>1, SumScaled
<1>7. SumFunctionOnSet(q, D) \in Int /\ SumFunctionOnSet(g, D) \in Int /\ SumFunctionOnSet(h, D) \in Int
  BY <1>4, SumFacts
<1>8. SumFunctionOnSet(g, D) <= 2 * Scale
  <2>1. d * SumFunctionOnSet(g, D) <= (2 * Scale) * SumFunctionOnSet(s, D)
    <3>1. d \in Int /\ 2 * Scale \in Int
      BY <1>2
    <3> QED BY <1>4, <3>1, SumScaled
  <2>2. d * SumFunctionOnSet(g, D) <= (2 * Scale) * d
    BY <1>1, <2>1
  <2>3. 2 * Scale \in Int
    BY <1>2
  <2> QED BY <1>7, <2>2, <2>3, Divides
<1>9. Cardinality(D) \in Nat
  BY FS_CardinalityType
<1>10. 2 * SumFunctionOnSet(q, D) <= 2 * Scale + Cardinality(D)
  BY <1>2, <1>5, <1>6, <1>7, <1>8, <1>9
<1> QED BY <1>3, <1>7, <1>10 DEF q

\* Multiplying an inequality by a natural.
LEMMA Multiplies ==
  ASSUME NEW a \in Nat, NEW x \in Int, NEW y \in Int, x <= y
  PROVE  a * x <= a * y
<1>1. PICK z \in Nat : y = x + z
  <2>1. y - x \in Nat /\ y = x + (y - x)
    OBVIOUS
  <2> QED BY <2>1
<1>2. a * y = a * x + a * z
  BY <1>1
<1>3. a * z \in Nat /\ a * x \in Int
  OBVIOUS
<1> QED BY <1>2, <1>3

\* What the parts of an amount add up to: a positive one, or more by rounded ratios
\* only; nothing positive for a negative one.
LEMMA PartsSum ==
  ASSUME NEW s, Shares(s), IsFiniteSet(DOMAIN s), DOMAIN s # {}, NEW n \in Int
  PROVE  LET p == SumFunction(Parts(n, s))
         IN  /\ p \in Int
             /\ \A u \in DOMAIN s : Parts(n, s)[u] \in Int
             /\ n >= 0 => /\ WithinRounding(p, n, Cardinality(DOMAIN s))
                          /\ \A u \in DOMAIN s : Parts(n, s)[u] >= 0
             /\ n <= 0 => p <= 0
<1> DEFINE D == DOMAIN s
           f == Parts(n, s)
           q == [u \in D |-> Ratio(s, u)]
<1>1. DOMAIN f = D /\ \A u \in D : f[u] = RoundDown(n * Ratio(s, u), Scale)
  BY DEF Parts
<1>2. Scale \in Nat \ {0}
  BY RewardAssumption
<1>3. PICK k \in Nat, t \in Int : /\ k = Cardinality(D) /\ t = SumFunctionOnSet(q, D)
                                 /\ 2 * t <= 2 * Scale + k
  BY RatioSum, FS_CardinalityType
<1>4. ASSUME NEW u \in D
      PROVE  /\ f[u] \in Int /\ q[u] \in Int
             /\ n >= 0 => f[u] >= 0 /\ Scale * f[u] <= n * q[u]
             /\ n <= 0 => f[u] <= 0
  <2>1. Ratio(s, u) \in Nat /\ f[u] = RoundDown(n * Ratio(s, u), Scale) /\ q[u] = Ratio(s, u)
    BY <1>1, RatioSum
  <2>2. PICK w \in Nat, c \in Nat \ {0} : w = Ratio(s, u) /\ c = Scale
    BY <1>2, <2>1
  <2>3. PICK r : r = f[u] /\ r = RoundDown(n * w, c)
    BY <2>1, <2>2
  <2>4. /\ r \in Int
        /\ n >= 0 => r >= 0 /\ c * r <= n * w
        /\ n <= 0 => r <= 0
    BY <2>3, RoundedProduct
  <2> HIDE DEF f, q
  <2> QED BY <2>1, <2>2, <2>3, <2>4
<1> HIDE DEF f, q
<1>5. PICK p \in Int : p = SumFunctionOnSet(f, D) /\ p = SumFunction(Parts(n, s))
  <2>1. SumFunctionOnSet(f, D) \in Int
    BY <1>4, SumFacts
  <2> QED BY <1>1, <2>1 DEF SumFunction, f
<1>6. ASSUME n >= 0 PROVE WithinRounding(p, n, k)
  <2>1. Scale * p <= n * t
    <3>1. Scale \in Int /\ \A u \in D : f[u] \in Int /\ q[u] \in Int /\ Scale * f[u] <= n * q[u]
      BY <1>2, <1>4, <1>6
    <3>2. Scale * SumFunctionOnSet(f, D) <= n * SumFunctionOnSet(q, D)
      BY <3>1, SumScaled
    <3> QED BY <1>3, <1>5, <3>2
  <2>2. n * (2 * t) <= n * (2 * Scale + k)
    BY <1>2, <1>3, <1>6, Multiplies
  <2>3. PICK c \in Int : c = Scale
    BY <1>2
  <2>4. n * (2 * t) = 2 * (n * t) /\ n * (2 * c + k) = 2 * (c * n) + n * k
    BY <2>3
  <2>5. 2 * c * (p - n) = 2 * (c * p) - 2 * (c * n)
    BY <2>3
  <2>6. n * t \in Int /\ c * n \in Int /\ n * k \in Int /\ c * p \in Int
    BY <1>3, <2>3
  <2>7. 2 * c * (p - n) <= n * k
    BY <2>1, <2>2, <2>3, <2>4, <2>5, <2>6
  <2> QED BY <2>3, <2>7 DEF WithinRounding
<1>7. ASSUME n <= 0 PROVE p <= 0
  <2>1. \A u \in D : f[u] \in Int /\ q[u] \in Int /\ 1 * f[u] <= 0 * q[u]
    BY <1>4, <1>7
  <2>2. 1 * SumFunctionOnSet(f, D) <= 0 * SumFunctionOnSet(q, D)
    <3>1. 1 \in Int /\ 0 \in Int
      OBVIOUS
    <3> QED BY <2>1, <3>1, SumScaled
  <2>3. 0 * SumFunctionOnSet(q, D) = 0
    BY <1>3
  <2> QED BY <1>5, <2>2, <2>3
<1>8. \A u \in D : f[u] \in Int /\ (n >= 0 => f[u] >= 0)
  BY <1>4
<1> QED BY <1>3, <1>5, <1>6, <1>7, <1>8 DEF f

\* What is computed for the users adds up to a reward, or to more by rounded ratios
\* only; a correction takes at most itself.
LEMMA ComputedSum ==
  ASSUME NEW s, Shares(s), IsFiniteSet(DOMAIN s), DOMAIN s # {}, NEW n \in Int
  PROVE  /\ DOMAIN Computed(n, s) = DOMAIN s
         /\ \A u \in DOMAIN s : Computed(n, s)[u] \in Int /\ (n >= 0 => Computed(n, s)[u] >= 0)
         /\ SumFunction(Computed(n, s)) \in Int
         /\ n >= 0 => /\ n <= SumFunction(Computed(n, s))
                      /\ WithinRounding(SumFunction(Computed(n, s)), n, Cardinality(DOMAIN s))
         /\ n <= 0 => n <= SumFunction(Computed(n, s)) /\ SumFunction(Computed(n, s)) <= 0
<1> DEFINE D == DOMAIN s
           f == Parts(n, s)
           g == Computed(n, s)
           a == First(s, D)
<1>1. PICK p \in Int : p = SumFunction(f)
  BY PartsSum
<1>2. /\ n >= 0 => WithinRounding(p, n, Cardinality(D))
      /\ n <= 0 => p <= 0
      /\ \A u \in D : f[u] \in Int /\ (n >= 0 => f[u] >= 0)
  BY <1>1, PartsSum
<1>3. PICK k \in Nat : k = (IF n - p > 0 THEN n - p ELSE 0)
  BY <1>1
<1>4. a \in D
  BY FirstIsOne
<1>5. DOMAIN g = D /\ \A u \in D : g[u] = f[u] + IF u = a THEN k ELSE 0
  BY <1>1, <1>3 DEF Computed, Remainder
<1>6. DOMAIN f = D
  BY DEF Parts
<1> HIDE DEF f, g, a
<1>7. \A u \in D : g[u] \in Int /\ (n >= 0 => g[u] >= 0)
  BY <1>2, <1>5
<1>8. SumFunctionOnSet(g, D) = p + k
  <2>1. /\ SumFunctionOnSet(f, D) = f[a] + SumFunctionOnSet(f, D \ {a})
        /\ SumFunctionOnSet(g, D) = g[a] + SumFunctionOnSet(g, D \ {a})
    BY <1>2, <1>4, <1>7, SumFacts
  <2>2. IsFiniteSet(D \ {a}) /\ \A u \in D \ {a} : g[u] \in Int /\ g[u] = f[u]
    <3>1. IsFiniteSet(D \ {a})
      BY FS_Subset
    <3> QED BY <1>2, <1>5, <1>7, <3>1
  <2>3. SumFunctionOnSet(g, D \ {a}) = SumFunctionOnSet(f, D \ {a})
    BY <2>2, SumAgrees
  <2>4. SumFunctionOnSet(g, D \ {a}) \in Int
    BY <2>2, SumFacts
  <2>5. g[a] = f[a] + k /\ f[a] \in Int
    BY <1>2, <1>4, <1>5
  <2>6. p = SumFunctionOnSet(f, D)
    BY <1>1, <1>6 DEF SumFunction
  <2> QED BY <2>1, <2>3, <2>4, <2>5, <2>6
<1>9. SumFunction(g) = p + k
  BY <1>5, <1>8 DEF SumFunction
<1>10. /\ p + k \in Int
       /\ n >= 0 => n <= p + k
       /\ n <= 0 => n <= p + k /\ p + k <= 0
  BY <1>2, <1>3
<1>11. ASSUME n >= 0 PROVE WithinRounding(p + k, n, Cardinality(D))
  <2>1. CASE p >= n
    BY <1>2, <1>3, <1>11, <2>1
  <2>2. CASE p < n
    <3>1. p + k = n
      BY <1>3, <2>2
    <3>2. PICK m \in Nat : m = Cardinality(D)
      BY FS_CardinalityType
    <3>3. n * m >= 0 /\ n - n = 0
      BY <1>11, <3>2
    <3>4. 2 * Scale * 0 = 0
      BY RewardAssumption
    <3> QED BY <3>1, <3>2, <3>3, <3>4 DEF WithinRounding
  <2> QED BY <2>1, <2>2
<1> QED BY <1>5, <1>7, <1>9, <1>10, <1>11 DEF g

-----------------------------------------------------------------------------
(* Types. *)

\* A row saved with another status or remainder is a row of the same amount.
LEMMA RowSaves ==
  ASSUME NEW w \in RewardRow
  PROVE  /\ w.amount \in Int /\ w.remainder \in Int
         /\ \A t \in Statuses : LET v == [w EXCEPT !.status = t]
              IN  v \in RewardRow /\ v.status = t /\ v.amount = w.amount /\ v.remainder = w.remainder
         /\ \A k \in Int : LET v == [w EXCEPT !.remainder = k]
              IN  v \in RewardRow /\ v.amount = w.amount /\ v.remainder = k
BY DEF RewardRow

\* An allocation saved with another status.
LEMMA AllocationSaves ==
  ASSUME NEW a \in AllocationRow
  PROVE  /\ a.amount \in Int
         /\ LET b == [a EXCEPT !.status = "CREDITED"] IN b \in AllocationRow /\ b.amount = a.amount
BY DEF AllocationRow

\* What a call of createAllocations holds, and moves on to.
LEMMA CreateSteps ==
  ASSUME NEW t \in Creates
  PROVE  /\ t.id \in Rewards /\ t.row \in RewardRow /\ t.shares \in AllShares /\ t.todo \subseteq Users
         /\ t.saved \in BOOLEAN
         /\ LET v == [t EXCEPT !.saved = TRUE]
            IN  v \in Creates /\ v.id = t.id /\ v.row = t.row /\ v.shares = t.shares
                /\ v.todo = t.todo /\ v.saved = TRUE
         /\ \A u : LET v == [t EXCEPT !.todo = @ \ {u}]
            IN  v \in Creates /\ v.id = t.id /\ v.row = t.row /\ v.shares = t.shares
                /\ v.todo = t.todo \ {u} /\ v.saved = t.saved
<1>1. \A T \in SUBSET Users : LET v == [t EXCEPT !.todo = T]
            IN  v \in Creates /\ v.id = t.id /\ v.row = t.row /\ v.shares = t.shares
                /\ v.todo = T /\ v.saved = t.saved
  BY DEF Creates
<1>2. LET v == [t EXCEPT !.saved = TRUE]
      IN  v \in Creates /\ v.id = t.id /\ v.row = t.row /\ v.shares = t.shares
          /\ v.todo = t.todo /\ v.saved = TRUE
  BY DEF Creates
<1>3. /\ t.id \in Rewards /\ t.row \in RewardRow /\ t.shares \in AllShares /\ t.todo \subseteq Users
      /\ t.saved \in BOOLEAN
  BY DEF Creates, AllShares
<1>4. \A u : LET v == [t EXCEPT !.todo = @ \ {u}]
            IN  v \in Creates /\ v.id = t.id /\ v.row = t.row /\ v.shares = t.shares
                /\ v.todo = t.todo \ {u} /\ v.saved = t.saved
  BY <1>1, <1>3
<1> QED BY <1>2, <1>3, <1>4

\* What distributeAllocations holds, and moves on to.
LEMMA DistributeSteps ==
  ASSUME NEW t \in Distributions
  PROVE  /\ t.id \in Rewards /\ t.todo \subseteq Users /\ t.rows \in [Users -> AllocationRow \cup {None}]
         /\ t.pc \in {"credit", "save", "end"} /\ t.row \in RewardRow \cup {None}
         /\ LET v == [t EXCEPT !.pc = "save"]
            IN  v \in Distributions /\ v.id = t.id /\ v.todo = t.todo /\ v.rows = t.rows /\ v.pc = "save"
         /\ \A u : LET v == [t EXCEPT !.pc = "credit", !.todo = @ \ {u}]
            IN  v \in Distributions /\ v.id = t.id /\ v.todo = t.todo \ {u} /\ v.rows = t.rows
                /\ v.pc = "credit"
         /\ \A w \in RewardRow : LET v == [t EXCEPT !.pc = "end", !.row = w]
            IN  v \in Distributions /\ v.id = t.id /\ v.todo = t.todo /\ v.rows = t.rows
                /\ v.pc = "end" /\ v.row = w
<1>1. \A T \in SUBSET Users : LET v == [t EXCEPT !.pc = "credit", !.todo = T]
            IN  v \in Distributions /\ v.id = t.id /\ v.todo = T /\ v.rows = t.rows /\ v.pc = "credit"
  BY DEF Distributions
<1>2. LET v == [t EXCEPT !.pc = "save"]
      IN  v \in Distributions /\ v.id = t.id /\ v.todo = t.todo /\ v.rows = t.rows /\ v.pc = "save"
  BY DEF Distributions
<1>3. /\ t.id \in Rewards /\ t.todo \subseteq Users /\ t.rows \in [Users -> AllocationRow \cup {None}]
      /\ t.pc \in {"credit", "save", "end"} /\ t.row \in RewardRow \cup {None}
  BY DEF Distributions
<1>4. \A u : LET v == [t EXCEPT !.pc = "credit", !.todo = @ \ {u}]
            IN  v \in Distributions /\ v.id = t.id /\ v.todo = t.todo \ {u} /\ v.rows = t.rows
                /\ v.pc = "credit"
  BY <1>1, <1>3
<1>5. \A w \in RewardRow : LET v == [t EXCEPT !.pc = "end", !.row = w]
            IN  v \in Distributions /\ v.id = t.id /\ v.todo = t.todo /\ v.rows = t.rows
                /\ v.pc = "end" /\ v.row = w
  BY DEF Distributions
<1> QED BY <1>2, <1>3, <1>4, <1>5

\* What transferConfirmedRewardsToMixin holds, and moves on to.
LEMMA MoveSteps ==
  ASSUME NEW t \in Moves
  PROVE  /\ t.id \in Rewards /\ t.row \in RewardRow /\ t.later \in Copies
         /\ \A q \in {"claim", "send", "mark", "undo", "save"} : LET v == [t EXCEPT !.pc = q]
            IN  v \in Moves /\ v.id = t.id /\ v.row = t.row /\ v.later = t.later /\ v.pc = q
BY DEF Moves

\* The pass goes on to one of the rows it has read, and keeps the others.
LEMMA TakeOfFacts ==
  ASSUME NEW rows \in Copies, TakeOf(rows)
  PROVE  \/ move' = None
         \/ /\ move' \in Moves /\ move'.id \in Rewards
            /\ rows[move'.id] # None /\ move'.row = rows[move'.id]
            /\ \A q \in Rewards : move'.later[q] # None => rows[q] # None /\ move'.later[q] = rows[q]
<1>1. CASE move' = None
  BY <1>1
<1>2. ASSUME NEW r \in Rewards, rows[r] # None,
             move' = [id |-> r, row |-> rows[r], later |-> Without(rows, r), pc |-> "claim"]
      PROVE  /\ move' \in Moves /\ move'.id \in Rewards
             /\ rows[move'.id] # None /\ move'.row = rows[move'.id]
             /\ \A q \in Rewards : move'.later[q] # None => rows[q] # None /\ move'.later[q] = rows[q]
  <2>1. PICK w \in RewardRow : w = rows[r]
    BY <1>2 DEF Copies
  <2>2. PICK g \in Copies : g = Without(rows, r) /\ \A q \in Rewards : g[q] = IF q = r THEN None ELSE rows[q]
    <3>1. Without(rows, r) \in Copies
      BY DEF Without, Copies
    <3>2. \A q \in Rewards : Without(rows, r)[q] = IF q = r THEN None ELSE rows[q]
      BY DEF Without, Copies
    <3>. QED  BY <3>1, <3>2
  <2>3. move' = [id |-> r, row |-> w, later |-> g, pc |-> "claim"]
    BY <1>2, <2>1, <2>2
  <2>4. move' \in Moves
    BY <2>3 DEF Moves
  <2>5. move'.id = r /\ move'.row = w /\ move'.later = g
    BY <2>3
  <2>. QED  BY <1>2, <2>1, <2>2, <2>4, <2>5
<1>. QED  BY <1>1, <1>2 DEF TakeOf

\* The least of some users is one of them.
LEMMA MinIsOne ==
  ASSUME NEW us, us \subseteq Users, us # {}
  PROVE  Min(us) \in us
<1>. DEFINE R == {ss \in Nat \X Nat : ss[1] < ss[2]}
<1>1. us \subseteq Nat
  <2>1. \A k, u : u \in 1..k => u \in Nat
    OBVIOUS
  <2>. QED  BY <2>1, RewardAssumption
<1>2. IsWellFoundedOn(R, Nat)
  BY NatLessThanWellFounded DEF OpToRel
<1>3. PICK x \in us : \A y \in us : ~(<<y, x>> \in R)
  BY <1>1, <1>2, WFMin
<1>4. ASSUME NEW y \in us PROVE x <= y
  <2>1. <<y, x>> \in Nat \X Nat /\ <<y, x>>[1] = y /\ <<y, x>>[2] = x
    BY <1>1
  <2>2. ~(y < x)
    BY <1>3, <2>1
  <2>. QED  BY <1>1, <2>2
<1>5. \E z \in us : \A y \in us : z <= y
  BY <1>3, <1>4
<1>. HIDE DEF R
<1>. QED  BY <1>5 DEF Min

\* Calls of createAllocations take the first user left.
LEMMA FirstOfCall ==
  ASSUME RewardInv, NEW c \in Creators, create[c] # None, create[c].saved
  PROVE  /\ create[c] \in Creates
         /\ First(create[c].shares, create[c].todo) \in create[c].todo
         /\ create[c].todo \subseteq DOMAIN create[c].shares
         /\ Shares(create[c].shares) /\ IsFiniteSet(DOMAIN create[c].shares)
         /\ create[c].shares \in AllShares /\ DOMAIN create[c].shares # {}
<1>1. create[c] \in Creates
  BY DEF RewardInv, TypeOK
<1>2. create[c].shares \in AllShares
  BY <1>1, CreateSteps
<1>3. Shares(create[c].shares) /\ IsFiniteSet(DOMAIN create[c].shares)
  BY <1>2, AllSharesAre
<1>4. create[c].todo \subseteq DOMAIN create[c].shares /\ create[c].todo # {}
  BY DEF RewardInv, AllocInv, Underway
<1>5. First(create[c].shares, create[c].todo) \in create[c].todo
  BY <1>3, <1>4, FirstIsOne
<1>. QED  BY <1>1, <1>2, <1>3, <1>4, <1>5

\* The setup never changes, and what has been seen is not forgotten.
LEMMA SeenGrows ==
  ASSUME [Next]_vars
  PROVE  seen \subseteq seen' /\ UNCHANGED fixed
BY Zenon DEF Next, Confirming, Create, Distribute, Move, vars, fixed, tables, procs, Observe,
   ObserveCorrection, ConfirmRead, ConfirmSave, CreateRead, CreateSave, CreateAllocation,
   DistributeRead, DistributeCredit, DistributeSave, DistributeReread, DistributeEnd, MoveRead, MoveClaim, MoveSend,
   MoveMark, MoveSave, MoveSaveThrows, Crash, Saves, Fault, NoFault

\* Saving a row.
LEMMA SavesFacts ==
  ASSUME TypeOK, NEW r \in Rewards, NEW new \in RewardRow, NEW known, Saves(r, new, known)
  PROVE  /\ row' \in [Rewards -> RewardRow \cup {None}]
         /\ \A q \in Rewards : row'[q] = IF q = r THEN new ELSE row[q]
         /\ seen' \subseteq Faults /\ faults' = faults
         /\ "stale" \in seen' \/ row[r] = known
         /\ new # None
BY NoneAssumption DEF TypeOK, Saves, Faults

\* A reward with a status has a row.
LEMMA ConfirmedHasRow ==
  ASSUME TypeOK, NEW r \in Rewards, Status(r) = "CONFIRMED"
  PROVE  row[r] # None /\ row[r] \in RewardRow
BY NoneAssumption DEF Status, Statuses, TypeOK

\* The types are kept by every step.
LEMMA TypeStep == RewardInv /\ [Next]_vars => TypeOK'
<1>. SUFFICES ASSUME RewardInv, [Next]_vars PROVE TypeOK'
  OBVIOUS
<1>1. TypeOK /\ setup' = setup /\ mined' = mined
  BY SeenGrows DEF RewardInv, fixed
<1>2. CASE Observe
  <2>1. [status |-> "OBSERVED", amount |-> Amount, remainder |-> 0] \in RewardRow
    BY RewardAssumption DEF RewardRow, Statuses
  <2>2. row' \in [Rewards -> RewardRow \cup {None}]
    BY <1>1, <1>2, <2>1 DEF Observe, TypeOK
  <2>. QED  BY <1>1, <1>2, <2>2 DEF Observe, TypeOK, procs
<1>3. CASE ObserveCorrection
  <2>1. row["reward"].amount \in Int
    BY <1>1, <1>3, RowSaves DEF ObserveCorrection, TypeOK, Rewards
  <2>2. [status |-> "CONFIRMED", amount |-> Corrected - row["reward"].amount, remainder |-> 0] \in RewardRow
    BY <2>1, RewardAssumption DEF RewardRow, Statuses
  <2>3. row' \in [Rewards -> RewardRow \cup {None}]
    BY <1>1, <1>3, <2>2 DEF ObserveCorrection, TypeOK
  <2>. QED  BY <1>1, <1>3, <2>3 DEF ObserveCorrection, TypeOK, procs
<1>4. CASE ConfirmRead
  <2>1. confirm' \in Confirmations
    BY <1>1, <1>4 DEF ConfirmRead, TypeOK, Confirmations
  <2>. QED  BY <1>1, <1>4, <2>1 DEF ConfirmRead, TypeOK, tables
<1>5. CASE ConfirmSave
  <2>1. confirm.id \in Rewards /\ confirm.row \in RewardRow
    BY <1>1, <1>5 DEF ConfirmSave, TypeOK, Confirmations
  <2>2. [confirm.row EXCEPT !.status = "CONFIRMED"] \in RewardRow
    BY <2>1, RowSaves DEF Statuses
  <2>3. row' \in [Rewards -> RewardRow \cup {None}] /\ faults' = faults
        /\ seen' \subseteq Faults
    BY <1>1, <1>5, <2>1, <2>2, SavesFacts DEF ConfirmSave
  <2>. QED  BY <1>1, <1>5, <2>3 DEF ConfirmSave, TypeOK
<1>6. ASSUME NEW c \in Creators, CreateRead(c) PROVE TypeOK'
  <2>1. PICK r \in Rewards, s \in setup.shares :
          /\ row[r] # None
          /\ create' = [create EXCEPT ![c] = [id |-> r, row |-> row[r], shares |-> s, todo |-> DOMAIN s,
                                              saved |-> FALSE]]
          /\ seen' = IF Creating(r) = {} THEN seen ELSE seen \cup {"overlap"}
    BY <1>6 DEF CreateRead
  <2>2. s \in AllShares /\ DOMAIN s \subseteq Users
    BY <1>1, AllSharesAre DEF TypeOK, AllShares, Shares
  <2>3. [id |-> r, row |-> row[r], shares |-> s, todo |-> DOMAIN s, saved |-> FALSE] \in Creates
    BY <1>1, <2>1, <2>2 DEF TypeOK, Creates, AllShares
  <2>4. create' \in [Creators -> Creates \cup {None}]
    BY <1>1, <2>1, <2>3 DEF TypeOK
  <2>5. seen' \subseteq Faults
    BY <1>1, <2>1 DEF TypeOK, Faults
  <2>. QED  BY <1>1, <1>6, <2>4, <2>5 DEF CreateRead, TypeOK, tables
<1>7. ASSUME NEW c \in Creators, CreateSave(c) PROVE TypeOK'
  <2>1. create[c] \in Creates
    BY <1>1, <1>7 DEF CreateSave, TypeOK
  <2>2. PICK k \in Int : Saves(create[c].id, [create[c].row EXCEPT !.remainder = k], create[c].row)
    <3>1. create[c].row \in RewardRow
      BY <2>1, CreateSteps
    <3>3. create[c].row.amount \in Int /\ 0 \in Int
      BY <3>1, RowSaves
    <3>2. Saves(create[c].id, [create[c].row EXCEPT !.remainder =
                 (IF DOMAIN create[c].shares = {} THEN create[c].row.amount ELSE 0)], create[c].row)
      BY <1>7, Zenon DEF CreateSave
    <3>. QED  BY <3>2, <3>3
  <2>3. [create[c].row EXCEPT !.remainder = k] \in RewardRow /\ create[c].id \in Rewards
    BY <2>1, CreateSteps, RowSaves
  <2>4. row' \in [Rewards -> RewardRow \cup {None}] /\ faults' = faults
        /\ seen' \subseteq Faults
    BY <1>1, <2>2, <2>3, SavesFacts
  <2>5. create' \in [Creators -> Creates \cup {None}]
    <3>1. \/ create' = [create EXCEPT ![c] = None]
          \/ create' = [create EXCEPT ![c] = [create[c] EXCEPT !.saved = TRUE]]
      BY <1>7 DEF CreateSave
    <3>2. [create[c] EXCEPT !.saved = TRUE] \in Creates
      BY <2>1, CreateSteps
    <3>. QED  BY <1>1, <3>1, <3>2 DEF TypeOK
  <2>. QED  BY <1>1, <1>7, <2>4, <2>5 DEF CreateSave, TypeOK
<1>8. ASSUME NEW c \in Creators, CreateAllocation(c) PROVE TypeOK'
  <2>. DEFINE t == create[c]
              u == First(t.shares, t.todo)
              a == [amount |-> Computed(t.row.amount, t.shares)[u], status |-> "CREATED"]
  <2>1. /\ t # None /\ t.saved
        /\ alloc' = [alloc EXCEPT ![t.id] = [alloc[t.id] EXCEPT ![u] = a]]
        /\ create' = [create EXCEPT ![c] = IF t.todo = {u} THEN None ELSE [t EXCEPT !.todo = @ \ {u}]]
    BY <1>8, Zenon DEF CreateAllocation
  <2>2. /\ t \in Creates /\ u \in t.todo /\ u \in DOMAIN t.shares /\ Shares(t.shares)
        /\ IsFiniteSet(DOMAIN t.shares) /\ DOMAIN t.shares # {}
    BY <2>1, FirstOfCall
  <2>. HIDE DEF t, u
  <2>3. t.id \in Rewards /\ u \in Users /\ t.row.amount \in Int
        /\ [t EXCEPT !.todo = @ \ {u}] \in Creates
    BY <2>2, CreateSteps, RowSaves
  <2>4. Computed(t.row.amount, t.shares)[u] \in Int
    BY <2>2, <2>3, ComputedSum
  <2>5. a \in AllocationRow
    BY <2>4 DEF AllocationRow
  <2>. HIDE DEF a
  <2>6. alloc' \in [Rewards -> [Users -> AllocationRow \cup {None}]]
    BY <1>1, <2>1, <2>3, <2>5 DEF TypeOK
  <2>7. create' \in [Creators -> Creates \cup {None}]
    BY <1>1, <2>1, <2>3 DEF TypeOK
  <2>. QED  BY <1>1, <1>8, <2>6, <2>7 DEF CreateAllocation, TypeOK
<1>9. CASE DistributeRead
  <2>1. PICK r \in Rewards : dist' = [id |-> r, todo |-> {u \in Allocated(r) : alloc[r][u].status # "CREDITED"},
                                      rows |-> alloc[r], pc |-> "credit", row |-> None]
    BY <1>9 DEF DistributeRead
  <2>2. dist' \in Distributions
    BY <1>1, <2>1 DEF TypeOK, Distributions, Allocated
  <2>. QED  BY <1>1, <1>9, <2>2 DEF DistributeRead, TypeOK, tables
<1>10. CASE DistributeCredit
  <2>. DEFINE u == Min(dist.todo)
              n == dist.rows[u].amount
  <2>1. dist \in Distributions /\ dist # None /\ dist.todo # {}
    BY <1>1, <1>10 DEF DistributeCredit, TypeOK
  <2>2. dist.id \in Rewards /\ dist.todo \subseteq Users /\ u \in dist.todo /\ u \in Users
    BY <2>1, DistributeSteps, MinIsOne
  <2>3. n \in Int
    <3>1. dist.rows \in [Users -> AllocationRow \cup {None}]
      BY <2>1, DistributeSteps
    <3>2. dist.rows[u] # None
      BY <2>1, <2>2, Zenon DEF RewardInv, CreditInv
    <3>3. dist.rows[u] \in AllocationRow
      BY <2>2, <3>1, <3>2
    <3>. QED  BY <3>3, AllocationSaves
  <2>4. \/ credited' = [credited EXCEPT ![dist.id] = [credited[dist.id] EXCEPT ![u] = Credited(dist.id, u, n)]]
           /\ dist' = [dist EXCEPT !.pc = "save"]
        \/ dist' = None /\ UNCHANGED credited
    BY <1>10, Zenon DEF DistributeCredit
  <2>. HIDE DEF u, n
  <2>5. Credited(dist.id, u, n) \in Int
    BY <1>1, <2>2, <2>3 DEF TypeOK, Credited
  <2>6. credited' \in [Rewards -> [Users -> Int \cup {None}]]
    <3>1. CASE UNCHANGED credited
      BY <1>1, <3>1 DEF TypeOK
    <3>2. CASE credited' = [credited EXCEPT ![dist.id] = [credited[dist.id] EXCEPT ![u] = Credited(dist.id, u, n)]]
      BY <1>1, <2>2, <2>5, <3>2 DEF TypeOK
    <3>. QED  BY <2>4, <3>1, <3>2
  <2>7. dist' \in Distributions \cup {None}
    <3>1. [dist EXCEPT !.pc = "save"] \in Distributions
      BY <2>1, DistributeSteps
    <3>. QED  BY <2>4, <3>1
  <2>. QED  BY <1>1, <1>10, <2>6, <2>7 DEF DistributeCredit, TypeOK
<1>11. CASE DistributeSave
  <2>. DEFINE u == Min(dist.todo)
              a == [dist.rows[u] EXCEPT !.status = "CREDITED"]
  <2>1. dist \in Distributions /\ dist # None /\ dist.todo # {}
    BY <1>1, <1>11 DEF DistributeSave, TypeOK, RewardInv, CreditInv
  <2>2. dist.id \in Rewards /\ dist.todo \subseteq Users /\ u \in dist.todo /\ u \in Users
    BY <2>1, DistributeSteps, MinIsOne
  <2>3. a \in AllocationRow
    <3>1. dist.rows \in [Users -> AllocationRow \cup {None}]
      BY <2>1, DistributeSteps
    <3>2. dist.rows[u] # None
      BY <2>1, <2>2, Zenon DEF RewardInv, CreditInv
    <3>3. dist.rows[u] \in AllocationRow
      BY <2>2, <3>1, <3>2
    <3>. QED  BY <3>3, AllocationSaves
  <2>4. /\ alloc' = [alloc EXCEPT ![dist.id] = [alloc[dist.id] EXCEPT ![u] = a]]
        /\ dist' = [dist EXCEPT !.pc = "credit", !.todo = @ \ {u}]
    BY <1>11, Zenon DEF DistributeSave
  <2>. HIDE DEF u, a
  <2>5. alloc' \in [Rewards -> [Users -> AllocationRow \cup {None}]]
    BY <1>1, <2>2, <2>3, <2>4 DEF TypeOK
  <2>6. dist' \in Distributions
    BY <2>1, <2>4, DistributeSteps
  <2>. QED  BY <1>1, <1>11, <2>5, <2>6 DEF DistributeSave, TypeOK
<1>12. CASE DistributeReread
  <2>1. dist \in Distributions /\ dist.id \in Rewards
    BY <1>1, <1>12, DistributeSteps DEF DistributeReread, TypeOK
  <2>2. dist' = None \/ (row[dist.id] # None /\ dist' = [dist EXCEPT !.pc = "end", !.row = row[dist.id]])
    BY <1>12 DEF DistributeReread
  <2>3. CASE row[dist.id] # None /\ dist' = [dist EXCEPT !.pc = "end", !.row = row[dist.id]]
    <3>1. PICK w \in RewardRow : w = row[dist.id]
      BY <1>1, <2>1, <2>3 DEF TypeOK
    <3>2. [dist EXCEPT !.pc = "end", !.row = w] \in Distributions
      BY <2>1, DistributeSteps
    <3>. QED  BY <1>1, <1>12, <2>3, <3>1, <3>2 DEF DistributeReread, TypeOK, tables
  <2>. QED  BY <1>1, <1>12, <2>2, <2>3 DEF DistributeReread, TypeOK, tables
<1>20. CASE DistributeEnd
  <2>1. dist \in Distributions /\ dist # None /\ dist.pc = "end"
    BY <1>1, <1>20 DEF DistributeEnd, TypeOK
  <2>2. dist.id \in Rewards /\ dist.row \in RewardRow
    BY <2>1, DistributeSteps DEF RewardInv, AmountInv
  <2>3. [dist.row EXCEPT !.status = "DISTRIBUTED"] \in RewardRow
    BY <2>2, RowSaves DEF Statuses
  <2>4. row' \in [Rewards -> RewardRow \cup {None}] /\ faults' = faults /\ seen' \subseteq Faults
    BY <1>1, <1>20, <2>2, <2>3, SavesFacts DEF DistributeEnd
  <2>. QED  BY <1>1, <1>20, <2>4 DEF DistributeEnd, TypeOK
<1>13. CASE MoveRead
  <2>1. [r \in Rewards |-> IF Status(r) = "CONFIRMED" THEN row[r] ELSE None] \in Copies
    BY <1>1 DEF Copies, TypeOK
  <2>2. TakeOf([r \in Rewards |-> IF Status(r) = "CONFIRMED" THEN row[r] ELSE None])
    BY <1>13 DEF MoveRead
  <2>3. move' \in Moves \cup {None}
    BY <2>1, <2>2, TakeOfFacts
  <2>. QED  BY <1>1, <1>13, <2>3 DEF MoveRead, TypeOK, tables
<1>14. CASE MoveClaim
  <2>1. move \in Moves /\ move.id \in Rewards
    BY <1>1, <1>14, MoveSteps DEF MoveClaim, MoveAt, TypeOK
  <2>2. move' \in Moves \cup {None}
    <3>1. [move EXCEPT !.pc = "send"] \in Moves /\ move.later \in Copies
      BY <2>1, MoveSteps
    <3>2. move' = [move EXCEPT !.pc = "send"] \/ TakeOf(move.later)
      BY <1>14, Zenon DEF MoveClaim
    <3>. QED  BY <3>1, <3>2, TakeOfFacts
  <2>3. row' \in [Rewards -> RewardRow \cup {None}]
    <3>1. CASE Status(move.id) = "CONFIRMED"
      <4>1. row[move.id] \in RewardRow
        BY <1>1, <2>1, <3>1, ConfirmedHasRow
      <4>2. [row[move.id] EXCEPT !.status = "TRANSFERRING_TO_MIXIN"] \in RewardRow
        BY <4>1, RowSaves DEF Statuses
      <4>3. row' = [row EXCEPT ![move.id] = [row[move.id] EXCEPT !.status = "TRANSFERRING_TO_MIXIN"]]
        BY <1>14, <3>1, Zenon DEF MoveClaim
      <4>. QED  BY <1>1, <2>1, <4>2, <4>3 DEF TypeOK
    <3>2. CASE Status(move.id) # "CONFIRMED"
      BY <1>1, <1>14, <3>2 DEF MoveClaim, TypeOK
    <3>. QED  BY <3>1, <3>2
  <2>. QED  BY <1>1, <1>14, <2>2, <2>3 DEF MoveClaim, TypeOK
<1>15. CASE MoveSend
  <2>1. move \in Moves /\ move.id \in Rewards
    BY <1>1, <1>15, MoveSteps DEF MoveSend, MoveAt, TypeOK
  <2>2. PICK q \in {"save", "mark", "undo"} : move' = [move EXCEPT !.pc = q]
    BY <1>15, Zenon DEF MoveSend
  <2>3. move' \in Moves
    <3>1. [move EXCEPT !.pc = q] \in Moves
      BY <2>1, MoveSteps
    <3>. QED  BY <2>2, <3>1
  <2>4. vault' = vault \/ vault' = [vault EXCEPT ![move.id] = @ + 1]
    BY <1>15, Zenon DEF MoveSend, Landed
  <2>5. vault' \in [Rewards -> Nat]
    BY <1>1, <2>1, <2>4 DEF TypeOK
  <2>6. seen' \subseteq Faults /\ faults' \in Nat
    BY <1>1, <1>15 DEF MoveSend, Fault, NoFault, TypeOK, Faults
  <2>. QED  BY <1>1, <1>15, <2>3, <2>5, <2>6 DEF MoveSend, TypeOK
<1>16. CASE MoveMark
  <2>1. move \in Moves /\ move.id \in Rewards
    BY <1>1, <1>16, MoveSteps DEF MoveMark, MoveAt, TypeOK
  <2>2. PICK q \in {"save", "undo"} : move' = [move EXCEPT !.pc = q]
    BY <1>16, Zenon DEF MoveMark
  <2>3. move' \in Moves
    <3>1. [move EXCEPT !.pc = q] \in Moves
      BY <2>1, MoveSteps
    <3>. QED  BY <2>2, <3>1
  <2>4. marked' \subseteq Rewards
    BY <1>1, <1>16, <2>1 DEF MoveMark, TypeOK
  <2>5. seen' \subseteq Faults /\ faults' \in Nat
    BY <1>1, <1>16 DEF MoveMark, Fault, NoFault, TypeOK, Faults
  <2>. QED  BY <1>1, <1>16, <2>3, <2>4, <2>5 DEF MoveMark, TypeOK
<1>17. CASE MoveSave
  <2>1. move \in Moves /\ move.id \in Rewards /\ move.row \in RewardRow
    BY <1>1, <1>17, MoveSteps DEF MoveSave, MoveAt, TypeOK
  <2>2. PICK st \in Statuses : Saves(move.id, [move.row EXCEPT !.status = st], ClaimedRow)
    BY <1>17 DEF MoveSave, Statuses
  <2>3. [move.row EXCEPT !.status = st] \in RewardRow
    BY <2>1, RowSaves
  <2>4. row' \in [Rewards -> RewardRow \cup {None}] /\ faults' = faults
        /\ seen' \subseteq Faults
    BY <1>1, <2>1, <2>2, <2>3, SavesFacts
  <2>5. move' \in Moves \cup {None}
    BY <1>17, <2>1, MoveSteps, TakeOfFacts DEF MoveSave
  <2>. QED  BY <1>1, <1>17, <2>4, <2>5 DEF MoveSave, TypeOK
<1>21. CASE MoveSaveThrows
  <2>1. move \in Moves
    BY <1>1, <1>21 DEF MoveSaveThrows, MoveAt, TypeOK
  <2>2. [move EXCEPT !.pc = "undo"] \in Moves
    BY <2>1, MoveSteps
  <2>3. move' \in Moves \cup {None} /\ seen' \subseteq Faults /\ faults' \in Nat
    BY <1>1, <1>21, <2>2 DEF MoveSaveThrows, Fault, TypeOK, Faults
  <2>. QED  BY <1>1, <1>21, <2>3 DEF MoveSaveThrows, TypeOK, tables
<1>18. CASE Crash
  <2>1. create' \in [Creators -> Creates \cup {None}]
    BY <1>18 DEF Crash
  <2>2. seen' \subseteq Faults /\ faults' \in Nat
    BY <1>1, <1>18 DEF Crash, Fault, TypeOK, Faults
  <2>. QED  BY <1>1, <1>18, <2>1, <2>2 DEF Crash, TypeOK, tables
<1>19. CASE UNCHANGED vars
  BY <1>1, <1>19 DEF vars, TypeOK
<1>. QED
  BY <1>2, <1>3, <1>4, <1>5, <1>6, <1>7, <1>8, <1>9, <1>10, <1>11, <1>12, <1>13, <1>14, <1>15, <1>16,
     <1>17, <1>18, <1>19, <1>20, <1>21 DEF Next, Confirming, Create, Distribute, Move

-----------------------------------------------------------------------------
(* Rows. *)

\* A row once there stays, with the amount of its reward; what stays undistributed changes only
\* by a row saved over a newer one or by createAllocations without shares.
LEMMA RowStep ==
  ASSUME RewardInv, [Next]_vars, NEW r \in Rewards
  PROVE  /\ row[r] # None => row'[r] # None
         /\ row'[r] # None =>
              /\ row'[r].amount = AmountOf(r)
              /\ \/ row[r] # None /\ row'[r].remainder = row[r].remainder
                 \/ row'[r].remainder = 0
                 \/ "stale" \in seen'
                 \/ \E c \in Creators : CreateSave(c) /\ create[c].id = r /\ DOMAIN create[c].shares = {}
<1>. DEFINE Good == /\ row[r] # None => row'[r] # None
                    /\ row'[r] # None =>
                         /\ row'[r].amount = AmountOf(r)
                         /\ \/ row[r] # None /\ row'[r].remainder = row[r].remainder
                            \/ row'[r].remainder = 0
                            \/ "stale" \in seen'
                            \/ \E c \in Creators : /\ CreateSave(c) /\ create[c].id = r
                                                   /\ DOMAIN create[c].shares = {}
<1>1. TypeOK /\ row \in [Rewards -> RewardRow \cup {None}]
  BY DEF RewardInv, TypeOK
<1>2. row[r] # None => row[r] \in RewardRow /\ row[r].amount = AmountOf(r)
  BY <1>1 DEF RewardInv, AmountInv
<1>3. CASE UNCHANGED row
  BY <1>2, <1>3
<1>4. CASE Observe
  <2>1. row["reward"] = None
        /\ row' = [row EXCEPT !["reward"] = [status |-> "OBSERVED", amount |-> Amount, remainder |-> 0]]
    BY <1>4 DEF Observe
  <2>2. CASE r = "reward"
    BY <1>1, <2>1, <2>2 DEF AmountOf
  <2>3. CASE r # "reward"
    BY <1>1, <1>2, <2>1, <2>3
  <2>. QED  BY <2>2, <2>3
<1>5. CASE ObserveCorrection
  <2>1. /\ row["correction"] = None /\ row["reward"] # None
        /\ row' = [row EXCEPT !["correction"] =
                     [status |-> "CONFIRMED", amount |-> Corrected - row["reward"].amount, remainder |-> 0]]
    BY <1>5 DEF ObserveCorrection
  <2>2. row["reward"].amount = Amount
    BY <2>1 DEF RewardInv, AmountInv, Rewards, AmountOf
  <2>3. CASE r = "correction"
    BY <1>1, <2>1, <2>2, <2>3 DEF AmountOf
  <2>4. CASE r # "correction"
    <3>1. row'[r] = row[r]
      BY <1>1, <2>1, <2>4
    <3>. QED  BY <1>2, <3>1
  <2>. QED  BY <2>3, <2>4
<1>6. CASE ConfirmSave
  <2>1. confirm \in Confirmations /\ confirm # None
    BY <1>1, <1>6 DEF ConfirmSave, TypeOK
  <2>2. confirm.id \in Rewards /\ confirm.row \in RewardRow
    BY <2>1 DEF Confirmations
  <2>3. confirm.row.amount = AmountOf(confirm.id)
    BY <2>1 DEF RewardInv, AmountInv
  <2>4. PICK new \in RewardRow : /\ new = [confirm.row EXCEPT !.status = "CONFIRMED"]
                                 /\ new.amount = confirm.row.amount /\ new.remainder = confirm.row.remainder
    BY <2>2, RowSaves DEF Statuses
  <2>5. Saves(confirm.id, new, confirm.row)
    BY <1>6, <2>4 DEF ConfirmSave
  <2>6. row'[r] = (IF r = confirm.id THEN new ELSE row[r]) /\ ("stale" \in seen' \/ row[confirm.id] = confirm.row)
    BY <1>1, <2>2, <2>5, SavesFacts
  <2>. QED  BY <1>2, <2>2, <2>3, <2>4, <2>6, NoneAssumption
<1>7. ASSUME NEW c \in Creators, CreateSave(c) PROVE Good
  <2>1. create[c] \in Creates /\ create[c] # None
    BY <1>1, <1>7 DEF CreateSave, TypeOK
  <2>2. create[c].id \in Rewards /\ create[c].row \in RewardRow
    BY <2>1, CreateSteps
  <2>3. create[c].row.amount = AmountOf(create[c].id) /\ create[c].row.amount \in Int
    BY <2>1, <2>2, RowSaves DEF RewardInv, AmountInv
  <2>4. PICK k \in Int : k = IF DOMAIN create[c].shares = {} THEN create[c].row.amount ELSE 0
    BY <2>3
  <2>5. PICK new \in RewardRow : /\ new = [create[c].row EXCEPT !.remainder = k]
                                 /\ new.amount = create[c].row.amount /\ new.remainder = k
    <3>1. PICK w \in RewardRow : w = create[c].row
      BY <2>2
    <3>2. [w EXCEPT !.remainder = k] \in RewardRow
          /\ [w EXCEPT !.remainder = k].amount = w.amount /\ [w EXCEPT !.remainder = k].remainder = k
      BY <2>4, RowSaves
    <3>. QED  BY <3>1, <3>2
  <2>6. Saves(create[c].id, new, create[c].row)
    BY <1>7, <2>4, <2>5 DEF CreateSave
  <2>7. row'[r] = IF r = create[c].id THEN new ELSE row[r]
    BY <1>1, <2>2, <2>6, SavesFacts
  <2>8. DOMAIN create[c].shares = {} \/ new.remainder = 0
    BY <2>4, <2>5
  <2>9. CASE r = create[c].id
    BY <1>7, <2>3, <2>5, <2>7, <2>8, <2>9, NoneAssumption
  <2>10. CASE r # create[c].id
    BY <1>2, <2>7, <2>10
  <2>. QED  BY <2>9, <2>10
<1>8. CASE DistributeEnd
  <2>1. dist \in Distributions /\ dist # None /\ dist.pc = "end"
    BY <1>1, <1>8 DEF DistributeEnd, TypeOK
  <2>2. dist.id \in Rewards /\ dist.row \in RewardRow
    BY <2>1, DistributeSteps DEF RewardInv, AmountInv
  <2>3. dist.row.amount = AmountOf(dist.id)
    BY <2>1 DEF RewardInv, AmountInv
  <2>4. PICK new \in RewardRow : /\ new = [dist.row EXCEPT !.status = "DISTRIBUTED"]
                                 /\ new.amount = dist.row.amount /\ new.remainder = dist.row.remainder
    BY <2>2, RowSaves DEF Statuses
  <2>5. Saves(dist.id, new, dist.row)
    BY <1>8, <2>4 DEF DistributeEnd
  <2>6. row'[r] = (IF r = dist.id THEN new ELSE row[r]) /\ ("stale" \in seen' \/ row[dist.id] = dist.row)
    BY <1>1, <2>2, <2>5, SavesFacts
  <2>. QED  BY <1>2, <2>2, <2>3, <2>4, <2>6, NoneAssumption
<1>9. CASE MoveClaim
  <2>1. move.id \in Rewards
    BY <1>1, <1>9, MoveSteps DEF MoveClaim, MoveAt, TypeOK
  <2>2. CASE UNCHANGED row
    BY <1>3, <2>2
  <2>3. CASE /\ Status(move.id) = "CONFIRMED"
             /\ row' = [row EXCEPT ![move.id] = [row[move.id] EXCEPT !.status = "TRANSFERRING_TO_MIXIN"]]
    <3>1. CASE r = move.id
      <4>1. row[r] # None
        BY <1>1, <2>3, <3>1, ConfirmedHasRow
      <4>2. row'[r] = [row[r] EXCEPT !.status = "TRANSFERRING_TO_MIXIN"]
        BY <1>1, <2>1, <2>3, <3>1
      <4>3. row'[r] \in RewardRow /\ row'[r].amount = row[r].amount /\ row'[r].remainder = row[r].remainder
        <5>1. PICK w \in RewardRow : w = row[r]
          BY <1>2, <4>1
        <5>2. PICK v \in RewardRow : /\ v = [w EXCEPT !.status = "TRANSFERRING_TO_MIXIN"]
                                     /\ v.amount = w.amount /\ v.remainder = w.remainder
          BY RowSaves DEF Statuses
        <5>. QED  BY <4>2, <5>1, <5>2
      <4>. QED  BY <1>2, <4>1, <4>3, NoneAssumption
    <3>2. CASE r # move.id
      BY <1>1, <1>2, <2>1, <2>3, <3>2
    <3>. QED  BY <3>1, <3>2
  <2>. QED  BY <1>9, <2>2, <2>3, Zenon DEF MoveClaim
<1>10. CASE MoveSave
  <2>1. move \in Moves /\ move # None
    BY <1>1, <1>10 DEF MoveSave, MoveAt, TypeOK
  <2>2. move.id \in Rewards /\ move.row \in RewardRow
    BY <2>1, MoveSteps
  <2>3. move.row.amount = AmountOf(move.id)
    BY <2>1 DEF RewardInv, AmountInv
  <2>4. PICK st \in Statuses : Saves(move.id, [move.row EXCEPT !.status = st], ClaimedRow)
    BY <1>10 DEF MoveSave, Statuses
  <2>5. PICK new \in RewardRow : /\ new = [move.row EXCEPT !.status = st]
                                 /\ new.amount = move.row.amount /\ new.remainder = move.row.remainder
    BY <2>2, RowSaves
  <2>6. ClaimedRow \in RewardRow /\ ClaimedRow.remainder = move.row.remainder
    BY <2>2, RowSaves DEF ClaimedRow, Statuses
  <2>7. row'[r] = (IF r = move.id THEN new ELSE row[r]) /\ ("stale" \in seen' \/ row[move.id] = ClaimedRow)
    BY <1>1, <2>2, <2>4, <2>5, SavesFacts
  <2>. QED  BY <1>2, <2>2, <2>3, <2>5, <2>6, <2>7, NoneAssumption
<1>11. \/ UNCHANGED row \/ Observe \/ ObserveCorrection \/ ConfirmSave \/ DistributeEnd \/ MoveClaim \/ MoveSave
       \/ \E c \in Creators : CreateSave(c)
  BY Zenon DEF Next, Confirming, Create, Distribute, Move, vars, tables, ConfirmRead, CreateRead,
     CreateAllocation, DistributeRead, DistributeCredit, DistributeSave, DistributeReread, MoveRead, MoveSend,
     MoveMark, MoveSaveThrows, Crash
<1>. QED  BY <1>3, <1>4, <1>5, <1>6, <1>7, <1>8, <1>9, <1>10, <1>11

-----------------------------------------------------------------------------
(* Allocations. *)

\* Only createAllocations, the save of a distribution and a crash touch allocations and the
\* calls that make them.
LEMMA AllocKinds ==
  ASSUME [Next]_vars
  PROVE  \/ UNCHANGED <<alloc, create>> \/ DistributeSave \/ Crash
         \/ \E c \in Creators : CreateRead(c) \/ CreateSave(c) \/ CreateAllocation(c)
BY Zenon DEF Next, Confirming, Create, Distribute, Move, vars, tables, procs, Observe, ObserveCorrection,
   ConfirmRead, ConfirmSave, DistributeRead, DistributeCredit, DistributeReread, DistributeEnd, MoveRead, MoveClaim,
   MoveSend, MoveMark, MoveSave, MoveSaveThrows

\* A call of createAllocations saves one allocation.
LEMMA CreateAllocationFacts ==
  ASSUME RewardInv, NEW c \in Creators, CreateAllocation(c)
  PROVE  /\ create[c] # None /\ create[c].saved /\ UNCHANGED <<seen, row>>
         /\ \E u \in create[c].todo :
              /\ \A r \in Rewards, v \in Users : alloc'[r][v] =
                   IF r = create[c].id /\ v = u
                   THEN [amount |-> Computed(AmountOf(r), create[c].shares)[u], status |-> "CREATED"]
                   ELSE alloc[r][v]
              /\ \A d \in Creators : create'[d] =
                   IF d # c THEN create[d]
                   ELSE IF create[c].todo = {u} THEN None ELSE [create[c] EXCEPT !.todo = @ \ {u}]
<1>. DEFINE t == create[c]
            u == First(t.shares, t.todo)
            a == [amount |-> Computed(t.row.amount, t.shares)[u], status |-> "CREATED"]
<1>1. /\ t # None /\ t.saved /\ UNCHANGED <<seen, row>>
      /\ alloc' = [alloc EXCEPT ![t.id] = [alloc[t.id] EXCEPT ![u] = a]]
      /\ create' = [create EXCEPT ![c] = IF t.todo = {u} THEN None ELSE [t EXCEPT !.todo = @ \ {u}]]
  BY Zenon DEF CreateAllocation
<1>2. t \in Creates /\ u \in t.todo /\ t.id \in Rewards
  BY <1>1, FirstOfCall, CreateSteps
<1>3. t.row.amount = AmountOf(t.id)
  BY <1>1 DEF RewardInv, AmountInv
<1>4. a = [amount |-> Computed(AmountOf(t.id), t.shares)[u], status |-> "CREATED"]
  BY <1>3
<1>5. /\ alloc \in [Rewards -> [Users -> AllocationRow \cup {None}]]
      /\ create \in [Creators -> Creates \cup {None}]
  BY DEF RewardInv, TypeOK
<1>. HIDE DEF a, u
<1>6. \A r \in Rewards, v \in Users : alloc'[r][v] = IF r = t.id /\ v = u THEN a ELSE alloc[r][v]
  BY <1>1, <1>2, <1>5
<1>7. \A d \in Creators : create'[d] =
        IF d # c THEN create[d] ELSE IF t.todo = {u} THEN None ELSE [t EXCEPT !.todo = @ \ {u}]
  BY <1>1, <1>5
<1>8. \A r \in Rewards, v \in Users : alloc'[r][v] =
        IF r = t.id /\ v = u
        THEN [amount |-> Computed(AmountOf(r), t.shares)[u], status |-> "CREATED"]
        ELSE alloc[r][v]
  BY <1>4, <1>6
<1>. QED  BY <1>1, <1>2, <1>7, <1>8, Zenon

\* A distribution saves an allocation there was, with the amount it read.
LEMMA DistributeSaveFacts ==
  ASSUME RewardInv, DistributeSave
  PROVE  /\ dist \in Distributions /\ dist # None /\ UNCHANGED <<seen, row, credited, create>>
         /\ \E u \in dist.todo, b \in AllocationRow :
              /\ b.amount = dist.rows[u].amount
              /\ \A r \in Rewards, v \in Users : alloc'[r][v] = IF r = dist.id /\ v = u THEN b ELSE alloc[r][v]
              /\ dist' = [dist EXCEPT !.pc = "credit", !.todo = @ \ {u}]
<1>. DEFINE u == Min(dist.todo)
            a == [dist.rows[u] EXCEPT !.status = "CREDITED"]
<1>1. /\ dist # None /\ dist.pc = "save" /\ UNCHANGED <<seen, row, credited, create>>
      /\ alloc' = [alloc EXCEPT ![dist.id] = [alloc[dist.id] EXCEPT ![u] = a]]
      /\ dist' = [dist EXCEPT !.pc = "credit", !.todo = @ \ {u}]
  BY Zenon DEF DistributeSave
<1>2. dist \in Distributions /\ dist.todo # {}
  BY <1>1 DEF TypeOK, RewardInv, CreditInv
<1>3. dist.id \in Rewards /\ dist.todo \subseteq Users /\ u \in dist.todo /\ u \in Users
  BY <1>2, DistributeSteps, MinIsOne
<1>4. a \in AllocationRow /\ a.amount = dist.rows[u].amount
  <2>1. dist.rows \in [Users -> AllocationRow \cup {None}]
    BY <1>2, DistributeSteps
  <2>2. dist.rows[u] # None
    BY <1>1, <1>3, Zenon DEF RewardInv, CreditInv
  <2>3. PICK w \in AllocationRow : w = dist.rows[u]
    BY <1>3, <2>1, <2>2
  <2>4. PICK v \in AllocationRow : v = [w EXCEPT !.status = "CREDITED"] /\ v.amount = w.amount
    BY AllocationSaves
  <2>. QED  BY <2>3, <2>4
<1>5. alloc \in [Rewards -> [Users -> AllocationRow \cup {None}]]
  BY DEF RewardInv, TypeOK
<1>. HIDE DEF a, u
<1>6. \A r \in Rewards, v \in Users : alloc'[r][v] = IF r = dist.id /\ v = u THEN a ELSE alloc[r][v]
  BY <1>1, <1>3, <1>5
<1>. QED  BY <1>1, <1>2, <1>3, <1>4, <1>6

\* Allocations stay, and every one that comes is of a reward that has a row.
LEMMA AllocationsStay ==
  ASSUME RewardInv, [Next]_vars, NEW r \in Rewards, NEW v \in Users
  PROVE  /\ alloc[r][v] # None => alloc'[r][v] # None
         /\ alloc'[r][v] # None => row[r] # None
<1>1. alloc[r][v] # None => row[r] # None
  BY DEF RewardInv, AmountInv, Allocated
<1>2. CASE UNCHANGED alloc
  BY <1>1, <1>2
<1>3. ASSUME NEW c \in Creators, CreateAllocation(c)
      PROVE  /\ alloc[r][v] # None => alloc'[r][v] # None
             /\ alloc'[r][v] # None => row[r] # None
  <2>1. PICK u \in create[c].todo :
          \A q \in Rewards, w \in Users : alloc'[q][w] =
             IF q = create[c].id /\ w = u
             THEN [amount |-> Computed(AmountOf(q), create[c].shares)[u], status |-> "CREATED"]
             ELSE alloc[q][w]
    <3>1. \E u \in create[c].todo :
              /\ \A q \in Rewards, w \in Users : alloc'[q][w] =
                   IF q = create[c].id /\ w = u
                   THEN [amount |-> Computed(AmountOf(q), create[c].shares)[u], status |-> "CREATED"]
                   ELSE alloc[q][w]
              /\ \A d \in Creators : create'[d] =
                   IF d # c THEN create[d]
                   ELSE IF create[c].todo = {u} THEN None ELSE [create[c] EXCEPT !.todo = @ \ {u}]
      BY <1>3, CreateAllocationFacts
    <3>. QED  BY <3>1, Zenon
  <2>2. row[create[c].id] # None
    BY <1>3, CreateAllocationFacts DEF RewardInv, AmountInv
  <2>3. CASE r = create[c].id /\ v = u
    <3>1. alloc'[r][v] = [amount |-> Computed(AmountOf(r), create[c].shares)[u], status |-> "CREATED"]
      BY <2>1, <2>3
    <3>2. create[c] \in Creates /\ Shares(create[c].shares) /\ IsFiniteSet(DOMAIN create[c].shares)
          /\ DOMAIN create[c].shares # {} /\ u \in DOMAIN create[c].shares
      BY <1>3, <2>1, FirstOfCall, CreateAllocationFacts
    <3>3. AmountOf(r) \in Int
      BY RewardAssumption DEF AmountOf
    <3>4. Computed(AmountOf(r), create[c].shares)[u] \in Int
      BY <3>2, <3>3, ComputedSum
    <3>5. alloc'[r][v] \in AllocationRow
      BY <3>1, <3>4 DEF AllocationRow
    <3>. QED  BY <2>2, <2>3, <3>5, NoneAssumption
  <2>4. CASE ~(r = create[c].id /\ v = u)
    BY <1>1, <2>1, <2>4
  <2>. QED  BY <2>3, <2>4
<1>4. CASE DistributeSave
  <2>1. PICK u \in dist.todo, b \in AllocationRow :
          \A q \in Rewards, w \in Users : alloc'[q][w] = IF q = dist.id /\ w = u THEN b ELSE alloc[q][w]
    BY <1>4, DistributeSaveFacts
  <2>2. alloc[dist.id][u] # None
    BY <1>4, <2>1, DistributeSaveFacts, Zenon DEF RewardInv, CreditInv
  <2>. QED  BY <1>1, <2>1, <2>2, NoneAssumption
<1>5. UNCHANGED alloc \/ DistributeSave \/ \E c \in Creators : CreateAllocation(c)
  BY AllocKinds, Zenon DEF Crash, CreateRead, CreateSave, tables
<1>. QED  BY <1>2, <1>3, <1>4, <1>5

\* The amounts of rows and of their copies are kept by every step.
LEMMA AmountStep == RewardInv /\ [Next]_vars => AmountInv'
<1>. SUFFICES ASSUME RewardInv, [Next]_vars PROVE AmountInv'
  OBVIOUS
<1>1. TypeOK /\ AmountInv
  BY DEF RewardInv
<1>2. \A r \in Rewards : /\ row[r] # None => row'[r] # None
                         /\ row'[r] # None => row'[r].amount = AmountOf(r)
  BY RowStep
<1>3. confirm' # None => confirm'.row.amount = AmountOf(confirm'.id)
  <2>1. CASE ConfirmRead
    <3>1. PICK r \in Rewards : row[r] # None /\ confirm' = [id |-> r, row |-> row[r]]
      BY <2>1 DEF ConfirmRead
    <3>. QED  BY <1>1, <3>1 DEF AmountInv
  <2>2. confirm' = confirm \/ confirm' = None \/ ConfirmRead
    BY Zenon DEF Next, Confirming, Create, Distribute, Move, vars, procs, Observe,
       ObserveCorrection, ConfirmSave, CreateRead, CreateSave, CreateAllocation, DistributeRead,
       DistributeCredit, DistributeSave, DistributeReread, DistributeEnd, MoveRead, MoveClaim, MoveSend, MoveMark,
       MoveSave, MoveSaveThrows, Crash
  <2>. QED  BY <1>1, <2>1, <2>2 DEF AmountInv
<1>4. \A c \in Creators : create'[c] # None =>
        row'[create'[c].id] # None /\ create'[c].row.amount = AmountOf(create'[c].id)
  <2>. SUFFICES ASSUME NEW c \in Creators, create'[c] # None
                PROVE  row'[create'[c].id] # None /\ create'[c].row.amount = AmountOf(create'[c].id)
    OBVIOUS
  <2>1. create \in [Creators -> Creates \cup {None}]
    BY <1>1 DEF TypeOK
  <2>2. create[c] # None => create[c] \in Creates /\ create[c].id \in Rewards
    <3>1. create[c] # None => create[c] \in Creates
      BY <2>1
    <3>. QED  BY <3>1, CreateSteps
  <2>3. CASE create'[c] = create[c]
    BY <1>1, <1>2, <2>2, <2>3 DEF AmountInv
  <2>4. CASE create[c] # None /\ create'[c].id = create[c].id /\ create'[c].row = create[c].row
    BY <1>1, <1>2, <2>2, <2>4 DEF AmountInv
  <2>5. ASSUME NEW d \in Creators, CreateRead(d)
        PROVE  row'[create'[c].id] # None /\ create'[c].row.amount = AmountOf(create'[c].id)
    <3>1. PICK r \in Rewards, s \in setup.shares :
            /\ row[r] # None /\ row' = row
            /\ create' = [create EXCEPT ![d] = [id |-> r, row |-> row[r], shares |-> s, todo |-> DOMAIN s,
                                                saved |-> FALSE]]
      BY <2>5 DEF CreateRead, tables
    <3>2. CASE c = d
      <4>1. create'[c].id = r /\ create'[c].row = row[r]
        BY <2>1, <3>1, <3>2
      <4>. QED  BY <1>1, <3>1, <4>1 DEF AmountInv
    <3>3. CASE c # d
      BY <2>1, <2>3, <3>1, <3>3
    <3>. QED  BY <3>2, <3>3
  <2>6. ASSUME NEW d \in Creators, CreateSave(d)
        PROVE  row'[create'[c].id] # None /\ create'[c].row.amount = AmountOf(create'[c].id)
    <3>1. /\ create[d] # None
          /\ \/ create' = [create EXCEPT ![d] = None]
             \/ create' = [create EXCEPT ![d] = [create[d] EXCEPT !.saved = TRUE]]
      BY <2>6 DEF CreateSave
    <3>2. CASE c = d
      <4>1. create'[c] = [create[c] EXCEPT !.saved = TRUE] /\ create[c] # None
        BY <2>1, <3>1, <3>2
      <4>2. create'[c].id = create[c].id /\ create'[c].row = create[c].row
        BY <2>2, <4>1, CreateSteps
      <4>. QED  BY <2>4, <4>1, <4>2
    <3>3. CASE c # d
      BY <2>1, <2>3, <3>1, <3>3
    <3>. QED  BY <3>2, <3>3
  <2>7. ASSUME NEW d \in Creators, CreateAllocation(d)
        PROVE  row'[create'[c].id] # None /\ create'[c].row.amount = AmountOf(create'[c].id)
    <3>1. PICK u \in create[d].todo : create'[c] =
             IF c # d THEN create[c]
             ELSE IF create[d].todo = {u} THEN None ELSE [create[d] EXCEPT !.todo = @ \ {u}]
      <4>1. \E u \in create[d].todo :
              /\ \A r \in Rewards, v \in Users : alloc'[r][v] =
                   IF r = create[d].id /\ v = u
                   THEN [amount |-> Computed(AmountOf(r), create[d].shares)[u], status |-> "CREATED"]
                   ELSE alloc[r][v]
              /\ \A x \in Creators : create'[x] =
                   IF x # d THEN create[x]
                   ELSE IF create[d].todo = {u} THEN None ELSE [create[d] EXCEPT !.todo = @ \ {u}]
        BY <2>7, CreateAllocationFacts
      <4>. QED  BY <4>1, Zenon
    <3>2. CASE c = d
      <4>1. create'[c] = [create[c] EXCEPT !.todo = @ \ {u}] /\ create[c] # None
        BY <2>7, <3>1, <3>2, CreateAllocationFacts
      <4>2. create'[c].id = create[c].id /\ create'[c].row = create[c].row
        BY <2>2, <4>1, CreateSteps
      <4>. QED  BY <2>4, <4>1, <4>2
    <3>3. CASE c # d
      BY <2>3, <3>1, <3>3
    <3>. QED  BY <3>2, <3>3
  <2>8. CASE Crash
    BY <2>8 DEF Crash
  <2>9. CASE UNCHANGED create
    BY <2>3, <2>9
  <2>. QED  BY <2>5, <2>6, <2>7, <2>8, <2>9, AllocKinds DEF DistributeSave
<1>5. move' # None => /\ row'[move'.id] # None /\ move'.row.amount = AmountOf(move'.id)
                      /\ \A r \in Rewards : move'.later[r] # None =>
                           row'[r] # None /\ move'.later[r].amount = AmountOf(r)
  <2>1. ASSUME NEW rows \in Copies, TakeOf(rows), move' # None,
               \A r \in Rewards : rows[r] # None => row[r] # None /\ rows[r].amount = AmountOf(r)
        PROVE  /\ row'[move'.id] # None /\ move'.row.amount = AmountOf(move'.id)
               /\ \A r \in Rewards : move'.later[r] # None =>
                    row'[r] # None /\ move'.later[r].amount = AmountOf(r)
    BY <1>2, <2>1, TakeOfFacts
  <2>2. CASE MoveRead
    <3>. DEFINE rows == [r \in Rewards |-> IF Status(r) = "CONFIRMED" THEN row[r] ELSE None]
    <3>1. rows \in Copies
      BY <1>1 DEF Copies, TypeOK
    <3>2. TakeOf(rows)
      BY <2>2 DEF MoveRead
    <3>3. \A r \in Rewards : rows[r] # None => row[r] # None /\ rows[r].amount = AmountOf(r)
      BY <1>1 DEF AmountInv
    <3>. HIDE DEF rows
    <3>. QED  BY <2>1, <3>1, <3>2, <3>3
  <2>3. CASE move # None /\ TakeOf(move.later)
    <3>1. move.later \in Copies
      BY <1>1, <2>3, MoveSteps DEF TypeOK
    <3>2. \A r \in Rewards : move.later[r] # None => row[r] # None /\ move.later[r].amount = AmountOf(r)
      BY <1>1, <2>3 DEF AmountInv
    <3>. QED  BY <2>1, <2>3, <3>1, <3>2
  <2>4. CASE move # None /\ \E q \in {"save", "mark", "undo", "send"} : move' = [move EXCEPT !.pc = q]
    <3>1. PICK q \in {"save", "mark", "undo", "send"} : move' = [move EXCEPT !.pc = q]
      BY <2>4
    <3>2. move \in Moves
      BY <1>1, <2>4 DEF TypeOK
    <3>3. move'.id = move.id /\ move'.row = move.row /\ move'.later = move.later /\ move.id \in Rewards
      <4>1. PICK t \in Moves : t = move
        BY <3>2
      <4>2. /\ [t EXCEPT !.pc = q].id = t.id /\ [t EXCEPT !.pc = q].row = t.row /\ t.id \in Rewards
            /\ [t EXCEPT !.pc = q].later = t.later
        <5>1. q \in {"claim", "send", "mark", "undo", "save"}
          OBVIOUS
        <5>. QED  BY <5>1, MoveSteps
      <4>. QED  BY <3>1, <4>1, <4>2
    <3>. QED  BY <1>1, <1>2, <2>4, <3>3 DEF AmountInv
  <2>5. CASE UNCHANGED move
    <3>1. move # None => move.id \in Rewards
      BY <1>1, MoveSteps DEF TypeOK
    <3>. QED  BY <1>1, <1>2, <2>5, <3>1 DEF AmountInv
  <2>6. MoveClaim \/ MoveSave => move # None /\ (TakeOf(move.later) \/ move' = [move EXCEPT !.pc = "send"])
    <3>1. MoveClaim => move # None /\ (TakeOf(move.later) \/ move' = [move EXCEPT !.pc = "send"])
      BY Zenon DEF MoveClaim, MoveAt
    <3>2. MoveSave => move # None /\ TakeOf(move.later)
      BY Zenon DEF MoveSave, MoveAt
    <3>. QED  BY <3>1, <3>2
  <2>7. MoveSend \/ MoveMark \/ MoveSaveThrows =>
          \/ move' = None
          \/ move # None /\ \E q \in {"save", "mark", "undo", "send"} : move' = [move EXCEPT !.pc = q]
    <3>1. MoveSend => move # None /\ \E q \in {"save", "mark", "undo", "send"} : move' = [move EXCEPT !.pc = q]
      BY Zenon DEF MoveSend, MoveAt
    <3>2. MoveMark => move # None /\ \E q \in {"save", "mark", "undo", "send"} : move' = [move EXCEPT !.pc = q]
      BY Zenon DEF MoveMark, MoveAt
    <3>3. MoveSaveThrows => \/ move' = None
                            \/ move # None /\ move' = [move EXCEPT !.pc = "undo"]
      BY Zenon DEF MoveSaveThrows, MoveAt
    <3>. QED  BY <3>1, <3>2, <3>3
  <2>8. \/ UNCHANGED move \/ move' = None \/ MoveRead \/ MoveClaim \/ MoveSave
        \/ MoveSend \/ MoveMark \/ MoveSaveThrows
    BY Zenon DEF Next, Confirming, Create, Distribute, Move, vars, procs, Observe,
       ObserveCorrection, ConfirmRead, ConfirmSave, CreateRead, CreateSave, CreateAllocation, DistributeRead,
       DistributeCredit, DistributeSave, DistributeReread, DistributeEnd, Crash
  <2>9. move' = [move EXCEPT !.pc = "send"] =>
          \E q \in {"save", "mark", "undo", "send"} : move' = [move EXCEPT !.pc = q]
    OBVIOUS
  <2>10. \/ UNCHANGED move \/ move' = None \/ MoveRead
         \/ (move # None /\ TakeOf(move.later))
         \/ (move # None /\ \E q \in {"save", "mark", "undo", "send"} : move' = [move EXCEPT !.pc = q])
    <3>1. CASE MoveClaim \/ MoveSave
      BY <2>6, <2>9, <3>1, Zenon
    <3>2. CASE MoveSend \/ MoveMark \/ MoveSaveThrows
      BY <2>7, <3>2, Zenon
    <3>. QED  BY <2>8, <3>1, <3>2, Zenon
  <2>. QED  BY <2>2, <2>3, <2>4, <2>5, <2>10
<1>7. dist' # None /\ dist'.pc = "end" =>
        dist'.row # None /\ row'[dist'.id] # None /\ dist'.row.amount = AmountOf(dist'.id)
  <2>1. dist # None => dist \in Distributions /\ dist.id \in Rewards
    BY <1>1, DistributeSteps DEF TypeOK
  <2>2. CASE UNCHANGED dist
    BY <1>1, <1>2, <2>1, <2>2 DEF AmountInv
  <2>3. CASE DistributeRead
    BY <2>3 DEF DistributeRead
  <2>4. CASE DistributeCredit
    <3>1. dist' = None \/ dist' = [dist EXCEPT !.pc = "save"]
      BY <2>4, Zenon DEF DistributeCredit
    <3>2. dist # None
      BY <2>4 DEF DistributeCredit
    <3>. QED  BY <2>1, <3>1, <3>2, DistributeSteps
  <2>5. CASE DistributeSave
    <3>1. PICK u : dist' = [dist EXCEPT !.pc = "credit", !.todo = @ \ {u}]
      BY <2>5, DistributeSaveFacts
    <3>2. dist # None
      BY <2>5 DEF DistributeSave
    <3>. QED  BY <2>1, <3>1, <3>2, DistributeSteps
  <2>6. CASE DistributeReread
    <3>1. dist # None /\ UNCHANGED row
      BY <2>6 DEF DistributeReread, tables
    <3>2. dist' = None \/ (row[dist.id] # None /\ dist' = [dist EXCEPT !.pc = "end", !.row = row[dist.id]])
      BY <2>6 DEF DistributeReread
    <3>3. CASE row[dist.id] # None /\ dist' = [dist EXCEPT !.pc = "end", !.row = row[dist.id]]
      <4>1. PICK w \in RewardRow : w = row[dist.id] /\ w.amount = AmountOf(dist.id)
        BY <1>1, <2>1, <3>1, <3>3 DEF TypeOK, AmountInv
      <4>2. dist' = [dist EXCEPT !.pc = "end", !.row = w] /\ dist \in Distributions
        BY <2>1, <3>1, <3>3, <4>1
      <4>3. [dist EXCEPT !.pc = "end", !.row = w].row = w /\ [dist EXCEPT !.pc = "end", !.row = w].id = dist.id
        BY <4>2 DEF Distributions
      <4>4. w # None /\ row'[dist.id] # None
        BY <3>1, <3>3, <4>1
      <4>. QED  BY <4>1, <4>2, <4>3, <4>4
    <3>. QED  BY <3>2, <3>3
  <2>7. UNCHANGED dist \/ dist' = None \/ DistributeRead \/ DistributeCredit \/ DistributeSave \/ DistributeReread
    BY Zenon DEF Next, Confirming, Create, Distribute, Move, vars, procs, Observe,
       ObserveCorrection, ConfirmRead, ConfirmSave, CreateRead, CreateSave, CreateAllocation,
       DistributeEnd, MoveRead, MoveClaim, MoveSend, MoveMark, MoveSave, MoveSaveThrows, Crash
  <2>. QED  BY <2>2, <2>3, <2>4, <2>5, <2>6, <2>7
<1>6. \A r \in Rewards : Allocated(r)' # {} => row'[r] # None
  BY <1>2, AllocationsStay DEF Allocated
<1>. QED  BY <1>2, <1>3, <1>4, <1>5, <1>6, <1>7 DEF AmountInv

\* Calls are of a reward.
LEMMA CallsHaveRewards ==
  ASSUME TypeOK, NEW c \in Creators, create[c] # None
  PROVE  create[c] \in Creates /\ create[c].id \in Rewards
<1>1. create[c] \in Creates
  BY DEF TypeOK
<1>. QED  BY <1>1, CreateSteps

\* When no allocation is made or lost, and no amount of one changes, what fitted fits.
LEMMA FitsStay ==
  ASSUME NEW r \in Rewards, \A v \in Users : /\ alloc'[r][v] # None <=> alloc[r][v] # None
                                             /\ alloc'[r][v] # None => alloc'[r][v].amount = alloc[r][v].amount
  PROVE  /\ Allocated(r)' = Allocated(r)
         /\ \A s : SharesFit(r, s) => SharesFit(r, s)'
BY Zenon DEF Allocated, SharesFit

\* Steps that leave the calls and the amounts of the allocations alone.
LEMMA AllocFrame ==
  ASSUME TypeOK, AllocInv, seen \subseteq seen', create' = create,
         "overlap" \notin seen' => \A r \in Rewards, v \in Users :
            /\ alloc'[r][v] # None <=> alloc[r][v] # None
            /\ alloc'[r][v] # None => alloc'[r][v].amount = alloc[r][v].amount
  PROVE  AllocInv'
<1>1. \A c \in Creators : create'[c] # None => Underway(create[c])'
  BY DEF AllocInv, Underway
<1>2. ASSUME "overlap" \notin seen'
      PROVE  Alone' /\ (\A c \in Creators : CallFits(c)') /\ (\A r \in Rewards : RewardFits(r)')
  <2>1. Alone /\ (\A c \in Creators : CallFits(c)) /\ (\A r \in Rewards : RewardFits(r))
    BY <1>2 DEF AllocInv
  <2>2. \A r \in Rewards : Allocated(r)' = Allocated(r) /\ \A s : SharesFit(r, s) => SharesFit(r, s)'
    BY <1>2, FitsStay
  <2>3. \A r \in Rewards : Creating(r)' = Creating(r)
    BY DEF Creating
  <2>4. Alone'
    BY <2>1 DEF Alone
  <2>5. \A c \in Creators : CallFits(c)'
    BY <2>1, <2>2, CallsHaveRewards DEF CallFits
  <2>6. \A r \in Rewards : RewardFits(r)'
    BY <2>1, <2>2, <2>3 DEF RewardFits
  <2>. QED  BY <2>4, <2>5, <2>6
<1>. QED  BY <1>1, <1>2 DEF AllocInv

\* A reward whose allocations are not touched, and that is not left by its last call, fits on.
LEMMA RewardFrame ==
  ASSUME NEW r \in Rewards, RewardFits(r), seen \subseteq seen',
         Allocated(r) # {} => \A v \in Users : alloc'[r][v] = alloc[r][v],
         Allocated(r) = {} => Allocated(r)' = {},
         Allocated(r) # {} /\ Creating(r) # {} => Creating(r)' # {} \/ "crash" \in seen'
  PROVE  RewardFits(r)'
<1>1. CASE Allocated(r) = {}
  BY <1>1 DEF RewardFits
<1>2. CASE Allocated(r) # {}
  <2>1. Allocated(r)' = Allocated(r)
    BY <1>2 DEF Allocated
  <2>2. \A s : SharesFit(r, s) => SharesFit(r, s)'
    BY <1>2, FitsStay
  <2>3. PICK s \in AllShares :
          SharesFit(r, s) /\ ("crash" \in seen \/ Creating(r) # {} \/ Allocated(r) = DOMAIN s)
    BY <1>2 DEF RewardFits
  <2>4. SharesFit(r, s)' /\ ("crash" \in seen' \/ Creating(r)' # {} \/ Allocated(r)' = DOMAIN s)
    BY <1>2, <2>1, <2>2, <2>3
  <2>. QED  BY <2>4 DEF RewardFits
<1>. QED  BY <1>1, <1>2

\* A call that starts finds its reward without allocations.
LEMMA AllocAtRead == 
  ASSUME RewardInv, [Next]_vars, NEW c \in Creators, CreateRead(c)
  PROVE  AllocInv'
<1>1. TypeOK /\ AllocInv /\ seen \subseteq seen'
  BY SeenGrows DEF RewardInv
<1>2. PICK r \in Rewards, s \in setup.shares :
        /\ Allocated(r) = {} /\ create[c] = None /\ alloc' = alloc
        /\ create' = [create EXCEPT ![c] = [id |-> r, row |-> row[r], shares |-> s, todo |-> DOMAIN s,
                                            saved |-> FALSE]]
        /\ seen' = IF Creating(r) = {} THEN seen ELSE seen \cup {"overlap"}
  BY DEF CreateRead, tables
<1>. DEFINE t == [id |-> r, row |-> row[r], shares |-> s, todo |-> DOMAIN s, saved |-> FALSE]
<1>3. \A d \in Creators : create'[d] = IF d = c THEN t ELSE create[d]
  BY <1>1, <1>2 DEF TypeOK
<1>4. t.id = r /\ t.shares = s /\ t.todo = DOMAIN s /\ t.saved = FALSE
  OBVIOUS
<1>. HIDE DEF t
<1>5. ASSUME NEW d \in Creators, create'[d] # None PROVE Underway(create[d])'
  BY <1>1, <1>3, <1>4, <1>5 DEF AllocInv, Underway
<1>6. ASSUME "overlap" \notin seen'
      PROVE  Alone' /\ (\A d \in Creators : CallFits(d)') /\ (\A q \in Rewards : RewardFits(q)')
  <2>1. Alone /\ (\A d \in Creators : CallFits(d)) /\ (\A q \in Rewards : RewardFits(q))
    BY <1>1, <1>6 DEF AllocInv
  <2>2. Creating(r) = {}
    BY <1>2, <1>6
  <2>3. Alone'
    <3>1. \A d \in Creators : create[d] # None => create[d].id # r
      BY <2>2 DEF Creating
    <3>. QED  BY <1>3, <1>4, <2>1, <3>1 DEF Alone
  <2>4. \A q \in Rewards : Allocated(q)' = Allocated(q) /\ \A x : SharesFit(q, x) => SharesFit(q, x)'
    BY <1>2 DEF Allocated, SharesFit
  <2>5. ASSUME NEW d \in Creators PROVE CallFits(d)'
    <3>1. CASE d = c
      <4>1. create'[d].id = r /\ create'[d].shares = s /\ create'[d].todo = DOMAIN s
        BY <1>3, <1>4, <3>1
      <4>2. SharesFit(r, s)' /\ Allocated(r)' = {}
        BY <1>2, <2>4 DEF SharesFit
      <4>. QED  BY <4>1, <4>2 DEF CallFits
    <3>2. CASE d # c
      <4>1. create'[d] = create[d]
        BY <1>3, <3>2
      <4>. QED  BY <1>1, <2>1, <2>4, <4>1, CallsHaveRewards DEF CallFits
    <3>. QED  BY <3>1, <3>2
  <2>6. ASSUME NEW q \in Rewards PROVE RewardFits(q)'
    <3>1. Creating(q) \subseteq Creating(q)'
      BY <1>2, <1>3 DEF Creating
    <3>. QED  BY <1>1, <1>2, <2>1, <2>4, <3>1, RewardFrame
  <2>. QED  BY <2>3, <2>5, <2>6
<1>. QED  BY <1>5, <1>6 DEF AllocInv

\* Saving the row of a call makes no allocation.
LEMMA AllocAtSave ==
  ASSUME RewardInv, [Next]_vars, NEW c \in Creators, CreateSave(c)
  PROVE  AllocInv'
<1>1. TypeOK /\ AllocInv /\ seen \subseteq seen'
  BY SeenGrows DEF RewardInv
<1>2. /\ create[c] # None /\ ~create[c].saved /\ alloc' = alloc
      /\ create' = [create EXCEPT ![c] = IF DOMAIN create[c].shares = {} THEN None
                                         ELSE [create[c] EXCEPT !.saved = TRUE]]
  BY Zenon DEF CreateSave
<1>3. PICK t \in Creates : t = create[c] /\ t.id \in Rewards
  BY <1>1, <1>2, CallsHaveRewards
<1>4. PICK v \in Creates : /\ v = [t EXCEPT !.saved = TRUE] /\ v.id = t.id /\ v.shares = t.shares
                           /\ v.todo = t.todo /\ v.saved = TRUE
  BY CreateSteps
<1>5. \A d \in Creators : create'[d] = IF d # c THEN create[d] ELSE IF DOMAIN t.shares = {} THEN None ELSE v
  BY <1>1, <1>2, <1>3, <1>4 DEF TypeOK
<1>6. Underway(t)
  BY <1>1, <1>2, <1>3 DEF AllocInv
<1>7. ASSUME NEW d \in Creators, create'[d] # None PROVE Underway(create[d])'
  BY <1>1, <1>2, <1>3, <1>4, <1>5, <1>6, <1>7 DEF AllocInv, Underway
<1>8. ASSUME "overlap" \notin seen'
      PROVE  Alone' /\ (\A d \in Creators : CallFits(d)') /\ (\A q \in Rewards : RewardFits(q)')
  <2>1. Alone /\ (\A d \in Creators : CallFits(d)) /\ (\A q \in Rewards : RewardFits(q))
    BY <1>1, <1>8 DEF AllocInv
  <2>2. \A d \in Creators : create'[d] # None =>
           create[d] # None /\ create'[d].id = create[d].id /\ create'[d].shares = create[d].shares
           /\ create'[d].todo = create[d].todo
    BY <1>2, <1>3, <1>4, <1>5
  <2>3. Alone'
    BY <2>1, <2>2 DEF Alone
  <2>4. \A q \in Rewards : Allocated(q)' = Allocated(q) /\ \A x : SharesFit(q, x) => SharesFit(q, x)'
    BY <1>2 DEF Allocated, SharesFit
  <2>5. \A d \in Creators : CallFits(d)'
    BY <1>1, <2>1, <2>2, <2>4, CallsHaveRewards DEF CallFits
  <2>6. ASSUME NEW q \in Rewards PROVE RewardFits(q)'
    <3>1. Allocated(q) # {} /\ Creating(q) # {} => Creating(q)' # {}
      <4>1. SUFFICES ASSUME NEW d \in Creators, Allocated(q) # {}, create[d] # None, create[d].id = q
                     PROVE  create'[d] # None /\ create'[d].id = q
        BY DEF Creating
      <4>2. d = c /\ DOMAIN t.shares = {} => Allocated(q) = {}
        BY <1>3, <2>1, <4>1 DEF CallFits
      <4>3. CASE d = c
        <5>1. create'[d] = v
          BY <1>5, <4>1, <4>2, <4>3
        <5>. QED  BY <1>3, <1>4, <4>1, <4>3, <5>1, NoneAssumption
      <4>4. CASE d # c
        BY <1>5, <4>1, <4>4
      <4>. QED  BY <4>3, <4>4
    <3>. QED  BY <1>1, <1>2, <2>1, <2>4, <3>1, RewardFrame
  <2>. QED  BY <2>3, <2>5, <2>6
<1>. QED  BY <1>7, <1>8 DEF AllocInv

\* A call makes the next of its allocations.
LEMMA AllocAtAllocation ==
  ASSUME RewardInv, [Next]_vars, NEW c \in Creators, CreateAllocation(c)
  PROVE  AllocInv'
<1>1. TypeOK /\ AllocInv /\ create[c] # None /\ create[c].saved /\ seen' = seen
  BY CreateAllocationFacts DEF RewardInv
<1>2. PICK t \in Creates : t = create[c] /\ t.id \in Rewards /\ t.shares \in AllShares
  BY <1>1, CallsHaveRewards, CreateSteps
<1>3. PICK u \in t.todo :
        /\ \A r \in Rewards, v \in Users : alloc'[r][v] =
             IF r = t.id /\ v = u
             THEN [amount |-> Computed(AmountOf(r), t.shares)[u], status |-> "CREATED"]
             ELSE alloc[r][v]
        /\ \A d \in Creators : create'[d] =
             IF d # c THEN create[d] ELSE IF t.todo = {u} THEN None ELSE [t EXCEPT !.todo = @ \ {u}]
  <2>1. PICK u \in create[c].todo :
          /\ \A r \in Rewards, v \in Users : alloc'[r][v] =
               IF r = create[c].id /\ v = u
               THEN [amount |-> Computed(AmountOf(r), create[c].shares)[u], status |-> "CREATED"]
               ELSE alloc[r][v]
          /\ \A d \in Creators : create'[d] =
               IF d # c THEN create[d]
               ELSE IF create[c].todo = {u} THEN None ELSE [create[c] EXCEPT !.todo = @ \ {u}]
    BY CreateAllocationFacts
  <2>2. /\ \A r \in Rewards, v \in Users : alloc'[r][v] =
             IF r = t.id /\ v = u
             THEN [amount |-> Computed(AmountOf(r), t.shares)[u], status |-> "CREATED"]
             ELSE alloc[r][v]
        /\ \A d \in Creators : create'[d] =
             IF d # c THEN create[d] ELSE IF t.todo = {u} THEN None ELSE [t EXCEPT !.todo = @ \ {u}]
    BY <1>2, <2>1
  <2>3. u \in t.todo
    BY <1>2, <2>1
  <2>. QED  BY <2>2, <2>3
<1>4. PICK w \in Creates : /\ w = [t EXCEPT !.todo = @ \ {u}] /\ w.id = t.id /\ w.shares = t.shares
                           /\ w.todo = t.todo \ {u} /\ w.saved = t.saved
  <2>1. LET w == [t EXCEPT !.todo = @ \ {u}]
        IN  /\ w \in Creates /\ w.id = t.id /\ w.shares = t.shares
            /\ w.todo = t.todo \ {u} /\ w.saved = t.saved
    BY DEF Creates
  <2>. QED  BY <2>1
<1>5. \A d \in Creators : create'[d] = IF d # c THEN create[d] ELSE IF t.todo = {u} THEN None ELSE w
  BY <1>3, <1>4
<1>6. Underway(t) /\ Shares(t.shares) /\ IsFiniteSet(DOMAIN t.shares) /\ u \in DOMAIN t.shares /\ u \in Users
  BY <1>1, <1>2, AllSharesAre DEF AllocInv, Underway, Shares
<1>7. PICK n \in Int : n = Computed(AmountOf(t.id), t.shares)[u]
  <2>1. AmountOf(t.id) \in Int /\ DOMAIN t.shares # {}
    BY <1>6, RewardAssumption DEF AmountOf
  <2>. QED  BY <1>6, <2>1, ComputedSum
<1>8. PICK a \in AllocationRow : a.amount = n /\ a # None
        /\ a = [amount |-> Computed(AmountOf(t.id), t.shares)[u], status |-> "CREATED"]
  <2>1. [amount |-> n, status |-> "CREATED"] \in AllocationRow
    BY DEF AllocationRow
  <2>. QED  BY <1>7, <2>1, NoneAssumption
<1>9. \A r \in Rewards, v \in Users : alloc'[r][v] = IF r = t.id /\ v = u THEN a ELSE alloc[r][v]
  BY <1>3, <1>8
<1>10. ASSUME NEW d \in Creators, create'[d] # None PROVE Underway(create[d])'
  <2>1. CASE d # c
    BY <1>1, <1>5, <1>10, <2>1 DEF AllocInv, Underway
  <2>2. CASE d = c
    <3>1. create'[d] = w /\ t.todo # {u}
      BY <1>5, <1>10, <2>2
    <3>2. Underway(w)
      BY <1>1, <1>2, <1>3, <1>4, <1>6, <3>1 DEF Underway
    <3>. QED  BY <3>1, <3>2 DEF Underway
  <2>. QED  BY <2>1, <2>2
<1>11. ASSUME "overlap" \notin seen'
       PROVE  Alone' /\ (\A d \in Creators : CallFits(d)') /\ (\A q \in Rewards : RewardFits(q)')
  <2>1. Alone /\ (\A d \in Creators : CallFits(d)) /\ (\A q \in Rewards : RewardFits(q))
    BY <1>1, <1>11 DEF AllocInv
  <2>2. \A d \in Creators : create'[d] # None =>
           create[d] # None /\ create'[d].id = create[d].id /\ create'[d].shares = create[d].shares
    BY <1>1, <1>2, <1>4, <1>5
  <2>3. Alone'
    BY <2>1, <2>2 DEF Alone
  <2>4. Allocated(t.id) = DOMAIN t.shares \ t.todo /\ SharesFit(t.id, t.shares)
    BY <1>1, <1>2, <2>1 DEF CallFits
  <2>5. Allocated(t.id)' = DOMAIN t.shares \ (t.todo \ {u})
    BY <1>2, <1>6, <1>8, <1>9, <2>4 DEF Allocated
  <2>6. SharesFit(t.id, t.shares)'
    <3>1. SUFFICES ASSUME NEW v \in Users, alloc'[t.id][v] # None
                   PROVE  /\ v \in DOMAIN t.shares
                          /\ alloc'[t.id][v].amount = Computed(AmountOf(t.id), t.shares)[v]
      BY DEF SharesFit, Allocated
    <3>2. CASE v = u
      BY <1>2, <1>6, <1>7, <1>8, <1>9, <3>2
    <3>3. CASE v # u
      <4>1. alloc'[t.id][v] = alloc[t.id][v]
        BY <1>2, <1>9, <3>3
      <4>2. v \in Allocated(t.id)
        BY <3>1, <4>1 DEF Allocated
      <4>. QED  BY <2>4, <4>1, <4>2 DEF SharesFit
    <3>. QED  BY <3>2, <3>3
  <2>7. \A q \in Rewards : q # t.id => /\ Allocated(q)' = Allocated(q)
                                       /\ \A x : SharesFit(q, x) => SharesFit(q, x)'
    BY <1>9 DEF Allocated, SharesFit
  <2>8. ASSUME NEW d \in Creators PROVE CallFits(d)'
    <3>1. CASE d = c
      <4>1. CASE create'[d] = None
        BY <4>1 DEF CallFits
      <4>2. CASE create'[d] = w
        BY <1>4, <2>5, <2>6, <4>2 DEF CallFits
      <4>. QED  BY <1>5, <3>1, <4>1, <4>2
    <3>2. CASE d # c
      <4>1. create'[d] = create[d]
        BY <1>5, <3>2
      <4>2. create[d] # None => create[d].id \in Rewards /\ create[d].id # t.id
        BY <1>1, <1>2, <2>1, <3>2, CallsHaveRewards DEF Alone
      <4>. QED  BY <2>1, <2>7, <4>1, <4>2 DEF CallFits
    <3>. QED  BY <3>1, <3>2
  <2>9. ASSUME NEW q \in Rewards PROVE RewardFits(q)'
    <3>1. CASE q = t.id
      <4>1. CASE t.todo = {u}
        <5>1. Allocated(q)' = DOMAIN t.shares
          BY <1>6, <2>5, <3>1, <4>1
        <5>. QED  BY <1>2, <2>6, <3>1, <5>1 DEF RewardFits
      <4>2. CASE t.todo # {u}
        <5>1. create'[c] = w
          BY <1>5, <4>2
        <5>2. c \in Creating(q)'
          BY <1>4, <3>1, <5>1, NoneAssumption DEF Creating
        <5>. QED  BY <1>2, <2>6, <3>1, <5>2 DEF RewardFits
      <4>. QED  BY <4>1, <4>2
    <3>2. CASE q # t.id
      <4>1. Creating(q)' = Creating(q)
        BY <1>1, <1>2, <1>4, <1>5, <3>2 DEF Creating
      <4>2. \A v \in Users : alloc'[q][v] = alloc[q][v]
        BY <1>9, <3>2
      <4>. QED  BY <1>1, <2>1, <2>7, <3>2, <4>1, <4>2, RewardFrame
    <3>. QED  BY <3>1, <3>2
  <2>. QED  BY <2>3, <2>8, <2>9
<1>. QED  BY <1>10, <1>11 DEF AllocInv

\* What is allocated stays that of the shares of one call.
LEMMA AllocStep == RewardInv /\ [Next]_vars => AllocInv'
<1>. SUFFICES ASSUME RewardInv, [Next]_vars PROVE AllocInv'
  OBVIOUS
<1>1. TypeOK /\ AllocInv /\ seen \subseteq seen'
  BY SeenGrows DEF RewardInv
<1>2. CASE UNCHANGED <<alloc, create>>
  BY <1>1, <1>2, AllocFrame
<1>3. CASE DistributeSave
  <2>1. dist # None /\ create' = create /\ seen' = seen
    BY <1>3, DistributeSaveFacts
  <2>2. PICK u \in dist.todo, b \in AllocationRow :
          /\ b.amount = dist.rows[u].amount
          /\ \A r \in Rewards, v \in Users : alloc'[r][v] = IF r = dist.id /\ v = u THEN b ELSE alloc[r][v]
    BY <1>3, DistributeSaveFacts
  <2>3. /\ alloc[dist.id][u] # None
        /\ "overlap" \notin seen => dist.rows[u].amount = alloc[dist.id][u].amount
    BY <2>1, <2>2, Zenon DEF RewardInv, CreditInv
  <2>4. ASSUME "overlap" \notin seen', NEW r \in Rewards, NEW v \in Users
        PROVE  /\ alloc'[r][v] # None <=> alloc[r][v] # None
               /\ alloc'[r][v] # None => alloc'[r][v].amount = alloc[r][v].amount
    <3>1. "overlap" \notin seen
      BY <2>1, <2>4
    <3>. QED  BY <2>2, <2>3, <3>1, NoneAssumption
  <2>. QED  BY <1>1, <2>1, <2>4, AllocFrame
<1>4. CASE Crash
  <2>1. (\A d \in Creators : create'[d] = None) /\ alloc' = alloc /\ "crash" \in seen'
    BY <1>4 DEF Crash, Fault, tables
  <2>2. ASSUME "overlap" \notin seen', NEW q \in Rewards PROVE RewardFits(q)'
    <3>1. RewardFits(q)
      BY <1>1, <2>2 DEF AllocInv
    <3>2. Allocated(q)' = Allocated(q)
      BY <2>1 DEF Allocated
    <3>. QED  BY <1>1, <2>1, <3>1, <3>2, RewardFrame
  <2>3. Alone' /\ \A d \in Creators : CallFits(d)'
    BY <2>1 DEF Alone, CallFits
  <2>. QED  BY <2>1, <2>2, <2>3 DEF AllocInv
<1>. QED  BY <1>2, <1>3, <1>4, AllocKinds, AllocAtRead, AllocAtSave, AllocAtAllocation

-----------------------------------------------------------------------------
(* What stays undistributed. *)

\* With shares nothing stays undistributed, and the call goes on to its allocations.
LEMMA CreateSaveFacts ==
  ASSUME RewardInv, NEW c \in Creators, CreateSave(c), DOMAIN create[c].shares # {}
  PROVE  row'[create[c].id].remainder = 0
<1>1. TypeOK /\ create[c] # None
  BY DEF RewardInv, CreateSave
<1>2. create[c] \in Creates /\ create[c].id \in Rewards
  BY <1>1, CallsHaveRewards
<1>3. create[c].row \in RewardRow
  BY <1>2, CreateSteps
<1>4. row' = [row EXCEPT ![create[c].id] = [create[c].row EXCEPT !.remainder = 0]]
  BY DEF CreateSave, Saves
<1>5. [create[c].row EXCEPT !.remainder = 0].remainder = 0
  BY <1>3 DEF RewardRow
<1>. QED  BY <1>1, <1>2, <1>4, <1>5 DEF TypeOK

\* A reward has allocations, or a call that saved its row.
Begun(r) == Allocated(r) # {} \/ \E c \in Creating(r) : create[c].saved

\* A reward begins by the save of a call with shares.
LEMMA BegunStep ==
  ASSUME RewardInv, [Next]_vars, NEW r \in Rewards, Begun(r)'
  PROVE  Begun(r) \/ row'[r].remainder = 0
<1>1. TypeOK /\ create \in [Creators -> Creates \cup {None}]
  BY DEF RewardInv, TypeOK
<1>2. CASE UNCHANGED <<alloc, create>>
  BY <1>2 DEF Begun, Allocated, Creating
<1>3. CASE DistributeSave
  <2>1. dist # None /\ create' = create
    BY <1>3, DistributeSaveFacts
  <2>2. PICK u \in dist.todo, b \in AllocationRow :
          \A q \in Rewards, v \in Users : alloc'[q][v] = IF q = dist.id /\ v = u THEN b ELSE alloc[q][v]
    BY <1>3, DistributeSaveFacts
  <2>3. alloc[dist.id][u] # None
    BY <2>1, <2>2, Zenon DEF RewardInv, CreditInv
  <2>4. \A v \in Users : alloc'[r][v] # None => alloc[r][v] # None
    BY <2>2, <2>3
  <2>. QED  BY <2>1, <2>4 DEF Begun, Allocated, Creating
<1>4. CASE Crash
  BY <1>4 DEF Crash, tables, Begun, Allocated, Creating
<1>5. ASSUME NEW c \in Creators, CreateRead(c) PROVE Begun(r)
  <2>1. PICK q \in Rewards, s \in setup.shares :
          create' = [create EXCEPT ![c] = [id |-> q, row |-> row[q], shares |-> s, todo |-> DOMAIN s,
                                            saved |-> FALSE]]
    BY <1>5 DEF CreateRead
  <2>2. alloc' = alloc
    BY <1>5 DEF CreateRead, tables
  <2>3. \A d \in Creators : create'[d] = create[d] \/ create'[d].saved = FALSE
    BY <1>1, <2>1
  <2>. QED  BY <2>2, <2>3 DEF Begun, Allocated, Creating
<1>6. ASSUME NEW c \in Creators, CreateSave(c) PROVE Begun(r) \/ row'[r].remainder = 0
  <2>1. alloc' = alloc /\ create' = [create EXCEPT ![c] = IF DOMAIN create[c].shares = {} THEN None
                                                         ELSE [create[c] EXCEPT !.saved = TRUE]]
    BY <1>6, Zenon DEF CreateSave
  <2>2. create[c] \in Creates
    BY <1>1, <1>6 DEF CreateSave
  <2>3. [create[c] EXCEPT !.saved = TRUE].id = create[c].id
    BY <2>2 DEF Creates
  <2>4. CASE Allocated(r)' # {}
    BY <2>1, <2>4 DEF Begun, Allocated
  <2>5. CASE \E d \in Creators : create'[d] # None /\ create'[d].id = r /\ create'[d].saved
    <3>1. PICK d \in Creators : create'[d] # None /\ create'[d].id = r /\ create'[d].saved
      BY <2>5
    <3>2. CASE d # c
      BY <1>1, <2>1, <3>1, <3>2 DEF Begun, Creating
    <3>3. CASE d = c
      <4>1. DOMAIN create[c].shares # {} /\ create[c].id = r
        BY <1>1, <2>1, <2>3, <3>1, <3>3
      <4>. QED  BY <1>6, <4>1, CreateSaveFacts
    <3>. QED  BY <3>2, <3>3
  <2>. QED  BY <2>4, <2>5 DEF Begun, Creating
<1>7. ASSUME NEW c \in Creators, CreateAllocation(c) PROVE Begun(r)
  <2>1. create[c] # None /\ create[c].saved
    BY <1>7, CreateAllocationFacts
  <2>2. PICK t \in Creates : t = create[c]
    BY <1>1, <2>1
  <2>3. PICK u \in create[c].todo :
          /\ \A q \in Rewards, v \in Users : alloc'[q][v] =
               IF q = create[c].id /\ v = u
               THEN [amount |-> Computed(AmountOf(q), create[c].shares)[u], status |-> "CREATED"]
               ELSE alloc[q][v]
          /\ \A d \in Creators : create'[d] =
               IF d # c THEN create[d]
               ELSE IF create[c].todo = {u} THEN None ELSE [create[c] EXCEPT !.todo = @ \ {u}]
    BY <1>7, CreateAllocationFacts
  <2>4. CASE create[c].id = r
    BY <2>1, <2>4 DEF Begun, Creating
  <2>5. CASE create[c].id # r
    <3>1. \A v \in Users : alloc'[r][v] = alloc[r][v]
      BY <2>3, <2>5
    <3>2. [t EXCEPT !.todo = @ \ {u}].id = t.id
      BY DEF Creates
    <3>3. \A d \in Creators : create'[d] # None /\ create'[d].id = r => create'[d] = create[d]
      BY <2>2, <2>3, <2>5, <3>2
    <3>. QED  BY <3>1, <3>3 DEF Begun, Allocated, Creating
  <2>. QED  BY <2>4, <2>5
<1>. QED  BY <1>2, <1>3, <1>4, <1>5, <1>6, <1>7, AllocKinds

\* Nothing of a reward that has allocations stays undistributed.
LEMMA RemainderStep == RewardInv /\ [Next]_vars => RemainderInv'
<1>. SUFFICES ASSUME RewardInv, [Next]_vars, seen' \cap {"overlap", "stale"} = {}, NEW r \in Rewards, Begun(r)'
              PROVE  row'[r].remainder = 0
  BY DEF RemainderInv, Begun
<1>1. TypeOK /\ AllocInv /\ AmountInv /\ RemainderInv /\ seen \cap {"overlap", "stale"} = {}
  BY SeenGrows DEF RewardInv
<1>2. CASE Begun(r)
  <2>1. row[r].remainder = 0
    BY <1>1, <1>2 DEF RemainderInv, Begun
  <2>2. row[r] # None
    BY <1>1, <1>2 DEF AmountInv, Begun, Creating
  <2>3. ASSUME NEW c \in Creators, CreateSave(c), create[c].id = r, DOMAIN create[c].shares = {} PROVE FALSE
    <3>1. create[c] # None /\ ~create[c].saved
      BY <2>3, Zenon DEF CreateSave
    <3>2. Alone /\ CallFits(c)
      BY <1>1 DEF AllocInv
    <3>3. Allocated(r) = {}
      BY <2>3, <3>1, <3>2 DEF CallFits
    <3>4. PICK d \in Creators : create[d] # None /\ create[d].id = r /\ create[d].saved
      BY <1>2, <3>3 DEF Begun, Creating
    <3>5. d = c
      BY <2>3, <3>1, <3>2, <3>4 DEF Alone
    <3>. QED  BY <3>1, <3>4, <3>5
  <2>4. row'[r] # None
    BY <2>2, RowStep
  <2>5. \/ row'[r].remainder = row[r].remainder \/ row'[r].remainder = 0 \/ "stale" \in seen'
        \/ \E c \in Creators : CreateSave(c) /\ create[c].id = r /\ DOMAIN create[c].shares = {}
    BY <2>4, RowStep, Zenon
  <2>. QED  BY <2>1, <2>3, <2>5
<1>. QED  BY <1>2, BegunStep

-----------------------------------------------------------------------------
(* Credits. *)

\* Without calls that overlap an allocation is never made again with another amount.
LEMMA AmountsStay ==
  ASSUME RewardInv, [Next]_vars, "overlap" \notin seen', NEW r \in Rewards, NEW v \in Users, alloc[r][v] # None
  PROVE  alloc'[r][v] # None /\ alloc'[r][v].amount = alloc[r][v].amount
<1>1. alloc'[r][v] # None /\ "overlap" \notin seen /\ TypeOK /\ AllocInv
  BY AllocationsStay, SeenGrows DEF RewardInv
<1>2. CASE UNCHANGED alloc
  BY <1>1, <1>2
<1>3. CASE DistributeSave
  <2>1. dist # None
    BY <1>3, DistributeSaveFacts
  <2>2. PICK u \in dist.todo, b \in AllocationRow :
          /\ b.amount = dist.rows[u].amount
          /\ \A q \in Rewards, w \in Users : alloc'[q][w] = IF q = dist.id /\ w = u THEN b ELSE alloc[q][w]
    BY <1>3, DistributeSaveFacts
  <2>3. dist.rows[u].amount = alloc[dist.id][u].amount
    BY <1>1, <2>1, <2>2, Zenon DEF RewardInv, CreditInv
  <2>. QED  BY <1>1, <2>2, <2>3
<1>4. ASSUME NEW c \in Creators, CreateAllocation(c) PROVE alloc'[r][v] = alloc[r][v]
  <2>1. PICK u \in create[c].todo :
          /\ \A q \in Rewards, w \in Users : alloc'[q][w] =
               IF q = create[c].id /\ w = u
               THEN [amount |-> Computed(AmountOf(q), create[c].shares)[u], status |-> "CREATED"]
               ELSE alloc[q][w]
          /\ \A d \in Creators : create'[d] =
               IF d # c THEN create[d]
               ELSE IF create[c].todo = {u} THEN None ELSE [create[c] EXCEPT !.todo = @ \ {u}]
    BY <1>4, CreateAllocationFacts
  <2>2. create[c] # None /\ CallFits(c)
    BY <1>1, <1>4, CreateAllocationFacts DEF AllocInv
  <2>3. u \notin Allocated(create[c].id)
    BY <2>1, <2>2 DEF CallFits
  <2>4. ~(r = create[c].id /\ v = u)
    BY <2>3 DEF Allocated
  <2>. QED  BY <2>1, <2>4
<1>5. UNCHANGED alloc \/ DistributeSave \/ \E c \in Creators : CreateAllocation(c)
  BY AllocKinds, Zenon DEF Crash, CreateRead, CreateSave, tables
<1>. QED  BY <1>1, <1>2, <1>3, <1>4, <1>5

\* Credits and what a distribution holds are those of the allocations.
LEMMA CreditStep == RewardInv /\ [Next]_vars => CreditInv'
<1>. SUFFICES ASSUME RewardInv, [Next]_vars PROVE CreditInv'
  OBVIOUS
<1>1. TypeOK /\ CreditInv /\ seen \subseteq seen'
  BY SeenGrows DEF RewardInv
<1>2. CASE UNCHANGED <<dist, credited>>
  <2>1. dist # None => dist.id \in Rewards /\ dist.todo \subseteq Users
    BY <1>1, DistributeSteps DEF TypeOK
  <2>2. dist' # None /\ dist'.pc = "save" => dist'.todo # {}
    BY <1>1, <1>2 DEF CreditInv
  <2>3. ASSUME dist' # None, NEW u \in dist'.todo
        PROVE  /\ dist'.rows[u] # None /\ alloc'[dist'.id][u] # None
               /\ "overlap" \notin seen' => dist'.rows[u].amount = alloc'[dist'.id][u].amount
    <3>1. dist.rows[u] # None /\ alloc[dist.id][u] # None /\ u \in Users /\ dist.id \in Rewards
      BY <1>1, <1>2, <2>1, <2>3 DEF CreditInv
    <3>2. "overlap" \notin seen => dist.rows[u].amount = alloc[dist.id][u].amount
      BY <1>1, <1>2, <2>3 DEF CreditInv
    <3>. QED  BY <1>1, <1>2, <3>1, <3>2, AllocationsStay, AmountsStay
  <2>4. ASSUME "overlap" \notin seen', NEW r \in Rewards, NEW u \in Users, credited'[r][u] # None
        PROVE  alloc'[r][u] # None /\ credited'[r][u] = alloc'[r][u].amount
    <3>1. alloc[r][u] # None /\ credited[r][u] = alloc[r][u].amount
      BY <1>1, <1>2, <2>4 DEF CreditInv
    <3>. QED  BY <1>2, <2>4, <3>1, AmountsStay
  <2>. QED  BY <2>2, <2>3, <2>4 DEF CreditInv
<1>3. CASE DistributeRead \/ DistributeReread \/ DistributeEnd \/ Crash
  <2>1. CASE dist' = None
    <3>1. UNCHANGED credited /\ UNCHANGED alloc
      BY <1>3 DEF DistributeRead, DistributeReread, DistributeEnd, Crash, tables
    <3>. QED  BY <1>1, <2>1, <3>1 DEF CreditInv
  <2>2. CASE DistributeRead
    <3>1. PICK r \in Rewards : dist' = [id |-> r, todo |-> {u \in Allocated(r) : alloc[r][u].status # "CREDITED"},
                                        rows |-> alloc[r], pc |-> "credit", row |-> None]
      BY <2>2 DEF DistributeRead
    <3>2. UNCHANGED <<credited, alloc, seen>>
      BY <2>2 DEF DistributeRead, tables
    <3>3. dist'.id = r /\ dist'.rows = alloc[r] /\ dist'.pc = "credit" /\ dist'.todo \subseteq Allocated(r)
      BY <3>1
    <3>. QED  BY <1>1, <3>2, <3>3 DEF CreditInv, Allocated
  <2>3. CASE DistributeReread /\ dist' # None
    <3>1. dist # None /\ dist.todo = {} /\ UNCHANGED <<credited, alloc, seen>>
      BY <2>3 DEF DistributeReread, tables
    <3>2. row[dist.id] # None /\ dist' = [dist EXCEPT !.pc = "end", !.row = row[dist.id]]
      BY <2>3 DEF DistributeReread
    <3>3. dist \in Distributions
      BY <1>1, <3>1 DEF TypeOK
    <3>4. PICK w \in RewardRow : w = row[dist.id]
      <4>1. dist.id \in Rewards
        BY <3>3, DistributeSteps
      <4>. QED  BY <1>1, <3>2, <4>1 DEF TypeOK
    <3>5. dist'.todo = {} /\ dist'.pc = "end"
      <4>1. dist' = [dist EXCEPT !.pc = "end", !.row = w]
        BY <3>2, <3>4
      <4>2. [dist EXCEPT !.pc = "end", !.row = w].todo = dist.todo /\ [dist EXCEPT !.pc = "end", !.row = w].pc = "end"
        BY <3>3 DEF Distributions
      <4>. QED  BY <3>1, <4>1, <4>2
    <3>. QED  BY <1>1, <3>1, <3>5 DEF CreditInv
  <2>. QED  BY <1>3, <2>1, <2>2, <2>3 DEF DistributeEnd, Crash
<1>4. CASE DistributeCredit
  <2>. DEFINE n == dist.rows[Min(dist.todo)].amount
  <2>1. PICK u : u = Min(dist.todo)
    OBVIOUS
  <2>2. /\ dist # None /\ dist.todo # {} /\ UNCHANGED <<alloc, seen>>
        /\ \/ /\ credited' = [credited EXCEPT ![dist.id] =
                                [credited[dist.id] EXCEPT ![u] = Credited(dist.id, u, dist.rows[u].amount)]]
              /\ dist' = [dist EXCEPT !.pc = "save"]
           \/ dist' = None /\ UNCHANGED credited
    BY <1>4, <2>1, Zenon DEF DistributeCredit
  <2>3. dist \in Distributions
    BY <1>1, <2>2 DEF TypeOK
  <2>4. dist.id \in Rewards /\ u \in dist.todo /\ u \in Users
    BY <2>1, <2>2, <2>3, DistributeSteps, MinIsOne
  <2>5. CASE dist' = None /\ UNCHANGED credited
    BY <1>1, <2>2, <2>5 DEF CreditInv
  <2>6. CASE /\ credited' = [credited EXCEPT ![dist.id] =
                               [credited[dist.id] EXCEPT ![u] = Credited(dist.id, u, dist.rows[u].amount)]]
             /\ dist' = [dist EXCEPT !.pc = "save"]
    <3>1. \A r \in Rewards, v \in Users : credited'[r][v] =
             IF r = dist.id /\ v = u THEN Credited(dist.id, u, dist.rows[u].amount) ELSE credited[r][v]
      BY <1>1, <2>4, <2>6 DEF TypeOK
    <3>2. dist' # None /\ dist'.id = dist.id /\ dist'.todo = dist.todo /\ dist'.rows = dist.rows
      <4>1. dist' \in Distributions
        BY <2>3, <2>6, DistributeSteps
      <4>2. dist'.id = dist.id /\ dist'.todo = dist.todo /\ dist'.rows = dist.rows
        BY <2>3, <2>6 DEF Distributions
      <4>. QED  BY <4>1, <4>2, NoneAssumption
    <3>3. alloc[dist.id][u] # None /\ dist.rows[u] # None
      BY <1>1, <2>2, <2>4 DEF CreditInv
    <3>4. ASSUME "overlap" \notin seen PROVE Credited(dist.id, u, dist.rows[u].amount) = alloc[dist.id][u].amount
      BY <1>1, <2>2, <2>4, <3>4 DEF CreditInv, Credited
    <3>5. ASSUME "overlap" \notin seen, NEW r \in Rewards, NEW v \in Users, credited'[r][v] # None
          PROVE  alloc[r][v] # None /\ credited'[r][v] = alloc[r][v].amount
      <4>1. CASE r = dist.id /\ v = u
        BY <3>1, <3>3, <3>4, <3>5, <4>1
      <4>2. CASE ~(r = dist.id /\ v = u)
        BY <1>1, <3>1, <3>5, <4>2 DEF CreditInv
      <4>. QED  BY <4>1, <4>2
    <3>. QED  BY <1>1, <2>2, <3>2, <3>5 DEF CreditInv
  <2>. QED  BY <2>2, <2>5, <2>6
<1>5. CASE DistributeSave
  <2>1. dist \in Distributions /\ dist # None /\ UNCHANGED <<seen, credited>>
    BY <1>5, DistributeSaveFacts
  <2>2. PICK u \in dist.todo : dist' = [dist EXCEPT !.pc = "credit", !.todo = @ \ {u}]
    BY <1>5, DistributeSaveFacts
  <2>3. /\ dist'.id = dist.id /\ dist'.todo = dist.todo \ {u} /\ dist'.rows = dist.rows /\ dist'.pc = "credit"
        /\ dist.id \in Rewards /\ dist.todo \subseteq Users
    BY <2>1, <2>2 DEF Distributions
  <2>4. ASSUME NEW v \in dist'.todo
        PROVE  /\ dist'.rows[v] # None /\ alloc'[dist'.id][v] # None
               /\ "overlap" \notin seen' => dist'.rows[v].amount = alloc'[dist'.id][v].amount
    <3>1. v \in dist.todo /\ v \in Users
      BY <2>3, <2>4
    <3>2. dist.rows[v] # None /\ alloc[dist.id][v] # None
      BY <1>1, <2>1, <3>1 DEF CreditInv
    <3>3. "overlap" \notin seen => dist.rows[v].amount = alloc[dist.id][v].amount
      BY <1>1, <2>1, <3>1 DEF CreditInv
    <3>. QED  BY <2>1, <2>3, <3>1, <3>2, <3>3, AllocationsStay, AmountsStay
  <2>5. ASSUME "overlap" \notin seen', NEW r \in Rewards, NEW v \in Users, credited'[r][v] # None
        PROVE  alloc'[r][v] # None /\ credited'[r][v] = alloc'[r][v].amount
    <3>1. alloc[r][v] # None /\ credited[r][v] = alloc[r][v].amount
      BY <1>1, <2>1, <2>5 DEF CreditInv
    <3>. QED  BY <2>1, <2>5, <3>1, AmountsStay
  <2>. QED  BY <2>3, <2>4, <2>5 DEF CreditInv
<1>6. \/ UNCHANGED <<dist, credited>> \/ DistributeRead \/ DistributeReread \/ DistributeEnd \/ Crash
      \/ DistributeCredit \/ DistributeSave
  BY Zenon DEF Next, Confirming, Create, Distribute, Move, vars, procs, tables, Observe, ObserveCorrection,
     ConfirmRead, ConfirmSave, CreateRead, CreateSave, CreateAllocation, MoveRead, MoveClaim,
     MoveSend, MoveMark, MoveSave, MoveSaveThrows
<1>. QED  BY <1>2, <1>3, <1>4, <1>5, <1>6

-----------------------------------------------------------------------------
(* Transfers to the vault. *)

\* A transfer that was sent is not sent again.
LEMMA MoveStep == RewardInv /\ [Next]_vars => MoveInv'
<1>. SUFFICES ASSUME RewardInv, [Next]_vars, seen' \cap {"lost", "db", "crash"} = {}, NEW r \in Rewards
              PROVE  \/ vault'[r] = 0
                     \/ vault'[r] = 1 /\ r \in marked'
                     \/ vault'[r] = 1 /\ move' # None /\ move'.id = r /\ move'.pc = "mark"
  BY DEF MoveInv
<1>1. TypeOK /\ seen \cap {"lost", "db", "crash"} = {}
  BY SeenGrows DEF RewardInv
<1>2. \/ vault[r] = 0
      \/ vault[r] = 1 /\ r \in marked
      \/ vault[r] = 1 /\ move # None /\ move.id = r /\ move.pc = "mark"
  BY <1>1 DEF RewardInv, MoveInv
<1>3. CASE UNCHANGED <<vault, marked, move>>
  BY <1>2, <1>3
<1>4. CASE MoveRead \/ MoveClaim \/ MoveSave \/ MoveSaveThrows
  <2>1. vault' = vault /\ marked' = marked
    BY <1>4 DEF MoveRead, MoveClaim, MoveSave, MoveSaveThrows, tables
  <2>2. move = None \/ move.pc \in {"claim", "save", "undo"}
    BY <1>4 DEF MoveRead, MoveClaim, MoveSave, MoveSaveThrows, MoveAt
  <2>. QED  BY <1>2, <2>1, <2>2
<1>5. CASE MoveSend
  <2>1. move # None /\ move.pc = "send" /\ marked' = marked
    BY <1>5 DEF MoveSend, MoveAt
  <2>2. move \in Moves /\ move.id \in Rewards
    BY <1>1, <2>1, MoveSteps DEF TypeOK
  <2>3. \/ vault' = vault
        \/ /\ move.id \notin marked /\ vault' = [vault EXCEPT ![move.id] = vault[move.id] + 1]
           /\ move' = [move EXCEPT !.pc = "mark"]
        \/ "lost" \in seen'
    BY <1>5, Zenon DEF MoveSend, Landed, AlreadyProcessed, Fault
  <2>4. CASE vault' = vault
    BY <1>2, <2>1, <2>4
  <2>5. CASE /\ move.id \notin marked /\ vault' = [vault EXCEPT ![move.id] = vault[move.id] + 1]
             /\ move' = [move EXCEPT !.pc = "mark"]
    <3>1. move' \in Moves /\ move' # None
      BY <2>2, <2>5, MoveSteps, NoneAssumption
    <3>2. move'.id = move.id /\ move'.pc = "mark"
      BY <2>2, <2>5 DEF Moves
    <3>3. CASE r = move.id
      <4>1. vault[r] = 0
        BY <1>2, <2>1, <2>5, <3>3
      <4>2. vault'[r] = 1
        BY <1>1, <2>5, <3>3, <4>1 DEF TypeOK
      <4>. QED  BY <3>1, <3>2, <3>3, <4>2
    <3>4. CASE r # move.id
      <4>1. vault'[r] = vault[r]
        BY <1>1, <2>5, <3>4 DEF TypeOK
      <4>. QED  BY <1>2, <2>1, <3>4, <4>1
    <3>. QED  BY <3>3, <3>4
  <2>. QED  BY <1>1, <2>3, <2>4, <2>5
<1>6. CASE MoveMark
  <2>1. /\ move # None /\ vault' = vault
        /\ "db" \in seen' \/ marked' = marked \cup {move.id}
    BY <1>6 DEF MoveMark, MoveAt, Fault
  <2>. QED  BY <1>2, <2>1
<1>7. CASE Crash
  BY <1>7 DEF Crash, Fault
<1>8. \/ UNCHANGED <<vault, marked, move>> \/ MoveRead \/ MoveClaim \/ MoveSave \/ MoveSaveThrows
      \/ MoveSend \/ MoveMark \/ Crash
  BY Zenon DEF Next, Confirming, Create, Distribute, Move, vars, procs, tables, Observe, ObserveCorrection,
     ConfirmRead, ConfirmSave, CreateRead, CreateSave, CreateAllocation, DistributeRead,
     DistributeCredit, DistributeSave, DistributeReread, DistributeEnd
<1>. QED  BY <1>3, <1>4, <1>5, <1>6, <1>7, <1>8

-----------------------------------------------------------------------------
(* The invariant and the theorems. *)

\* Nothing has been observed yet.
LEMMA InitInv == Init => RewardInv
<1>. SUFFICES ASSUME Init PROVE RewardInv
  OBVIOUS
<1>1. TypeOK
  BY DEF Init, TypeOK
<1>2. /\ \A r \in Rewards : row[r] = None /\ vault[r] = 0 /\ Allocated(r) = {}
      /\ \A r \in Rewards, u \in Users : credited[r][u] = None
      /\ \A c \in Creators : create[c] = None
      /\ confirm = None /\ dist = None /\ move = None
  BY DEF Init, Allocated
<1>3. AmountInv
  BY <1>2 DEF AmountInv
<1>4. AllocInv
  BY <1>2 DEF AllocInv, Alone, CallFits, RewardFits
<1>5. RemainderInv
  BY <1>2 DEF RemainderInv, Creating
<1>6. CreditInv
  BY <1>2 DEF CreditInv
<1>7. MoveInv
  BY <1>2 DEF MoveInv
<1>. QED  BY <1>1, <1>3, <1>4, <1>5, <1>6, <1>7 DEF RewardInv

\* Every state reached by observing, confirming, allocating, distributing and moving rewards,
\* with faults and crashes, satisfies the invariant.
LEMMA Invariance == Spec => []RewardInv
<1>1. RewardInv /\ [Next]_vars => RewardInv'
  BY TypeStep, AmountStep, AllocStep, RemainderStep, CreditStep, MoveStep DEF RewardInv
<1>. QED  BY InitInv, <1>1, PTL DEF Spec

\* The variables keep their types in every reachable state.
THEOREM TypeCorrect == Spec => []TypeOK
<1>1. RewardInv => TypeOK
  BY DEF RewardInv
<1>. QED  BY <1>1, Invariance, PTL

\* createAllocations gives away all of a positive reward, and more than it by no more than ratios
\* rounded up at the twentieth decimal add to it (nothing, for an amount below 2 * Scale over the
\* number of users); it takes back at most a negative correction. For every amount, all shares and
\* every scale, as long as no calls overlap, no row is saved over a newer one and the process does not
\* die between two allocations.
THEOREM AllocationsSumUp == Spec => []AllocationsAddUp
<1>1. RewardInv => AllocationsAddUp
  <2>. SUFFICES ASSUME RewardInv, seen \cap {"overlap", "stale", "crash"} = {}, NEW r \in Rewards,
                       Allocated(r) # {}, Creating(r) = {}
                PROVE  LET sum == AllocatedSum(r) + row[r].remainder
                           amount == row[r].amount
                       IN  IF amount > 0
                           THEN amount <= sum /\ WithinRounding(sum, amount, Cardinality(Allocated(r)))
                           ELSE amount <= sum /\ sum <= 0
    BY DEF AllocationsAddUp
  <2>1. row[r].amount = AmountOf(r) /\ row[r].remainder = 0
    BY DEF RewardInv, AmountInv, RemainderInv
  <2>2. PICK s \in AllShares : SharesFit(r, s) /\ Allocated(r) = DOMAIN s
    BY DEF RewardInv, AllocInv, RewardFits
  <2>3. Shares(s) /\ IsFiniteSet(DOMAIN s) /\ DOMAIN s # {}
    BY <2>2, AllSharesAre
  <2>4. PICK n \in Int : n = AmountOf(r)
    <3>1. AmountOf(r) \in Int
      BY RewardAssumption DEF AmountOf
    <3>. QED  BY <3>1
  <2>5. [u \in Allocated(r) |-> alloc[r][u].amount] = Computed(n, s)
    <3>1. \A u \in DOMAIN s : alloc[r][u].amount = Computed(n, s)[u]
      BY <2>2, <2>4 DEF SharesFit
    <3>2. Computed(n, s) = [u \in DOMAIN s |-> Computed(n, s)[u]]
      BY DEF Computed
    <3>. QED  BY <2>2, <3>1, <3>2
  <2>6. PICK p \in Int : /\ p = AllocatedSum(r)
                         /\ n >= 0 => n <= p /\ WithinRounding(p, n, Cardinality(DOMAIN s))
                         /\ n <= 0 => n <= p /\ p <= 0
    BY <2>3, <2>5, ComputedSum DEF AllocatedSum
  <2>7. AllocatedSum(r) + row[r].remainder = p
    BY <2>1, <2>6
  <2>. QED  BY <2>1, <2>2, <2>4, <2>6, <2>7
<1>. QED  BY <1>1, Invariance, PTL

\* Users are never credited more than a reward and what rounded ratios add to it, for every amount,
\* shares and scale, however often its distribution is repeated and wherever it dies, as long as no two
\* createAllocations overlap.
THEOREM CreditsWithinReward == Spec => []CreditedWithinReward
<1>1. RewardInv => CreditedWithinReward
  <2>. SUFFICES ASSUME RewardInv, "overlap" \notin seen, NEW r \in Rewards, row[r] # None, row[r].amount > 0
                PROVE  WithinRounding(CreditedSum(r), row[r].amount, Cardinality(Users))
    BY DEF CreditedWithinReward
  <2>. DEFINE K == {v \in Users : credited[r][v] # None}
              f == [u \in K |-> credited[r][u]]
  <2>1. PICK n \in Nat : n = row[r].amount /\ n = AmountOf(r)
    <3>1. row[r].amount = AmountOf(r)
      BY DEF RewardInv, AmountInv
    <3>2. AmountOf(r) \in Int
      BY RewardAssumption DEF AmountOf
    <3>. QED  BY <3>1, <3>2
  <2>2. CreditedSum(r) = SumFunctionOnSet(f, K)
    BY DEF CreditedSum, SumFunction
  <2>3. \A u \in K : u \in Allocated(r) /\ f[u] = alloc[r][u].amount
    BY DEF RewardInv, CreditInv, Allocated
  <2>4. CASE K = {}
    <3>1. SumFunctionOnSet(f, K) = 0
      <4>1. IsFiniteSet(K) /\ \A u \in K : f[u] \in Int
        BY <2>4, FS_EmptySet
      <4>. HIDE DEF f, K
      <4>. QED  BY <2>4, <4>1, SumFacts
    <3>2. PICK k \in Nat, c \in Nat : k = Cardinality(Users) /\ c = Scale
      BY RewardAssumption, FS_CardinalityType
    <3>3. 2 * c * (0 - n) <= n * k
      <4>1. c * n \in Nat /\ n * k \in Nat
        BY <2>1, <3>2
      <4>2. 2 * c * (0 - n) = -(2 * (c * n))
        BY <2>1, <3>2
      <4>. QED  BY <4>1, <4>2
    <3>. QED  BY <2>1, <2>2, <3>1, <3>2, <3>3 DEF WithinRounding
  <2>5. CASE K # {}
    <3>1. Allocated(r) # {}
      BY <2>3, <2>5
    <3>2. PICK s \in AllShares : SharesFit(r, s)
      BY <3>1 DEF RewardInv, AllocInv, RewardFits
    <3>3. \A u \in K : u \in DOMAIN s /\ f[u] = Computed(n, s)[u]
      BY <2>1, <2>3, <3>2 DEF SharesFit
    <3>. HIDE DEF f, K
    <3>4. Shares(s) /\ IsFiniteSet(DOMAIN s) /\ DOMAIN s # {}
      BY <2>5, <3>2, <3>3, AllSharesAre
    <3>5. /\ DOMAIN Computed(n, s) = DOMAIN s
          /\ \A u \in DOMAIN s : Computed(n, s)[u] \in Nat
      BY <3>4, ComputedSum
    <3>6. SumFunctionOnSet(f, K) <= SumFunctionOnSet(Computed(n, s), DOMAIN s)
      <4>1. K \in SUBSET DOMAIN s /\ \A u \in K : f[u] \in Int /\ f[u] <= Computed(n, s)[u]
        BY <3>3, <3>5
      <4>. QED  BY <3>4, <3>5, <4>1, SumMonotone
    <3>7. PICK p \in Int : /\ p = SumFunctionOnSet(Computed(n, s), DOMAIN s)
                           /\ WithinRounding(p, n, Cardinality(DOMAIN s))
      BY <3>4, <3>5, ComputedSum DEF SumFunction
    <3>8. PICK q \in Int : q = SumFunctionOnSet(f, K) /\ q <= p
      <4>1. IsFiniteSet(K) /\ \A u \in K : f[u] \in Int
        <5>1. K \in SUBSET DOMAIN s
          BY <3>3
        <5>. QED  BY <3>3, <3>4, <3>5, <5>1, FS_Subset
      <4>2. SumFunctionOnSet(f, K) \in Int
        BY <4>1, SumFacts
      <4>. QED  BY <3>6, <3>7, <4>2
    <3>9. PICK k \in Nat, m \in Nat, c \in Nat :
            k = Cardinality(DOMAIN s) /\ m = Cardinality(Users) /\ k <= m /\ c = Scale
      <4>1. DOMAIN s \in SUBSET Users
        BY <3>4 DEF Shares
      <4>. QED  BY <4>1, RewardAssumption, FS_Subset, FS_CardinalityType
    <3>10. 2 * c * (p - n) <= n * k
      BY <3>7, <3>9 DEF WithinRounding
    <3>11. 2 * c * (q - n) <= n * m
      <4>1. (2 * c) * (q - n) <= (2 * c) * (p - n)
        BY <2>1, <3>7, <3>8, <3>9, Multiplies
      <4>2. n * k <= n * m
        BY <2>1, <3>9, Multiplies
      <4>3. PICK x \in Int, y \in Int, z \in Int, w \in Int :
              x = (2 * c) * (q - n) /\ y = (2 * c) * (p - n) /\ z = n * k /\ w = n * m
        BY <2>1, <3>7, <3>8, <3>9
      <4>4. x <= y /\ y <= z /\ z <= w
        BY <3>10, <4>1, <4>2, <4>3
      <4>5. x <= w
        BY <4>4
      <4>. QED  BY <4>3, <4>5
    <3>. QED  BY <2>1, <2>2, <3>8, <3>9, <3>11 DEF WithinRounding
  <2>. QED  BY <2>4, <2>5
<1>. QED  BY <1>1, Invariance, PTL

\* A reward reaches the vault once at most, for any number of transfers, refusals and rows saved
\* back to confirmed, as long as no answer and no receipt is lost.
THEOREM MovedOnce == Spec => []MovedAtMostOnce
<1>1. RewardInv => MovedAtMostOnce
  BY DEF RewardInv, MoveInv, MovedAtMostOnce
<1>. QED  BY <1>1, Invariance, PTL
=============================================================================
