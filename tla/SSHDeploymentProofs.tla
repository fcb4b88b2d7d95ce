------------------------ MODULE SSHDeploymentProofs -------------------------
(* What frpc reads in a rendered file, for any base file and any services.    *)
(* The argument: a part of a file that begins with a header takes no key of   *)
(* the part before it and gives it none, so frpc reads the parts one by one.  *)
EXTENDS SSHDeployment, SSHServicesProofs, WellFoundedInduction, SequenceTheorems

-----------------------------------------------------------------------------
(* Induction over the natural numbers, as a fact about sets of them *)

Below == {ss \in Nat \X Nat : ss[1] < ss[2]}

LEMMA BelowIsWellFounded == IsWellFoundedOn(Below, Nat)
  BY NatLessThanWellFounded DEF OpToRel, Below

LEMMA LeastElement == ASSUME NEW S, S \subseteq Nat, S # {}
                      PROVE  \E x \in S : \A y \in S : x <= y
<1>1. \E x \in S : \A y \in S : <<y, x>> \notin Below
  BY BelowIsWellFounded, WFMin
<1>2. PICK x \in S : \A y \in S : <<y, x>> \notin Below
  BY <1>1
<1>3. ASSUME NEW y \in S PROVE x <= y
  <2>1. x \in Nat /\ y \in Nat /\ <<y, x>> \notin Below
    BY <1>2
  <2> QED
    BY <2>1 DEF Below
<1> QED
  BY <1>3

LEMMA Induct == ASSUME NEW S, 0 \in S, \A n \in Nat : n \in S => n + 1 \in S
                PROVE  \A n \in Nat : n \in S
<1> SUFFICES ASSUME Nat \ S # {} PROVE FALSE
  OBVIOUS
<1>1. PICK x \in Nat \ S : \A y \in Nat \ S : x <= y
  BY LeastElement
<1>2. x # 0 /\ x - 1 \in Nat /\ x - 1 \notin Nat \ S /\ (x - 1) + 1 = x
  BY <1>1
<1> QED
  BY <1>1, <1>2

LEMMA LeastIsMin == ASSUME NEW S, S \subseteq Nat, S # {}
                    PROVE  Min(S) \in S /\ \A y \in S : Min(S) <= y
  BY LeastElement DEF Min

-----------------------------------------------------------------------------
(* Parts of a file *)

StartsWithHeader(file) == Len(file) > 0 => file[1] = Header

\* Where the keys are that belong to line i.
Keys(file, i) == {k \in DOMAIN file : k > i /\ \A h \in Headers(file) : ~(i < h /\ h <= k)}

LEMMA TableKeys == \A file, i : Table(file, i) = {file[j] : j \in Keys(file, i)}
  BY DEF Table, Keys

LEMMA Concat ==
    ASSUME NEW L, NEW a \in Seq(L), NEW b \in Seq(L)
    PROVE  /\ a \o b \in Seq(L) /\ Len(a \o b) = Len(a) + Len(b)
           /\ DOMAIN (a \o b) = 1..(Len(a) + Len(b))
           /\ DOMAIN a = 1..Len(a) /\ DOMAIN b = 1..Len(b)
           /\ Len(a) \in Nat /\ Len(b) \in Nat
           /\ \A i \in 1..Len(a) : (a \o b)[i] = a[i]
           /\ \A i \in 1..Len(b) : (a \o b)[Len(a) + i] = b[i]
  OBVIOUS

\* The headers of two parts put together.
LEMMA ConcatHeaders ==
    ASSUME NEW L, NEW a \in Seq(L), NEW b \in Seq(L)
    PROVE  Headers(a \o b) = Headers(a) \cup {Len(a) + i : i \in Headers(b)}
<1> DEFINE c == a \o b
<1>1. \A k \in Headers(c) : k \in Headers(a) \cup {Len(a) + i : i \in Headers(b)}
  <2> SUFFICES ASSUME NEW k \in Headers(c), k > Len(a)
               PROVE  k \in {Len(a) + i : i \in Headers(b)}
    BY Concat DEF Headers
  <2>1. k - Len(a) \in 1..Len(b) /\ k = Len(a) + (k - Len(a))
    BY Concat DEF Headers
  <2>2. b[k - Len(a)] = Header
    BY <2>1, Concat DEF Headers
  <2> QED
    BY <2>1, <2>2, Concat DEF Headers
<1>2. \A k \in Headers(a) : k \in Headers(c)
  BY Concat DEF Headers
<1>3. \A i \in Headers(b) : Len(a) + i \in Headers(c)
  BY Concat DEF Headers
<1> QED
  BY <1>1, <1>2, <1>3

\* A part that begins with a header takes nothing from the lines before it.
LEMMA FirstPart ==
    ASSUME NEW L, NEW a \in Seq(L), NEW b \in Seq(L), StartsWithHeader(b), NEW i \in 0..Len(a)
    PROVE  Table(a \o b, i) = Table(a, i)
<1> DEFINE c == a \o b
<1>1. \A k \in Keys(c, i) : k <= Len(a)
  <2> SUFFICES ASSUME NEW k \in Keys(c, i), k > Len(a) PROVE FALSE
    BY Concat DEF Keys
  <2>1. k \in 1..(Len(a) + Len(b)) /\ Len(b) > 0
    BY Concat DEF Keys
  <2>2. Len(a) + 1 \in Headers(c)
    <3>1. 1 \in Headers(b)
      BY <2>1, Concat DEF Headers, StartsWithHeader
    <3> QED
      BY <3>1, ConcatHeaders
  <2> QED
    BY <2>1, <2>2, Concat DEF Keys
<1>2. \A h \in Headers(c) : h <= Len(a) => h \in Headers(a)
  BY Concat DEF Headers
<1>3. \A h \in Headers(a) : h \in Headers(c)
  BY ConcatHeaders
<1>4. \A k \in Keys(c, i) : k \in Keys(a, i)
  BY <1>1, <1>3, Concat DEF Keys
<1>5. \A k \in Keys(a, i) : k \in Keys(c, i)
  BY <1>2, Concat, ConcatHeaders DEF Keys, Headers
<1>6. Keys(c, i) = Keys(a, i)
  BY <1>4, <1>5
<1>7. \A k \in Keys(a, i) : c[k] = a[k]
  BY Concat DEF Keys
<1> QED
  BY <1>6, <1>7, TableKeys

\* Nor does it give anything away: it is read as if it were alone.
LEMMA SecondPart ==
    ASSUME NEW L, NEW a \in Seq(L), NEW b \in Seq(L), NEW i \in 1..Len(b)
    PROVE  Table(a \o b, Len(a) + i) = Table(b, i)
<1> DEFINE c == a \o b
           n == Len(a)
<1>1. \A k \in Keys(b, i) : n + k \in Keys(c, n + i) /\ c[n + k] = b[k]
  <2> SUFFICES ASSUME NEW k \in Keys(b, i)
               PROVE  n + k \in Keys(c, n + i) /\ c[n + k] = b[k]
    OBVIOUS
  <2>1. k \in 1..Len(b) /\ k > i /\ \A h \in Headers(b) : ~(i < h /\ h <= k)
    BY Concat DEF Keys
  <2>2. n + k \in DOMAIN c /\ n + k > n + i /\ c[n + k] = b[k]
    BY <2>1, Concat
  <2>3. ASSUME NEW h \in Headers(c), n + i < h, h <= n + k PROVE FALSE
    <3>1. h - n \in 1..Len(b) /\ h = n + (h - n)
      BY <2>1, <2>3, Concat DEF Headers
    <3>2. h - n \in Headers(b)
      BY <3>1, Concat DEF Headers
    <3> QED
      BY <2>1, <2>3, <3>1, <3>2
  <2> QED
    BY <2>2, <2>3 DEF Keys
<1>2. \A k \in Keys(c, n + i) : k - n \in Keys(b, i) /\ c[k] = b[k - n]
  <2> SUFFICES ASSUME NEW k \in Keys(c, n + i)
               PROVE  k - n \in Keys(b, i) /\ c[k] = b[k - n]
    OBVIOUS
  <2>1. k \in 1..(n + Len(b)) /\ k > n + i
        /\ \A h \in Headers(c) : ~(n + i < h /\ h <= k)
    BY Concat DEF Keys
  <2>2. k - n \in 1..Len(b) /\ k = n + (k - n) /\ k - n > i
    BY <2>1, Concat
  <2>3. c[k] = b[k - n]
    BY <2>2, Concat
  <2>4. ASSUME NEW h \in Headers(b), i < h, h <= k - n PROVE FALSE
    <3>1. n + h \in Headers(c) /\ h \in 1..Len(b)
      BY ConcatHeaders, Concat DEF Headers
    <3> QED
      BY <2>1, <2>2, <2>4, <3>1, Concat
  <2> QED
    BY <2>2, <2>3, <2>4, Concat DEF Keys
<1>3. Table(c, n + i) = {c[j] : j \in Keys(c, n + i)} /\ Table(b, i) = {b[j] : j \in Keys(b, i)}
  BY TableKeys
<1>4. \A x : x \in Table(c, n + i) <=> x \in Table(b, i)
  BY <1>1, <1>2, <1>3
<1> QED
  BY <1>4

\* So frpc reads the proxies of both, and the settings of the first.
LEMMA PartsAreRead ==
    ASSUME NEW L, NEW a \in Seq(L), NEW b \in Seq(L), StartsWithHeader(b)
    PROVE  /\ Settings(a \o b) = Settings(a)
           /\ Proxies(a \o b) = Proxies(a) \cup Proxies(b)
<1>1. Settings(a \o b) = Settings(a)
  BY FirstPart DEF Settings
<1>2. \A i \in Headers(a) : Table(a \o b, i) = Table(a, i)
  BY FirstPart DEF Headers
<1>3. \A i \in Headers(b) : Table(a \o b, Len(a) + i) = Table(b, i)
  BY SecondPart DEF Headers
<1>4. Headers(a \o b) = Headers(a) \cup {Len(a) + i : i \in Headers(b)}
  BY ConcatHeaders
<1>5. \A x : x \in Proxies(a \o b) <=> x \in Proxies(a) \cup Proxies(b)
  BY <1>2, <1>3, <1>4 DEF Proxies
<1> QED
  BY <1>1, <1>5

\* Keys before the first header are the file's settings.
LEMMA PlainPart ==
    ASSUME NEW L, NEW a \in Seq(L), Headers(a) = {}
    PROVE  Settings(a) = {a[i] : i \in 1..Len(a)} /\ Proxies(a) = {}
  BY DEF Settings, Table, Proxies

\* A proxy alone is one proxy, of all its keys.
LEMMA OneProxy ==
    ASSUME NEW L, NEW a \in Seq(L), Len(a) > 0, a[1] = Header,
           \A i \in 2..Len(a) : a[i] # Header
    PROVE  Proxies(a) = {{a[i] : i \in 2..Len(a)}}
<1>1. Headers(a) = {1}
  BY DEF Headers
<1>2. Keys(a, 1) = 2..Len(a)
  BY <1>1 DEF Keys
<1>3. Table(a, 1) = {a[i] : i \in 2..Len(a)}
  BY <1>2, TableKeys
<1>4. Proxies(a) = {Table(a, 1)}
  BY <1>1 DEF Proxies
<1> QED
  BY <1>3, <1>4

-----------------------------------------------------------------------------
(* The proxies of many services *)

FlattenStep(seqs, f, n) ==
    f = [i \in 1..n |-> IF i = 1 THEN seqs[i] ELSE f[i-1] \o seqs[i]]

LEMMA FlattenExists == \A seqs : \A n \in Nat : \E f : FlattenStep(seqs, f, n)
<1> TAKE seqs
<1> DEFINE S == {n \in Nat : \E f : FlattenStep(seqs, f, n)}
<1>1. 0 \in S
  <2>1. FlattenStep(seqs, [i \in 1..0 |-> {}], 0)
    BY DEF FlattenStep
  <2> QED
    BY <2>1
<1>2. ASSUME NEW n \in Nat, n \in S PROVE n + 1 \in S
  <2>1. PICK f : FlattenStep(seqs, f, n)
    BY <1>2
  <2> DEFINE g == [i \in 1..(n+1) |-> IF i = 1 THEN seqs[i] ELSE f[i-1] \o seqs[i]]
  <2>2. ASSUME NEW i \in 1..n PROVE g[i] = f[i]
    <3>1. f = [j \in 1..n |-> IF j = 1 THEN seqs[j] ELSE f[j-1] \o seqs[j]]
      BY <2>1 DEF FlattenStep
    <3>2. f[i] = IF i = 1 THEN seqs[i] ELSE f[i-1] \o seqs[i]
      BY <3>1
    <3> QED
      BY <3>2
  <2>3. ASSUME NEW i \in 1..(n+1)
        PROVE  g[i] = IF i = 1 THEN seqs[i] ELSE g[i-1] \o seqs[i]
    <3>1. CASE i = 1
      BY <3>1
    <3>2. CASE i # 1
      <4>1. i - 1 \in 1..n
        BY <3>2
      <4>2. g[i-1] = f[i-1]
        BY <4>1, <2>2
      <4> QED
        BY <3>2, <4>2
    <3> QED
      BY <3>1, <3>2
  <2>4. FlattenStep(seqs, g, n + 1)
    BY <2>3 DEF FlattenStep
  <2> QED
    BY <2>4
<1>3. \A n \in Nat : n \in S
  <2> HIDE DEF S
  <2> QED
    BY <1>1, <1>2, Induct
<1> QED
  BY <1>3

LEMMA Flattened ==
    ASSUME NEW seqs, Len(seqs) \in Nat \ {0}
    PROVE  \E f : FlattenStep(seqs, f, Len(seqs)) /\ FlattenSeq(seqs) = f[Len(seqs)]
<1> DEFINE flatten[i \in 1..Len(seqs)] ==
             IF i = 1 THEN seqs[i] ELSE flatten[i-1] \o seqs[i]
<1>1. FlattenSeq(seqs) = flatten[Len(seqs)]
  BY DEF FlattenSeq
<1>2. \E f : f = [i \in 1..Len(seqs) |-> IF i = 1 THEN seqs[i] ELSE f[i-1] \o seqs[i]]
  BY FlattenExists DEF FlattenStep
<1>3. flatten = [i \in 1..Len(seqs) |-> IF i = 1 THEN seqs[i] ELSE flatten[i-1] \o seqs[i]]
  BY <1>2, Zenon
<1> HIDE DEF flatten
<1> QED
  BY <1>1, <1>3 DEF FlattenStep

\* frpc reads the proxies of each in a file of proxies only.
LEMMA ManyProxies ==
    ASSUME NEW L, NEW n \in Nat, NEW seqs \in [1..n -> Seq(L)],
           \A i \in 1..n : Len(seqs[i]) > 0 /\ seqs[i][1] = Header
    PROVE  /\ FlattenSeq(seqs) \in Seq(L)
           /\ StartsWithHeader(FlattenSeq(seqs))
           /\ Proxies(FlattenSeq(seqs)) = UNION {Proxies(seqs[i]) : i \in 1..n}
<1>0. Len(seqs) = n /\ DOMAIN seqs = 1..n
  OBVIOUS
<1>1. CASE n = 0
  <2>1. FlattenSeq(seqs) = seqs
    BY <1>0, <1>1 DEF FlattenSeq
  <2>2. seqs \in Seq(L)
    BY <1>1
  <2>3. DOMAIN seqs = {} /\ 1..n = {}
    BY <1>0, <1>1
  <2>4. Headers(seqs) = {}
    BY <2>3 DEF Headers
  <2>5. Proxies(seqs) = {}
    BY <2>4 DEF Proxies
  <2> QED
    BY <1>0, <1>1, <2>1, <2>2, <2>3, <2>5 DEF StartsWithHeader
<1>2. CASE n > 0
  <2>1. PICK f : FlattenStep(seqs, f, n) /\ FlattenSeq(seqs) = f[n]
    BY <1>0, <1>2, Flattened
  <2> DEFINE Good(i) == /\ f[i] \in Seq(L)
                        /\ Len(f[i]) > 0
                        /\ f[i][1] = Header
                        /\ Proxies(f[i]) = UNION {Proxies(seqs[j]) : j \in 1..i}
             S == {i \in Nat : i \in 1..n => Good(i)}
  <2>2. ASSUME NEW i \in 1..n PROVE f[i] = IF i = 1 THEN seqs[i] ELSE f[i-1] \o seqs[i]
    <3>1. f = [j \in 1..n |-> IF j = 1 THEN seqs[j] ELSE f[j-1] \o seqs[j]]
      BY <2>1 DEF FlattenStep
    <3> QED
      BY <3>1
  <2>3. 0 \in S
    OBVIOUS
  <2>4. ASSUME NEW i \in Nat, i \in S PROVE i + 1 \in S
    <3> SUFFICES ASSUME i + 1 \in 1..n PROVE Good(i + 1)
      OBVIOUS
    <3>1. CASE i = 0
      <4>1. f[1] = seqs[1] /\ 1 \in 1..n
        BY <2>2, <3>1
      <4>2. {Proxies(seqs[j]) : j \in 1..1} = {Proxies(seqs[1])}
        OBVIOUS
      <4>3. UNION {Proxies(seqs[j]) : j \in 1..1} = Proxies(seqs[1])
        BY <4>2
      <4>4. Good(1)
        BY <4>1, <4>3
      <4>5. i + 1 = 1
        BY <3>1
      <4> HIDE DEF Good
      <4> QED
        BY <4>4, <4>5
    <3>2. CASE i > 0
      <4>1. i \in 1..n /\ Good(i)
        BY <2>4, <3>2
      <4>2. f[i+1] = f[i] \o seqs[i+1]
        <5>1. i + 1 # 1 /\ (i + 1) - 1 = i
          BY <3>2
        <5>2. f[i+1] = IF i + 1 = 1 THEN seqs[i+1] ELSE f[(i+1)-1] \o seqs[i+1]
          BY <2>2
        <5> QED
          BY <5>1, <5>2
      <4>3. seqs[i+1] \in Seq(L) /\ Len(seqs[i+1]) > 0 /\ StartsWithHeader(seqs[i+1])
        BY DEF StartsWithHeader
      <4>4. /\ f[i] \o seqs[i+1] \in Seq(L)
            /\ Len(f[i] \o seqs[i+1]) > 0
            /\ (f[i] \o seqs[i+1])[1] = Header
        <5>1. f[i] \in Seq(L) /\ Len(f[i]) > 0 /\ f[i][1] = Header
          BY <4>1
        <5>2. Len(f[i]) \in Nat /\ Len(seqs[i+1]) \in Nat
          BY <5>1, <4>3
        <5>3. 1 \in 1..Len(f[i])
          BY <5>1, <5>2
        <5>4. /\ f[i] \o seqs[i+1] \in Seq(L)
              /\ Len(f[i] \o seqs[i+1]) = Len(f[i]) + Len(seqs[i+1])
              /\ (f[i] \o seqs[i+1])[1] = f[i][1]
          <6> DEFINE x == f[i]
                     y == seqs[i+1]
          <6>1. x \in Seq(L) /\ y \in Seq(L) /\ 1 \in 1..Len(x)
            BY <5>1, <5>3, <4>3
          <6> HIDE DEF x, y
          <6>2. /\ x \o y \in Seq(L) /\ Len(x \o y) = Len(x) + Len(y) /\ (x \o y)[1] = x[1]
            BY <6>1, Concat
          <6> QED
            BY <6>2 DEF x, y
        <5>5. Len(f[i] \o seqs[i+1]) > 0
          <6> DEFINE p == Len(f[i])
                     q == Len(seqs[i+1])
          <6>1. p \in Nat /\ q \in Nat /\ p > 0
            BY <5>1, <5>2
          <6> HIDE DEF p, q
          <6>2. p + q > 0
            BY <6>1
          <6> QED
            BY <6>2, <5>4 DEF p, q
        <5>6. (f[i] \o seqs[i+1])[1] = Header
          BY <5>1, <5>4
        <5> QED
          BY <5>4, <5>5, <5>6
      <4>5. Proxies(f[i] \o seqs[i+1]) = Proxies(f[i]) \cup Proxies(seqs[i+1])
        BY <4>1, <4>3, PartsAreRead
      <4>6. 1..(i+1) = (1..i) \cup {i+1}
        OBVIOUS
      <4>7. Proxies(f[i] \o seqs[i+1]) = UNION {Proxies(seqs[j]) : j \in 1..(i+1)}
        BY <4>1, <4>5, <4>6
      <4> QED
        BY <4>2, <4>4, <4>7
    <3> QED
      BY <3>1, <3>2
  <2>5. \A i \in Nat : i \in S
    <3> HIDE DEF S
    <3> QED
      BY <2>3, <2>4, Induct
  <2>6. Good(n)
    <3>1. n \in 1..n /\ n \in S
      BY <1>2, <2>5
    <3> HIDE DEF Good
    <3> QED
      BY <3>1
  <2> QED
    BY <2>1, <2>6 DEF StartsWithHeader
<1> QED
  BY <1>1, <1>2

-----------------------------------------------------------------------------
(* The order of the services *)

InPortOrder(list, S) ==
    /\ list \in [1..Cardinality(S) -> S]
    /\ Range(list) = S
    /\ \A i, j \in DOMAIN list : i < j => list[i].port < list[j].port

Sortable(S) == /\ IsFiniteSet(S) /\ \A s \in S : s.port \in Nat
               /\ \A s, t \in S : s.port = t.port => s = t

\* The one with the lowest port first, and then the others.
LEMMA SortMore ==
    ASSUME NEW S, Sortable(S), NEW x \in S, \A y \in S : x.port <= y.port,
           NEW list, InPortOrder(list, S \ {x})
    PROVE  \E more : InPortOrder(more, S)
<1> DEFINE n == Cardinality(S \ {x})
           more == [i \in 1..(n+1) |-> IF i = 1 THEN x ELSE list[i-1]]
<1>1. n \in Nat /\ Cardinality(S) = n + 1
  <2>1. IsFiniteSet(S \ {x}) /\ Cardinality(S \ {x}) = Cardinality(S) - 1
    BY FS_RemoveElement DEF Sortable
  <2>2. Cardinality(S) \in Nat /\ Cardinality(S \ {x}) \in Nat
    BY <2>1, FS_CardinalityType DEF Sortable
  <2> QED
    BY <2>1, <2>2
<1> HIDE DEF n
<1>2. list \in [1..n -> S \ {x}] /\ Range(list) = S \ {x}
      /\ \A i, j \in 1..n : i < j => list[i].port < list[j].port
  BY DEF InPortOrder, n
<1>3. \A i \in 1..n : more[i+1] = list[i]
  BY <1>1
<1>4. more[1] = x
  BY <1>1
<1>5. \A i \in 2..(n+1) : i - 1 \in 1..n /\ more[i] = list[i-1] /\ more[i] \in S \ {x}
  BY <1>1, <1>2
<1>6. more \in [1..(n+1) -> S]
  <2>1. \A i \in 1..(n+1) : more[i] \in S
    <3> TAKE i \in 1..(n+1)
    <3>1. i = 1 \/ i \in 2..(n+1)
      BY <1>1
    <3> QED
      BY <3>1, <1>4, <1>5
  <2> QED
    BY <2>1
<1> HIDE DEF more
<1>7. Range(more) = S
  <2>1. \A s \in S : \E i \in 1..(n+1) : more[i] = s
    <3> TAKE s \in S
    <3>1. CASE s = x
      BY <3>1, <1>1, <1>4
    <3>2. CASE s # x
      <4>1. PICK i \in 1..n : list[i] = s
        BY <3>2, <1>2 DEF Range
      <4>2. i + 1 \in 1..(n+1) /\ more[i+1] = s
        BY <4>1, <1>1, <1>3
      <4> QED
        BY <4>2
    <3> QED
      BY <3>1, <3>2
  <2> QED
    BY <2>1, <1>6 DEF Range
<1>8. ASSUME NEW i \in 1..(n+1), NEW j \in 1..(n+1), i < j
      PROVE  more[i].port < more[j].port
  <2>1. j \in 2..(n+1) /\ more[j] \in S \ {x}
    BY <1>1, <1>5, <1>8
  <2>2. CASE i = 1
    <3>1. more[i] = x /\ x.port <= more[j].port /\ x.port # more[j].port
      BY <2>1, <2>2, <1>4 DEF Sortable
    <3>2. x.port \in Nat /\ more[j].port \in Nat
      BY <2>1 DEF Sortable
    <3> QED
      BY <3>1, <3>2
  <2>3. CASE i # 1
    <3>1. /\ i - 1 \in 1..n /\ j - 1 \in 1..n /\ i - 1 < j - 1
          /\ more[i] = list[i-1] /\ more[j] = list[j-1]
      BY <2>1, <2>3, <1>1, <1>5, <1>8
    <3> QED
      BY <3>1, <1>2
  <2> QED
    BY <2>2, <2>3
<1>9. DOMAIN more = 1..(n+1)
  BY <1>6
<1>10. InPortOrder(more, S)
  BY <1>1, <1>6, <1>7, <1>8, <1>9 DEF InPortOrder
<1> QED
  BY <1>10

LEMMA SortedExists == \A S : Sortable(S) => \E list : InPortOrder(list, S)
<1> DEFINE Sizes == {n \in Nat : \A S : (Sortable(S) /\ Cardinality(S) = n)
                                           => \E list : InPortOrder(list, S)}
<1>1. 0 \in Sizes
  <2> SUFFICES ASSUME NEW S, Sortable(S), Cardinality(S) = 0
               PROVE  \E list : InPortOrder(list, S)
    OBVIOUS
  <2>1. S = {}
    BY FS_EmptySet DEF Sortable
  <2>2. InPortOrder([i \in 1..0 |-> {}], S)
    <3> DEFINE empty == [i \in 1..0 |-> {}]
    <3>1. 1..0 = {} /\ DOMAIN empty = {}
      OBVIOUS
    <3>2. empty \in [1..0 -> {}] /\ Range(empty) = {}
      BY <3>1 DEF Range
    <3> HIDE DEF empty
    <3>3. InPortOrder(empty, S)
      BY <2>1, <3>1, <3>2 DEF InPortOrder
    <3> QED
      BY <3>3 DEF empty
  <2> QED
    BY <2>2
<1>2. ASSUME NEW n \in Nat, n \in Sizes PROVE n + 1 \in Sizes
  <2> SUFFICES ASSUME NEW S, Sortable(S), Cardinality(S) = n + 1
               PROVE  \E list : InPortOrder(list, S)
    OBVIOUS
  <2>1. S # {}
    BY FS_EmptySet DEF Sortable
  <2>2. PICK x \in S : \A y \in S : x.port <= y.port
    <3> DEFINE P == {y.port : y \in S}
    <3>1. P \subseteq Nat /\ P # {}
      BY <2>1 DEF Sortable
    <3>2. PICK p \in P : \A q \in P : p <= q
      BY <3>1, LeastElement
    <3> QED
      BY <3>2
  <2>3. IsFiniteSet(S \ {x}) /\ Cardinality(S \ {x}) = n
    BY FS_RemoveElement DEF Sortable
  <2>4. Sortable(S \ {x})
    BY <2>3 DEF Sortable
  <2>5. PICK list : InPortOrder(list, S \ {x})
    BY <1>2, <2>3, <2>4
  <2> QED
    BY <2>2, <2>5, SortMore
<1>3. \A n \in Nat : n \in Sizes
  <2> HIDE DEF Sizes
  <2> QED
    BY <1>1, <1>2, Induct
<1> SUFFICES ASSUME NEW S, Sortable(S) PROVE \E list : InPortOrder(list, S)
  OBVIOUS
<1>4. Cardinality(S) \in Nat
  BY FS_CardinalityType DEF Sortable
<1> QED
  BY <1>3, <1>4

LEMMA SortedIsSorted == ASSUME NEW S, Sortable(S) PROVE InPortOrder(Sorted(S), S)
<1>1. \E list \in [1..Cardinality(S) -> S] :
        Range(list) = S /\ \A i, j \in DOMAIN list : i < j => list[i].port < list[j].port
  BY SortedExists DEF InPortOrder
<1> QED
  BY <1>1 DEF Sorted, InPortOrder

-----------------------------------------------------------------------------
(* renderConfig *)

\* splitBaseConfig cuts the base file where its proxies begin.
LEMMA BaseSplit ==
    ASSUME NEW L, NEW base \in Seq(L)
    PROVE  /\ BaseGlobal(base) \in Seq(L) /\ BaseProxies(base) \in Seq(L)
           /\ Headers(BaseGlobal(base)) = {}
           /\ StartsWithHeader(BaseProxies(base))
           /\ base = BaseGlobal(base) \o BaseProxies(base)
<1> DEFINE n == Len(base)
           S == Headers(base) \cup {n + 1}
           m == Min(S)
           a == SubSeq(base, 1, m - 1)
           b == SubSeq(base, m, n)
<1>1. n \in Nat /\ DOMAIN base = 1..n /\ S \subseteq Nat \ {0}
  BY DEF Headers
<1>2. m \in S /\ \A k \in S : m <= k
  BY <1>1, LeastIsMin
<1> HIDE DEF m
<1>3. m \in 1..(n + 1)
  BY <1>1, <1>2
<1>4. /\ a \in Seq(L) /\ Len(a) = m - 1 /\ \A i \in 1..(m - 1) : a[i] = base[i]
      /\ DOMAIN a = 1..(m - 1)
  BY <1>1, <1>3
<1>5. /\ b \in Seq(L) /\ Len(b) = n + 1 - m
      /\ \A i \in 1..(n + 1 - m) : b[i] = base[m + i - 1]
  BY <1>1, <1>3
<1>6. BaseGlobal(base) = a
  BY DEF BaseGlobal, m
<1>7. (m - 1) + 1 = m
  BY <1>3
<1>8. BaseProxies(base) = b
  BY <1>4, <1>6, <1>7 DEF BaseProxies
<1> HIDE DEF a, b
<1>9. Headers(a) = {}
  <2> SUFFICES ASSUME NEW i \in Headers(a) PROVE FALSE
    OBVIOUS
  <2>1. i \in 1..(m - 1) /\ base[i] = Header
    BY <1>4 DEF Headers
  <2>2. i \in S /\ i < m
    BY <2>1, <1>1, <1>3 DEF Headers
  <2> QED
    BY <2>1, <2>2, <1>2, <1>3
<1>10. StartsWithHeader(b)
  <2> SUFFICES ASSUME Len(b) > 0 PROVE b[1] = Header
    BY DEF StartsWithHeader
  <2>1. m # n + 1 /\ b[1] = base[m]
    BY <1>1, <1>3, <1>5
  <2>2. m \in Headers(base)
    BY <2>1, <1>2
  <2> QED
    BY <2>1, <2>2 DEF Headers
<1>11. base = a \o b
  <2>1. SubSeq(base, 1, m - 1) \o SubSeq(base, (m - 1) + 1, n) = SubSeq(base, 1, n)
    <3>1. 1 \in 1..(n + 1) /\ m - 1 \in (1 - 1)..n /\ n \in (m - 1)..n
      BY <1>1, <1>3
    <3> QED
      BY <3>1, ConcatAdjacentSubSeq
  <2>2. SubSeq(base, 1, n) = base
    BY SubSeqFull
  <2> QED
    BY <2>1, <2>2, <1>7 DEF a, b
<1> QED
  BY <1>4, <1>5, <1>6, <1>8, <1>9, <1>10, <1>11

LEMMA FunctionIsSeq == ASSUME NEW L, NEW n \in Nat, NEW p \in [1..n -> L]
                       PROVE  p \in Seq(L) /\ Len(p) = n
  OBVIOUS

LEMMA HeaderIsNoKey == \A name, value : Key(name, value) # Header
  BY DEF Key, Header

\* What an entry written by renderConfig is.
LEMMA ProxyLines ==
    ASSUME NEW L, NEW name, NEW ip, NEW lp, NEW rp,
           \A i \in 1..6 : Proxy(name, ip, lp, rp)[i] \in L
    PROVE  LET p == Proxy(name, ip, lp, rp) IN
           /\ p \in Seq(L) /\ Len(p) = 6 /\ p[1] = Header
           /\ Proxies(p) = {{p[i] : i \in 2..6}}
<1> DEFINE p == Proxy(name, ip, lp, rp)
<1>1. Len(p) = 6 /\ DOMAIN p = 1..6 /\ p[1] = Header
  BY DEF Proxy
<1>2. p = [i \in 1..6 |-> p[i]]
  BY DEF Proxy
<1>3. /\ p[2] # Header /\ p[3] # Header /\ p[4] # Header
      /\ p[5] # Header /\ p[6] # Header
  BY HeaderIsNoKey DEF Proxy
<1> HIDE DEF p
<1>4. p \in Seq(L)
  <2>1. \A i \in 1..6 : p[i] \in L
    BY DEF p
  <2>2. p \in [1..6 -> L]
    BY <1>2, <2>1
  <2>3. 6 \in Nat
    OBVIOUS
  <2> QED
    BY <2>2, <2>3, FunctionIsSeq
<1>5. \A i \in 2..6 : p[i] # Header
  <2>1. \A i \in 2..6 : i = 2 \/ i = 3 \/ i = 4 \/ i = 5 \/ i = 6
    OBVIOUS
  <2> QED
    BY <2>1, <1>3
<1>6. Proxies(p) = {{p[i] : i \in 2..Len(p)}}
  BY <1>1, <1>4, <1>5, OneProxy
<1> QED
  BY <1>1, <1>4, <1>6 DEF p

\* The entries of the services, in the order of their ports.
LEMMA ServiceEntries ==
    ASSUME NEW L, NEW services, Sortable(services),
           \A s \in services : \A i \in 1..6 : ServiceProxy(s)[i] \in L
    PROVE  /\ ServiceProxies(services) \in Seq(L)
           /\ StartsWithHeader(ServiceProxies(services))
           /\ Proxies(ServiceProxies(services))
                = {{ServiceProxy(s)[i] : i \in 2..6} : s \in services}
<1> DEFINE list == Sorted(services)
           n == Cardinality(services)
           seqs == [i \in DOMAIN list |-> ServiceProxy(list[i])]
<1>1. n \in Nat /\ DOMAIN list = 1..n /\ Range(list) = services
  BY SortedIsSorted, FS_CardinalityType DEF Sortable, InPortOrder
<1>2. ServiceProxies(services) = FlattenSeq(seqs)
  BY DEF ServiceProxies
<1>3. \A s \in services :
        /\ ServiceProxy(s) \in Seq(L) /\ Len(ServiceProxy(s)) = 6
        /\ ServiceProxy(s)[1] = Header
        /\ Proxies(ServiceProxy(s)) = {{ServiceProxy(s)[i] : i \in 2..6}}
  BY ProxyLines DEF ServiceProxy
<1> HIDE DEF list, n
<1>4. \A i \in 1..n : list[i] \in services /\ seqs[i] = ServiceProxy(list[i])
  BY <1>1 DEF Range
<1>5. \A s \in services : \E i \in 1..n : list[i] = s
  BY <1>1 DEF Range
<1>6. /\ seqs \in [1..n -> Seq(L)]
      /\ \A i \in 1..n : Len(seqs[i]) > 0 /\ seqs[i][1] = Header
  BY <1>1, <1>3, <1>4
<1> HIDE DEF seqs
<1>7. /\ FlattenSeq(seqs) \in Seq(L) /\ StartsWithHeader(FlattenSeq(seqs))
      /\ Proxies(FlattenSeq(seqs)) = UNION {Proxies(seqs[i]) : i \in 1..n}
  BY <1>1, <1>6, ManyProxies
<1>8. UNION {Proxies(seqs[i]) : i \in 1..n} = {{ServiceProxy(s)[i] : i \in 2..6} : s \in services}
  <2>1. \A i \in 1..n : Proxies(seqs[i]) = {{ServiceProxy(list[i])[k] : k \in 2..6}}
    BY <1>3, <1>4
  <2> DEFINE Lines(s) == {ServiceProxy(s)[i] : i \in 2..6}
  <2>2. \A i \in 1..n : Proxies(seqs[i]) = {Lines(list[i])}
    BY <2>1
  <2> HIDE DEF Lines
  <2>3. \A x : x \in UNION {Proxies(seqs[i]) : i \in 1..n}
                  <=> \E i \in 1..n : x = Lines(list[i])
    BY <2>2, Zenon
  <2>4. \A x : (\E i \in 1..n : x = Lines(list[i])) <=> x \in {Lines(s) : s \in services}
    BY <1>4, <1>5, Zenon
  <2>5. UNION {Proxies(seqs[i]) : i \in 1..n} = {Lines(s) : s \in services}
    BY <2>3, <2>4, Zenon
  <2> QED
    BY <2>5 DEF Lines
<1> QED
  BY <1>2, <1>7, <1>8

IsLines(file) == file \in Seq({file[i] : i \in DOMAIN file})

\* Of a rendered file frpc reads what was meant, for any base file and any
\* services with different ports: the base file's settings and the agent's web
\* server, nothing of them in a proxy, and the proxies of the base file, of the
\* agent and of the services, each with its own keys.
THEOREM RenderedFile ==
    ASSUME NEW base, IsLines(base), NEW services, Sortable(services), NEW port
    PROVE  LET file == renderConfig(base, services, port)
               Lines(p) == {p[i] : i \in 2..6} IN
           /\ Settings(file) = Settings(base) \cup {WebServer[i] : i \in 1..4}
           /\ Proxies(file) = Proxies(base) \cup {Lines(Management(port))}
                 \cup {Lines(ServiceProxy(s)) : s \in services}
<1> DEFINE a == BaseGlobal(base)
           b == BaseProxies(base)
           m == Management(port)
           e == ServiceProxies(services)
           L == UNION {{base[i] : i \in DOMAIN base}, {WebServer[i] : i \in 1..4},
                       {m[i] : i \in 1..6},
                       UNION {{ServiceProxy(s)[i] : i \in 1..6} : s \in services}}
<1>1. base \in Seq(L)
  <2>1. base \in Seq({base[i] : i \in DOMAIN base})
    BY DEF IsLines
  <2>2. {base[i] : i \in DOMAIN base} \subseteq L
    OBVIOUS
  <2> QED
    BY <2>1, <2>2
<1>2. WebServer \in Seq(L) /\ Len(WebServer) = 4 /\ Headers(WebServer) = {}
  <2>1. Len(WebServer) = 4 /\ DOMAIN WebServer = 1..4
    BY DEF WebServer
  <2>2. WebServer = [i \in 1..4 |-> WebServer[i]]
    BY DEF WebServer
  <2>3. \A i \in 1..4 : WebServer[i] \in L
    OBVIOUS
  <2>4. WebServer \in [1..4 -> L]
    BY <2>2, <2>3
  <2>5. /\ WebServer[1] # Header /\ WebServer[2] # Header
        /\ WebServer[3] # Header /\ WebServer[4] # Header
    BY HeaderIsNoKey DEF WebServer
  <2>6. \A i \in 1..4 : i = 1 \/ i = 2 \/ i = 3 \/ i = 4
    OBVIOUS
  <2>7. Headers(WebServer) = {}
    BY <2>1, <2>5, <2>6 DEF Headers
  <2>8. 4 \in Nat
    OBVIOUS
  <2>9. WebServer \in Seq(L)
    BY <2>4, <2>8, FunctionIsSeq
  <2> QED
    BY <2>1, <2>7, <2>9
<1>3. \A i \in 1..6 : m[i] \in L
  OBVIOUS
<1>4. \A s \in services : \A i \in 1..6 : ServiceProxy(s)[i] \in L
  OBVIOUS
<1> HIDE DEF L
<1>5. /\ m \in Seq(L) /\ StartsWithHeader(m) /\ Proxies(m) = {{m[i] : i \in 2..6}}
  BY <1>3, ProxyLines DEF Management, StartsWithHeader
<1>6. /\ e \in Seq(L) /\ StartsWithHeader(e)
      /\ Proxies(e) = {{ServiceProxy(s)[i] : i \in 2..6} : s \in services}
  BY <1>4, ServiceEntries
<1>7. a \in Seq(L) /\ b \in Seq(L) /\ Headers(a) = {} /\ StartsWithHeader(b) /\ base = a \o b
  BY <1>1, BaseSplit
<1>8. renderConfig(base, services, port) = a \o WebServer \o b \o m \o e
  BY DEF renderConfig
<1> DEFINE g == a \o WebServer
           gb == g \o b
           gbm == gb \o m
<1> HIDE DEF a, b, m, e
<1>9. /\ g \in Seq(L) /\ Headers(g) = {}
  <2>1. Headers(g) = Headers(a) \cup {Len(a) + i : i \in Headers(WebServer)}
    BY <1>2, <1>7, ConcatHeaders, SMTT(30)
  <2> QED
    BY <2>1, <1>2, <1>7
<1>10. Settings(g) = Settings(a) \cup {WebServer[i] : i \in 1..4} /\ Proxies(g) = {}
       /\ Proxies(a) = {}
  <2>1. /\ Settings(g) = {g[i] : i \in 1..Len(g)} /\ Proxies(g) = {}
        /\ Settings(a) = {a[i] : i \in 1..Len(a)} /\ Proxies(a) = {}
    BY <1>7, <1>9, PlainPart
  <2>2. /\ Len(g) = Len(a) + 4 /\ Len(a) \in Nat
        /\ \A i \in 1..Len(a) : g[i] = a[i]
        /\ \A i \in 1..4 : g[Len(a) + i] = WebServer[i]
    <3>1. /\ Len(g) = Len(a) + Len(WebServer) /\ Len(a) \in Nat
          /\ \A i \in 1..Len(a) : g[i] = a[i]
          /\ \A i \in 1..Len(WebServer) : g[Len(a) + i] = WebServer[i]
      <4>1. a \in Seq(L) /\ WebServer \in Seq(L)
        BY <1>2, <1>7
      <4> QED
        BY <4>1, Concat
    <3> HIDE DEF g
    <3> QED
      BY <3>1, <1>2
  <2> HIDE DEF g
  <2>3. \A x \in {g[i] : i \in 1..Len(g)} :
          x \in {a[i] : i \in 1..Len(a)} \cup {WebServer[i] : i \in 1..4}
    <3> TAKE x \in {g[i] : i \in 1..Len(g)}
    <3>1. PICK i \in 1..Len(g) : x = g[i]
      OBVIOUS
    <3>2. CASE i <= Len(a)
      <4>1. i \in 1..Len(a) /\ x = a[i]
        BY <2>2, <3>1, <3>2
      <4> QED
        BY <4>1
    <3>3. CASE i > Len(a)
      <4>1. i - Len(a) \in 1..4 /\ i = Len(a) + (i - Len(a))
        BY <2>2, <3>3
      <4>2. x = WebServer[i - Len(a)]
        BY <2>2, <3>1, <4>1
      <4> QED
        BY <4>1, <4>2
    <3> QED
      BY <2>2, <3>2, <3>3
  <2>4. \A i \in 1..Len(a) : i \in 1..Len(g) /\ a[i] = g[i]
    BY <2>2
  <2>5. \A i \in 1..4 : Len(a) + i \in 1..Len(g) /\ WebServer[i] = g[Len(a) + i]
    BY <2>2
  <2>6. {g[i] : i \in 1..Len(g)} = {a[i] : i \in 1..Len(a)} \cup {WebServer[i] : i \in 1..4}
    <3>1. \A x \in {a[i] : i \in 1..Len(a)} : x \in {g[i] : i \in 1..Len(g)}
      BY <2>4
    <3>2. \A x \in {WebServer[i] : i \in 1..4} : x \in {g[i] : i \in 1..Len(g)}
      BY <2>5
    <3> DEFINE G == {g[i] : i \in 1..Len(g)}
               A == {a[i] : i \in 1..Len(a)}
               W == {WebServer[i] : i \in 1..4}
    <3>3. (\A x \in G : x \in A \cup W) /\ (\A x \in A : x \in G) /\ (\A x \in W : x \in G)
      BY <2>3, <3>1, <3>2
    <3> HIDE DEF G, A, W
    <3>4. G = A \cup W
      BY <3>3
    <3> QED
      BY <3>4 DEF G, A, W
  <2> QED
    BY <2>1, <2>6
<1> HIDE DEF g
<1>11. gb \in Seq(L) /\ Settings(gb) = Settings(g) /\ Proxies(gb) = Proxies(b)
  <2>1. /\ Settings(g \o b) = Settings(g) /\ Proxies(g \o b) = Proxies(g) \cup Proxies(b)
    BY <1>7, <1>9, PartsAreRead
  <2>2. g \o b \in Seq(L)
    BY <1>7, <1>9, Concat
  <2> QED
    BY <2>1, <2>2, <1>10
<1> HIDE DEF gb
<1>12. gbm \in Seq(L) /\ Settings(gbm) = Settings(g) /\ Proxies(gbm) = Proxies(b) \cup Proxies(m)
  BY <1>5, <1>11, PartsAreRead
<1> HIDE DEF gbm
<1>13. /\ Settings(gbm \o e) = Settings(g)
       /\ Proxies(gbm \o e) = Proxies(b) \cup Proxies(m) \cup Proxies(e)
  BY <1>6, <1>12, PartsAreRead
<1>14. Settings(base) = Settings(a) /\ Proxies(base) = Proxies(b)
  <2>1. /\ Settings(a \o b) = Settings(a) /\ Proxies(a \o b) = Proxies(a) \cup Proxies(b)
    BY <1>7, PartsAreRead
  <2> QED
    BY <2>1, <1>7, <1>10
<1>15. renderConfig(base, services, port) = gbm \o e
  BY <1>8 DEF g, gb, gbm
<1>16. Proxies(m) = {{m[i] : i \in 2..6}}
  BY <1>5
<1> QED
  BY <1>6, <1>10, <1>13, <1>14, <1>15, <1>16 DEF m

-----------------------------------------------------------------------------
\* What is sent to the agent can be sorted: its ports are different.
LEMMA SentIsSortable ==
    ASSUME ServiceInv, NEW h \in Handlers, wire[h] # None
    PROVE  Sortable(Enabled(wire[h]))
<1> DEFINE w == wire[h]
           I == {j \in DOMAIN w : w[j].enabled}
<1>1. w \in Requests /\ Accepts(w)
  BY DEF ServiceInv, TypeOK, WireAccepted
<1>2. PICK D \in SUBSET Ids : w \in [D -> Service]
  BY <1>1 DEF Requests
<1>3. \A i \in I : i \in Ids /\ w[i].port \in Nat
  BY <1>2, PortsAssumption DEF Service, Ports
<1>4. IsFiniteSet(I)
  <2>1. 1 \in Int /\ MaxId \in Int
    BY BoundsAssumption
  <2>2. IsFiniteSet(1..MaxId)
    BY <2>1, FS_Interval
  <2>3. I \subseteq 1..MaxId
    BY <1>3 DEF Ids
  <2> HIDE DEF I
  <2> QED
    BY <2>2, <2>3, FS_Subset
<1> DEFINE S == Enabled(w)
<1>5. S = {[port |-> w[i].port, target |-> w[i].target] : i \in I}
  BY DEF Enabled
<1>6. \A i, j \in I : w[i].port = w[j].port => i = j
  BY <1>1 DEF Accepts
<1> HIDE DEF S, I, w
<1>7. IsFiniteSet(S)
  <2> DEFINE f == [i \in I |-> [port |-> w[i].port, target |-> w[i].target]]
  <2>1. f \in Surjection(I, S)
    BY <1>5 DEF Surjection
  <2> QED
    BY <2>1, <1>4, FS_Surjection
<1>8. \A s \in S : s.port \in Nat
  BY <1>3, <1>5
<1>9. \A s, t \in S : s.port = t.port => s = t
  BY <1>5, <1>6
<1> QED
  BY <1>7, <1>8, <1>9 DEF Sortable, S, w

\* Of every file that the agent renders for the backend, frpc reads the base
\* file's settings and proxies as they were, the agent's own port and exactly
\* the enabled services of the table that was listed, for any base files, ports,
\* targets and services, and any interleaving of the requests.
THEOREM RenderedMeansListed == Spec => []RenderedIsMeant
<1>1. ServiceInv => RenderedIsMeant
  <2> SUFFICES ASSUME ServiceInv, NEW h \in Handlers, NEW base \in Bases, wire[h] # None
               PROVE  LET file == renderConfig(base, Enabled(wire[h]), ManagementPort)
                          Lines(p) == {p[i] : i \in 2..6} IN
                      /\ Settings(file) = Settings(base) \cup {WebServer[i] : i \in 1..4}
                      /\ Proxies(file) = Proxies(base) \cup {Lines(Management(ManagementPort))}
                            \cup {Lines(ServiceProxy(m)) : m \in Enabled(wire[h])}
    BY DEF RenderedIsMeant
  <2>1. IsLines(base)
    BY BasesAssumption DEF IsLines
  <2>2. Sortable(Enabled(wire[h]))
    BY SentIsSortable
  <2> QED
    BY <2>1, <2>2, RenderedFile
<1> QED
  BY <1>1, ServicesInvariant, PTL
=============================================================================
