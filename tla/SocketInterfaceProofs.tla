------------------------ MODULE SocketInterfaceProofs -----------------------
(***************************************************************************)
(* Theorems about SocketInterface, for every sync, set of scripts, buffer  *)
(* size and number of clients: what is delivered is what was sent.         *)
(***************************************************************************)
EXTENDS SocketInterface, TLAPS, SequenceTheorems, WellFoundedInduction

-----------------------------------------------------------------------------
(* Numbers and sequences *)

LEMMA SetInduction ==
  ASSUME NEW S, 0 \in S, \A n \in Nat : n \in S => n + 1 \in S
  PROVE  \A n \in Nat : n \in S
<1> DEFINE R   == {p \in Nat \X Nat : p[1] < p[2]}
           Out == Nat \ S
<1>1. IsWellFoundedOn(R, Nat)
  BY NatLessThanWellFounded, Zenon DEF OpToRel
<1> HIDE DEF R
<1>2. ASSUME Out # {} PROVE FALSE
  <2> HIDE DEF Out
  <2>1. PICK n \in Out : \A k \in Out : ~(<<k, n>> \in R)
    <3>1. Out \subseteq Nat
      BY DEF Out
    <3> QED
      BY <1>1, <1>2, <3>1, WFMin, Zenon
  <2>2. n \in Nat \ {0} /\ n \notin S
    BY DEF Out
  <2>3. n - 1 \in Nat /\ n - 1 \notin S
    BY <2>2
  <2>4. <<n - 1, n>> \in Nat \X Nat /\ <<n - 1, n>>[1] = n - 1 /\ <<n - 1, n>>[2] = n
    BY <2>2, <2>3
  <2>5. <<n - 1, n>> \in R
    BY <2>2, <2>4 DEF R
  <2> QED
    BY <2>1, <2>3, <2>5 DEF Out
<1> QED
  BY <1>2

LEMMA Smaller ==
  ASSUME NEW a \in Nat, NEW b \in Nat
  PROVE  Min({a, b}) = IF a <= b THEN a ELSE b
BY DEF Min

\* FlattenSeq and Requests are recursive over the sequence: both grow with it.
IsFlattening(f, q, n) == f = [i \in 1 .. n |-> IF i = 1 THEN q[i] ELSE f[i - 1] \o q[i]]
Agree(q, r, n) == \A i \in 1 .. n : q[i] = r[i]
Flattening(q) == CHOOSE f : IsFlattening(f, q, Len(q))

LEMMA FlatteningIs ==
  ASSUME NEW q, Len(q) # 0
  PROVE  FlattenSeq(q) = Flattening(q)[Len(q)]
BY DEF FlattenSeq, Flattening, IsFlattening

LEMMA FlattenEmpty ==
  ASSUME NEW q, Len(q) = 0
  PROVE  FlattenSeq(q) = q
BY DEF FlattenSeq

LEMMA FlatteningExists ==
  ASSUME NEW q, NEW n \in Nat
  PROVE  \E f : IsFlattening(f, q, n)
<1> DEFINE S == {k \in Nat : \E f : IsFlattening(f, q, k)}
<1>1. 0 \in S
  <2>1. IsFlattening([i \in 1 .. 0 |-> 0], q, 0)
    BY DEF IsFlattening
  <2> QED
    BY <2>1
<1>2. ASSUME NEW k \in Nat, k \in S PROVE k + 1 \in S
  <2>1. PICK f : IsFlattening(f, q, k)
    BY <1>2
  <2> DEFINE g == [i \in 1 .. k + 1 |-> IF i = 1 THEN q[1] ELSE IF i <= k THEN f[i] ELSE f[k] \o q[k + 1]]
  <2>2. \A i \in 1 .. k : f[i] = IF i = 1 THEN q[i] ELSE f[i - 1] \o q[i]
    BY <2>1 DEF IsFlattening
  <2>3. \A i \in 1 .. k : g[i] = f[i]
    BY <2>2
  <2>4. ASSUME NEW i \in 1 .. k + 1 PROVE g[i] = IF i = 1 THEN q[i] ELSE g[i - 1] \o q[i]
    <3>1. CASE i = 1
      BY <3>1
    <3>2. CASE i \in 2 .. k
      <4>1. i \in 1 .. k /\ i - 1 \in 1 .. k /\ i # 1
        BY <3>2
      <4> HIDE DEF g
      <4>2. g[i] = f[i] /\ g[i - 1] = f[i - 1]
        BY <2>3, <4>1
      <4>3. f[i] = f[i - 1] \o q[i]
        BY <2>2, <4>1
      <4> QED
        BY <4>1, <4>2, <4>3, Zenon
    <3>3. CASE i = k + 1 /\ i # 1
      <4>1. k \in 1 .. k /\ i - 1 = k /\ ~(i <= k)
        BY <3>3
      <4>2. g[i] = IF i = 1 THEN q[1] ELSE IF i <= k THEN f[i] ELSE f[k] \o q[k + 1]
        OBVIOUS
      <4> HIDE DEF g
      <4>3. g[i] = f[k] \o q[i] /\ g[i - 1] = f[k]
        BY <2>3, <3>3, <4>1, <4>2
      <4> QED
        BY <3>3, <4>3, Zenon
    <3> QED
      BY <3>1, <3>2, <3>3
  <2>5. IsFlattening(g, q, k + 1)
    BY <2>4 DEF IsFlattening
  <2> QED
    BY <2>5
<1> HIDE DEF S
<1>3. n \in S
  BY <1>1, <1>2, SetInduction
<1> QED
  BY <1>3 DEF S

LEMMA FlatteningSame ==
  ASSUME NEW q, NEW r, NEW n \in Nat, NEW m \in Nat, n <= m, Agree(q, r, n),
         NEW f, IsFlattening(f, q, n), NEW g, IsFlattening(g, r, m)
  PROVE  Agree(f, g, n)
<1> DEFINE S == {k \in Nat : k \in 1 .. n => f[k] = g[k]}
<1>1. /\ \A i \in 1 .. n : f[i] = IF i = 1 THEN q[i] ELSE f[i - 1] \o q[i]
      /\ \A i \in 1 .. m : g[i] = IF i = 1 THEN r[i] ELSE g[i - 1] \o r[i]
  BY DEF IsFlattening
<1>2. 0 \in S
  OBVIOUS
<1>3. ASSUME NEW k \in Nat, k \in S PROVE k + 1 \in S
  <2> SUFFICES ASSUME k + 1 \in 1 .. n PROVE f[k + 1] = g[k + 1]
    OBVIOUS
  <2>1. k + 1 \in 1 .. m /\ (k + 1) - 1 = k /\ q[k + 1] = r[k + 1] /\ (k = 0 \/ f[k] = g[k])
    BY <1>3 DEF Agree
  <2>2. f[k + 1] = IF k + 1 = 1 THEN q[k + 1] ELSE f[(k + 1) - 1] \o q[k + 1]
    BY <1>1
  <2>3. g[k + 1] = IF k + 1 = 1 THEN r[k + 1] ELSE g[(k + 1) - 1] \o r[k + 1]
    BY <1>1, <2>1
  <2> QED
    BY <2>1, <2>2, <2>3
<1> HIDE DEF S
<1>4. \A k \in Nat : k \in S
  BY <1>2, <1>3, SetInduction
<1> QED
  BY <1>4 DEF S, Agree

LEMMA FlattenGrows ==
  ASSUME NEW T, NEW q \in Seq(Seq(T)), NEW n \in Nat, n < Len(q)
  PROVE  FlattenSeq(SubSeq(q, 1, n + 1)) = FlattenSeq(SubSeq(q, 1, n)) \o q[n + 1]
<1> DEFINE a == SubSeq(q, 1, n)
           b == SubSeq(q, 1, n + 1)
<1>1. /\ Len(a) = n /\ Len(b) = n + 1
      /\ \A i \in 1 .. n : a[i] = q[i] /\ b[i] = q[i]
      /\ b[n + 1] = q[n + 1] /\ q[n + 1] \in Seq(T) /\ (n = 0 => a = <<>>)
  OBVIOUS
<1> HIDE DEF a, b
<1> DEFINE F == Flattening(a)
           G == Flattening(b)
<1>2. IsFlattening(F, a, n) /\ IsFlattening(G, b, n + 1)
  <2>1. Len(a) \in Nat /\ Len(b) \in Nat
    BY <1>1
  <2>2. (\E f : IsFlattening(f, a, Len(a))) /\ (\E f : IsFlattening(f, b, Len(b)))
    BY <2>1, FlatteningExists
  <2>3. IsFlattening(F, a, Len(a)) /\ IsFlattening(G, b, Len(b))
    BY <2>2 DEF Flattening
  <2> QED
    BY <1>1, <2>3
<1>3. FlattenSeq(b) = G[n + 1]
  <2>1. Len(b) # 0 /\ Len(b) = n + 1
    BY <1>1
  <2> QED
    BY <2>1, FlatteningIs DEF G
<1> HIDE DEF F, G
<1>4. G[n + 1] = IF n + 1 = 1 THEN b[n + 1] ELSE G[(n + 1) - 1] \o b[n + 1]
  <2>1. n + 1 \in 1 .. n + 1
    OBVIOUS
  <2> QED
    BY <1>2, <2>1 DEF IsFlattening
<1>5. CASE n = 0
  <2>1. FlattenSeq(a) = a /\ a = <<>>
    BY <1>1, <1>5, FlattenEmpty
  <2>2. FlattenSeq(b) = b[n + 1]
    BY <1>3, <1>4, <1>5
  <2>3. <<>> \o q[n + 1] = q[n + 1]
    BY <1>1
  <2>4. FlattenSeq(b) = FlattenSeq(a) \o q[n + 1]
    BY <1>1, <2>1, <2>2, <2>3, Zenon
  <2> QED
    BY <2>4 DEF a, b
<1>6. CASE n # 0
  <2>1. FlattenSeq(a) = F[n]
    <3>1. Len(a) # 0 /\ Len(a) = n
      BY <1>1, <1>6
    <3> QED
      BY <3>1, FlatteningIs DEF F
  <2>2. Agree(a, b, n)
    BY <1>1 DEF Agree
  <2>3. \A i \in 1 .. n : F[i] = G[i]
    <3>1. n + 1 \in Nat /\ n <= n + 1
      OBVIOUS
    <3>2. Agree(F, G, n)
      BY <1>2, <2>2, <3>1, FlatteningSame
    <3> QED
      BY <3>2 DEF Agree
  <2>4. n \in 1 .. n /\ (n + 1) - 1 = n /\ n + 1 # 1
    BY <1>6
  <2>5. G[n + 1] = G[n] \o b[n + 1]
    BY <1>4, <2>4
  <2>6. FlattenSeq(b) = FlattenSeq(a) \o q[n + 1]
    BY <1>1, <1>3, <2>1, <2>3, <2>4, <2>5, Zenon
  <2> QED
    BY <2>6 DEF a, b
<1> QED
  BY <1>5, <1>6

Act(m) == [type |-> m.type, payload |-> m.payload]
Acting(prev, m) == IF Accepted(m) THEN Append(prev, Act(m)) ELSE prev
IsActing(f, ms, n) == f = [i \in 0 .. n |-> IF i = 0 THEN <<>> ELSE Acting(f[i - 1], ms[i])]
Actions(ms) == CHOOSE f : IsActing(f, ms, Len(ms))

LEMMA RequestsIs ==
  ASSUME NEW ms
  PROVE  Requests(ms) = Actions(ms)[Len(ms)]
BY DEF Requests, Actions, IsActing, Acting, Act

LEMMA ActingStep ==
  ASSUME NEW f, NEW ms, NEW n \in Nat, IsActing(f, ms, n)
  PROVE  f[0] = <<>> /\ \A i \in 1 .. n : f[i] = Acting(f[i - 1], ms[i])
BY DEF IsActing

LEMMA ActingExists ==
  ASSUME NEW ms, NEW n \in Nat
  PROVE  \E f : IsActing(f, ms, n)
<1> DEFINE S == {k \in Nat : \E f : IsActing(f, ms, k)}
<1>1. 0 \in S
  <2>1. IsActing([i \in 0 .. 0 |-> <<>>], ms, 0)
    BY DEF IsActing
  <2> QED
    BY <2>1
<1>2. ASSUME NEW k \in Nat, k \in S PROVE k + 1 \in S
  <2>1. PICK f : IsActing(f, ms, k)
    BY <1>2
  <2> DEFINE g == [i \in 0 .. k + 1 |-> IF i <= k THEN f[i] ELSE Acting(f[k], ms[i])]
  <2>2. \A i \in 0 .. k : g[i] = f[i]
    OBVIOUS
  <2>3. g[k + 1] = Acting(f[k], ms[k + 1])
    OBVIOUS
  <2>4. f[0] = <<>> /\ \A i \in 1 .. k : f[i] = Acting(f[i - 1], ms[i])
    BY <2>1, ActingStep
  <2> HIDE DEF g
  <2>5. ASSUME NEW i \in 0 .. k + 1 PROVE g[i] = IF i = 0 THEN <<>> ELSE Acting(g[i - 1], ms[i])
    <3>1. CASE i = 0
      BY <2>2, <2>4, <3>1
    <3>2. CASE i \in 1 .. k
      <4>1. i - 1 \in 0 .. k /\ i \in 0 .. k /\ i # 0
        BY <3>2
      <4> QED
        BY <2>2, <2>4, <3>2, <4>1
    <3>3. CASE i = k + 1
      <4>1. i - 1 = k /\ k \in 0 .. k /\ i # 0
        BY <3>3
      <4> QED
        BY <2>2, <2>3, <3>3, <4>1
    <3> QED
      BY <3>1, <3>2, <3>3
  <2>6. IsActing(g, ms, k + 1)
    BY <2>5 DEF IsActing, g
  <2> QED
    BY <2>6
<1> HIDE DEF S
<1>3. n \in S
  BY <1>1, <1>2, SetInduction
<1> QED
  BY <1>3 DEF S

LEMMA ActingSame ==
  ASSUME NEW q, NEW r, NEW n \in Nat, NEW m \in Nat, n <= m, Agree(q, r, n),
         NEW f, IsActing(f, q, n), NEW g, IsActing(g, r, m)
  PROVE  f[n] = g[n]
<1> DEFINE S == {k \in Nat : k <= n => f[k] = g[k]}
<1>1. /\ f[0] = <<>> /\ \A i \in 1 .. n : f[i] = Acting(f[i - 1], q[i])
      /\ g[0] = <<>> /\ \A i \in 1 .. m : g[i] = Acting(g[i - 1], r[i])
  BY ActingStep
<1>2. 0 \in S
  BY <1>1
<1>3. ASSUME NEW k \in Nat, k \in S PROVE k + 1 \in S
  <2> SUFFICES ASSUME k + 1 <= n PROVE f[k + 1] = g[k + 1]
    OBVIOUS
  <2>1. k + 1 \in 1 .. n /\ k + 1 \in 1 .. m /\ (k + 1) - 1 = k
    OBVIOUS
  <2>2. q[k + 1] = r[k + 1] /\ f[k] = g[k]
    BY <1>3, <2>1 DEF Agree
  <2>3. f[k + 1] = Acting(f[k], q[k + 1]) /\ g[k + 1] = Acting(g[k], r[k + 1])
    BY <1>1, <2>1
  <2> QED
    BY <2>2, <2>3
<1> HIDE DEF S
<1>4. n \in S
  BY <1>2, <1>3, SetInduction
<1> QED
  BY <1>4 DEF S

LEMMA RequestsEmpty == Requests(<<>>) = <<>>
<1>1. \E f : IsActing(f, <<>>, Len(<<>>))
  BY ActingExists
<1>2. IsActing(Actions(<<>>), <<>>, 0)
  BY <1>1 DEF Actions
<1>3. Actions(<<>>)[0] = <<>>
  BY <1>2, ActingStep
<1> QED
  BY <1>3, RequestsIs

LEMMA RequestsGrow ==
  ASSUME NEW T, NEW ms \in Seq(T), NEW n \in Nat, n < Len(ms)
  PROVE  Requests(SubSeq(ms, 1, n + 1)) = Acting(Requests(SubSeq(ms, 1, n)), ms[n + 1])
<1> DEFINE a == SubSeq(ms, 1, n)
           b == SubSeq(ms, 1, n + 1)
           F == Actions(a)
           G == Actions(b)
<1>1. /\ Len(a) = n /\ Len(b) = n + 1 /\ b[n + 1] = ms[n + 1]
      /\ \A i \in 1 .. n : a[i] = b[i]
  OBVIOUS
<1> HIDE DEF a, b
<1>2. IsActing(F, a, n) /\ IsActing(G, b, n + 1)
  <2>1. Len(a) \in Nat /\ Len(b) \in Nat
    BY <1>1
  <2>2. (\E f : IsActing(f, a, Len(a))) /\ (\E f : IsActing(f, b, Len(b)))
    BY <2>1, ActingExists
  <2>3. IsActing(F, a, Len(a)) /\ IsActing(G, b, Len(b))
    BY <2>2 DEF Actions
  <2> QED
    BY <1>1, <2>3
<1>3. Requests(a) = F[n] /\ Requests(b) = G[n + 1]
  BY <1>1, RequestsIs
<1> HIDE DEF F, G
<1>4. G[n + 1] = Acting(G[n], b[n + 1])
  <2>1. n + 1 \in 1 .. n + 1 /\ (n + 1) - 1 = n /\ n + 1 \in Nat
    OBVIOUS
  <2>2. \A i \in 1 .. n + 1 : G[i] = Acting(G[i - 1], b[i])
    BY <1>2, <2>1, ActingStep
  <2> QED
    BY <2>1, <2>2
<1>5. F[n] = G[n]
  <2>1. n + 1 \in Nat /\ n <= n + 1 /\ Agree(a, b, n)
    BY <1>1 DEF Agree
  <2> QED
    BY <1>2, <2>1, ActingSame
<1>6. Requests(b) = Acting(Requests(a), ms[n + 1])
  BY <1>1, <1>3, <1>4, <1>5
<1> QED
  BY <1>6 DEF a, b
-----------------------------------------------------------------------------
(* Streams *)

\* q is what stands in w behind its first p elements.
Slice(q, w, p) == p + Len(q) <= Len(w) /\ \A k \in DOMAIN q : q[k] = w[p + k]

LEMMA SliceCut ==
  ASSUME NEW T, NEW q \in Seq(T), NEW w \in Seq(T), NEW p \in Nat, Slice(q, w, p), NEW n \in 0 .. Len(q)
  PROVE  /\ SubSeq(q, 1, n) \in Seq(T) /\ Len(SubSeq(q, 1, n)) = n /\ Slice(SubSeq(q, 1, n), w, p)
         /\ SubSeq(q, n + 1, Len(q)) \in Seq(T) /\ Len(SubSeq(q, n + 1, Len(q))) = Len(q) - n
         /\ Slice(SubSeq(q, n + 1, Len(q)), w, p + n)
<1>1. /\ SubSeq(q, 1, n) \in Seq(T) /\ Len(SubSeq(q, 1, n)) = n
      /\ \A k \in 1 .. n : SubSeq(q, 1, n)[k] = q[k]
  OBVIOUS
<1>2. /\ SubSeq(q, n + 1, Len(q)) \in Seq(T) /\ Len(SubSeq(q, n + 1, Len(q))) = Len(q) - n
      /\ \A k \in 1 .. Len(q) - n : SubSeq(q, n + 1, Len(q))[k] = q[n + k]
  <2>1. n + 1 \in Nat /\ n + 1 <= Len(q) + 1
    OBVIOUS
  <2> QED
    BY <2>1
<1> DEFINE r == SubSeq(q, n + 1, Len(q))
<1>3. Slice(SubSeq(q, 1, n), w, p)
  BY <1>1 DEF Slice
<1> HIDE DEF r
<1>4. Slice(r, w, p + n)
  <2>1. r \in Seq(T) /\ Len(r) = Len(q) - n /\ \A k \in 1 .. Len(q) - n : r[k] = q[n + k]
    BY <1>2 DEF r
  <2>2. p + n + Len(r) <= Len(w)
    BY <2>1 DEF Slice
  <2>3. ASSUME NEW k \in DOMAIN r PROVE r[k] = w[(p + n) + k]
    <3>1. n + k \in DOMAIN q /\ r[k] = q[n + k] /\ p + (n + k) = (p + n) + k
      BY <2>1, <2>3
    <3> QED
      BY <3>1 DEF Slice
  <2> QED
    BY <2>2, <2>3 DEF Slice
<1> QED
  BY <1>1, <1>2, <1>3, <1>4 DEF r

LEMMA SliceJoin ==
  ASSUME NEW T, NEW q \in Seq(T), NEW r \in Seq(T), NEW w \in Seq(T), NEW p \in Nat,
         Slice(q, w, p), Slice(r, w, p + Len(q))
  PROVE  Slice(q \o r, w, p)
<1>1. /\ q \o r \in Seq(T) /\ Len(q \o r) = Len(q) + Len(r)
      /\ \A k \in 1 .. Len(q) : (q \o r)[k] = q[k]
      /\ \A k \in Len(q) + 1 .. Len(q) + Len(r) : (q \o r)[k] = r[k - Len(q)]
  OBVIOUS
<1> DEFINE s == q \o r
<1> HIDE DEF s
<1>2. ASSUME NEW k \in 1 .. Len(q) + Len(r) PROVE s[k] = w[p + k]
  <2>1. CASE k <= Len(q)
    BY <1>1, <2>1 DEF s, Slice
  <2>2. CASE k > Len(q)
    <3>1. k - Len(q) \in DOMAIN r /\ s[k] = r[k - Len(q)] /\ (p + Len(q)) + (k - Len(q)) = p + k
      BY <1>1, <2>2 DEF s
    <3> QED
      BY <3>1 DEF Slice
  <2> QED
    BY <2>1, <2>2
<1>3. Slice(s, w, p)
  <2>1. s \in Seq(T) /\ Len(s) = Len(q) + Len(r)
    BY <1>1 DEF s
  <2>2. p + Len(s) <= Len(w)
    BY <2>1 DEF Slice
  <2> QED
    BY <1>2, <2>1, <2>2 DEF Slice
<1> QED
  BY <1>3 DEF s

LEMMA SliceOfSlice ==
  ASSUME NEW T, NEW q \in Seq(T), NEW r \in Seq(T), NEW w \in Seq(T), NEW p \in Nat, NEW o \in Nat,
         Slice(q, r, p), Slice(r, w, o), NEW s, s = o + p
  PROVE  Slice(q, w, s)
<1>1. s + Len(q) <= Len(w)
  BY DEF Slice
<1>2. ASSUME NEW k \in DOMAIN q PROVE q[k] = w[s + k]
  <2>1. p + k \in DOMAIN r /\ o + (p + k) = s + k
    BY <1>2 DEF Slice
  <2>2. q[k] = r[p + k] /\ r[p + k] = w[o + (p + k)]
    BY <2>1 DEF Slice
  <2> QED
    BY <2>1, <2>2
<1> QED
  BY <1>1, <1>2 DEF Slice

LEMMA Joined ==
  ASSUME NEW T, NEW q \in Seq(T), NEW r \in Seq(T)
  PROVE  /\ q \o r \in Seq(T) /\ Len(q \o r) = Len(q) + Len(r)
         /\ Slice(q, q \o r, 0) /\ Slice(r, q \o r, Len(q))
<1> DEFINE w == q \o r
<1>1. /\ w \in Seq(T) /\ Len(w) = Len(q) + Len(r)
      /\ \A k \in 1 .. Len(q) : w[k] = q[k]
      /\ \A k \in 1 .. Len(r) : w[Len(q) + k] = r[k]
  OBVIOUS
<1> HIDE DEF w
<1>2. Slice(q, w, 0) /\ Slice(r, w, Len(q))
  BY <1>1 DEF Slice
<1> QED
  BY <1>1, <1>2 DEF w

LEMMA Appended ==
  ASSUME NEW T, NEW q \in Seq(T), NEW x \in T
  PROVE  /\ Append(q, x) \in Seq(T) /\ Len(Append(q, x)) = Len(q) + 1
         /\ Append(q, x)[Len(q) + 1] = x
         /\ Slice(q, Append(q, x), 0)
<1> DEFINE w == Append(q, x)
<1>1. w \in Seq(T) /\ Len(w) = Len(q) + 1 /\ w[Len(q) + 1] = x /\ \A k \in 1 .. Len(q) : w[k] = q[k]
  OBVIOUS
<1> HIDE DEF w
<1>2. Slice(q, w, 0)
  BY <1>1 DEF Slice
<1> QED
  BY <1>1, <1>2 DEF w

LEMMA WireIs ==
  ASSUME NEW m \in Message
  PROVE  /\ Wire(m) \in Seq(Nat) /\ Len(Wire(m)) = Len(Sync) + HeaderLength + Len(m.payload)
         /\ Slice(Sync, Wire(m), 0)
         /\ Slice(<<m.rev, m.type, Len(m.payload)>>, Wire(m), Len(Sync))
         /\ Slice(m.payload, Wire(m), Len(Sync) + HeaderLength)
<1> DEFINE h == <<m.rev, m.type, Len(m.payload)>>
           p == m.payload
           a == Sync \o h
<1>1. /\ Sync \in Seq(Nat) /\ h \in Seq(Nat) /\ Len(h) = HeaderLength /\ p \in Seq(Nat)
      /\ Wire(m) = a \o p
  BY ScriptAssumption DEF Message, HeaderLength, Wire
<1> HIDE DEF h, p
<1>2. /\ a \in Seq(Nat) /\ Len(a) = Len(Sync) + HeaderLength
      /\ Slice(Sync, a, 0) /\ Slice(h, a, Len(Sync))
  BY <1>1, Joined
<1> HIDE DEF a
<1>3. /\ Wire(m) \in Seq(Nat) /\ Len(Wire(m)) = Len(Sync) + HeaderLength + Len(p)
      /\ Slice(a, Wire(m), 0) /\ Slice(p, Wire(m), Len(Sync) + HeaderLength)
  <2>1. /\ a \o p \in Seq(Nat) /\ Len(a \o p) = Len(a) + Len(p)
        /\ Slice(a, a \o p, 0) /\ Slice(p, a \o p, Len(a))
    BY <1>1, <1>2, Joined
  <2> QED
    BY <1>1, <1>2, <2>1, Zenon
<1>4. Slice(Sync, Wire(m), 0) /\ Slice(h, Wire(m), Len(Sync))
  <2>1. Len(Sync) \in Nat /\ 0 = 0 + 0 /\ Len(Sync) = 0 + Len(Sync)
    BY <1>1
  <2> QED
    BY <1>1, <1>2, <1>3, <2>1, SliceOfSlice
<1> QED
  BY <1>3, <1>4 DEF h, p

\* The messages of ms before the (n+1)st, and where that one begins in the stream.
First(ms, n) == SubSeq(ms, 1, n)
Begin(ms, n) == Len(Stream(First(ms, n)))

LEMMA FirstIs ==
  ASSUME NEW T, NEW ms \in Seq(T), NEW n \in 0 .. Len(ms)
  PROVE  /\ First(ms, n) \in Seq(T) /\ Len(First(ms, n)) = n
         /\ \A k \in 1 .. n : First(ms, n)[k] = ms[k]
         /\ First(ms, 0) = <<>> /\ First(ms, Len(ms)) = ms
BY DEF First

LEMMA StreamEmpty == Stream(<<>>) = <<>>
<1> DEFINE q == [n \in DOMAIN <<>> |-> Wire(<<>>[n])]
<1>1. q = <<>> /\ Len(q) = 0
  OBVIOUS
<1> HIDE DEF q
<1>2. FlattenSeq(q) = <<>>
  BY <1>1, FlattenEmpty
<1> QED
  BY <1>2 DEF Stream, q

LEMMA StreamGrows ==
  ASSUME NEW ms \in Seq(Message), NEW n \in Nat, n < Len(ms)
  PROVE  Stream(First(ms, n + 1)) = Stream(First(ms, n)) \o Wire(ms[n + 1])
<1> DEFINE q == [i \in DOMAIN ms |-> Wire(ms[i])]
<1>1. q \in Seq(Seq(Nat)) /\ Len(q) = Len(ms) /\ \A i \in 1 .. Len(ms) : q[i] = Wire(ms[i])
  <2>1. \A i \in 1 .. Len(ms) : Wire(ms[i]) \in Seq(Nat)
    <3>1. \A i \in 1 .. Len(ms) : ms[i] \in Message
      OBVIOUS
    <3> QED
      BY <3>1, WireIs
  <2>2. q \in [1 .. Len(ms) -> Seq(Nat)]
    BY <2>1
  <2> QED
    BY <2>2, SeqDef
<1> HIDE DEF q
<1>2. ASSUME NEW k \in 0 .. Len(ms)
      PROVE  Stream(First(ms, k)) = FlattenSeq(SubSeq(q, 1, k))
  <2>1. /\ DOMAIN First(ms, k) = 1 .. k /\ \A i \in 1 .. k : First(ms, k)[i] = ms[i]
        /\ SubSeq(q, 1, k) = [i \in 1 .. k |-> q[i]]
    BY <1>1, FirstIs
  <2>2. [i \in DOMAIN First(ms, k) |-> Wire(First(ms, k)[i])] = SubSeq(q, 1, k)
    BY <1>1, <2>1
  <2> QED
    BY <2>2 DEF Stream
<1>3. FlattenSeq(SubSeq(q, 1, n + 1)) = FlattenSeq(SubSeq(q, 1, n)) \o q[n + 1]
  BY <1>1, FlattenGrows
<1>4. n \in 0 .. Len(ms) /\ n + 1 \in 0 .. Len(ms) /\ n + 1 \in 1 .. Len(ms)
  OBVIOUS
<1> QED
  BY <1>1, <1>2, <1>3, <1>4

LEMMA StreamType ==
  ASSUME NEW ms \in Seq(Message), NEW n \in 0 .. Len(ms)
  PROVE  Stream(First(ms, n)) \in Seq(Nat) /\ Begin(ms, n) \in Nat
<1> DEFINE S == {k \in Nat : k <= Len(ms) => Stream(First(ms, k)) \in Seq(Nat)}
<1>1. 0 \in S
  BY FirstIs, StreamEmpty
<1>2. ASSUME NEW k \in Nat, k \in S PROVE k + 1 \in S
  <2> SUFFICES ASSUME k + 1 <= Len(ms) PROVE Stream(First(ms, k + 1)) \in Seq(Nat)
    OBVIOUS
  <2>1. Stream(First(ms, k + 1)) = Stream(First(ms, k)) \o Wire(ms[k + 1])
    BY StreamGrows
  <2>2. Stream(First(ms, k)) \in Seq(Nat) /\ ms[k + 1] \in Message
    BY <1>2
  <2>3. Wire(ms[k + 1]) \in Seq(Nat)
    BY <2>2, WireIs
  <2>4. Stream(First(ms, k)) \o Wire(ms[k + 1]) \in Seq(Nat)
    BY <2>2, <2>3, Joined
  <2> QED
    BY <2>1, <2>4
<1> HIDE DEF S
<1>3. n \in S
  BY <1>1, <1>2, SetInduction
<1>4. Stream(First(ms, n)) \in Seq(Nat)
  BY <1>3 DEF S
<1> QED
  BY <1>4 DEF Begin

\* A message follows the one before it.
LEMMA StreamStep ==
  ASSUME NEW ms \in Seq(Message), NEW n \in Nat, n < Len(ms)
  PROVE  /\ ms[n + 1] \in Message
         /\ Begin(ms, n) \in Nat /\ Begin(ms, n + 1) = Begin(ms, n) + Len(Wire(ms[n + 1]))
         /\ Slice(Stream(First(ms, n)), Stream(First(ms, n + 1)), 0)
         /\ Slice(Wire(ms[n + 1]), Stream(First(ms, n + 1)), Begin(ms, n))
<1>1. ms[n + 1] \in Message
  OBVIOUS
<1>2. Wire(ms[n + 1]) \in Seq(Nat)
  BY <1>1, WireIs
<1>3. Stream(First(ms, n)) \in Seq(Nat)
  BY StreamType
<1>4. Stream(First(ms, n + 1)) = Stream(First(ms, n)) \o Wire(ms[n + 1])
  BY StreamGrows
<1> DEFINE a == Stream(First(ms, n))
           b == Wire(ms[n + 1])
<1>5. /\ Len(a \o b) = Len(a) + Len(b)
      /\ Slice(a, a \o b, 0) /\ Slice(b, a \o b, Len(a))
  BY <1>2, <1>3, Joined
<1>6. Begin(ms, n) = Len(a) /\ Begin(ms, n + 1) = Len(a \o b) /\ Len(a) \in Nat
  BY <1>3, <1>4 DEF Begin
<1> HIDE DEF a, b
<1> QED
  BY <1>1, <1>4, <1>5, <1>6 DEF a, b

LEMMA StreamParts ==
  ASSUME NEW ms \in Seq(Message), NEW n \in 0 .. Len(ms), NEW m \in n .. Len(ms)
  PROVE  /\ Slice(Stream(First(ms, n)), Stream(First(ms, m)), 0)
         /\ Begin(ms, n) <= Begin(ms, m)
<1> DEFINE S == {k \in Nat : k \in n .. Len(ms) => Slice(Stream(First(ms, n)), Stream(First(ms, k)), 0)}
<1>1. \A k \in 0 .. Len(ms) : Stream(First(ms, k)) \in Seq(Nat)
  BY StreamType
<1>2. Slice(Stream(First(ms, n)), Stream(First(ms, n)), 0)
  BY <1>1 DEF Slice
<1>3. 0 \in S
  BY <1>2
<1>4. ASSUME NEW k \in Nat, k \in S PROVE k + 1 \in S
  <2> SUFFICES ASSUME k + 1 \in n .. Len(ms), k + 1 # n
               PROVE  Slice(Stream(First(ms, n)), Stream(First(ms, k + 1)), 0)
    BY <1>2
  <2>1. k \in n .. Len(ms) /\ k \in 0 .. Len(ms) /\ k + 1 \in 0 .. Len(ms) /\ k < Len(ms)
    OBVIOUS
  <2>2. Slice(Stream(First(ms, n)), Stream(First(ms, k)), 0)
    BY <1>4, <2>1
  <2>3. Slice(Stream(First(ms, k)), Stream(First(ms, k + 1)), 0)
    BY <2>1, StreamStep
  <2>4. 0 = 0 + 0
    OBVIOUS
  <2> QED
    BY <1>1, <2>1, <2>2, <2>3, <2>4, SliceOfSlice
<1> HIDE DEF S
<1>5. m \in S
  BY <1>3, <1>4, SetInduction
<1>6. Slice(Stream(First(ms, n)), Stream(First(ms, m)), 0)
  BY <1>5 DEF S
<1>7. n \in 0 .. Len(ms) /\ m \in 0 .. Len(ms)
  OBVIOUS
<1> QED
  BY <1>1, <1>6, <1>7 DEF Slice, Begin

\* Where each message stands in the stream of all.
LEMMA MessageAt ==
  ASSUME NEW ms \in Seq(Message), NEW n \in Nat, n < Len(ms)
  PROVE  /\ ms[n + 1] \in Message
         /\ Stream(ms) \in Seq(Nat)
         /\ Begin(ms, n) \in Nat /\ Begin(ms, n + 1) = Begin(ms, n) + Len(Wire(ms[n + 1]))
         /\ Begin(ms, n + 1) <= Len(Stream(ms))
         /\ Slice(Wire(ms[n + 1]), Stream(ms), Begin(ms, n))
<1>1. /\ ms[n + 1] \in Message
      /\ Begin(ms, n) \in Nat /\ Begin(ms, n + 1) = Begin(ms, n) + Len(Wire(ms[n + 1]))
      /\ Slice(Wire(ms[n + 1]), Stream(First(ms, n + 1)), Begin(ms, n))
  BY StreamStep
<1>2. Wire(ms[n + 1]) \in Seq(Nat)
  BY <1>1, WireIs
<1>3. n + 1 \in 0 .. Len(ms) /\ Len(ms) \in n + 1 .. Len(ms) /\ Len(ms) \in 0 .. Len(ms)
  OBVIOUS
<1>4. Stream(First(ms, n + 1)) \in Seq(Nat) /\ Stream(ms) \in Seq(Nat)
  BY <1>3, StreamType, FirstIs
<1>5. Slice(Stream(First(ms, n + 1)), Stream(ms), 0) /\ Begin(ms, n + 1) <= Len(Stream(ms))
  BY <1>3, StreamParts, FirstIs DEF Begin
<1>6. Begin(ms, n) = 0 + Begin(ms, n)
  BY <1>1
<1>7. Slice(Wire(ms[n + 1]), Stream(ms), Begin(ms, n))
  BY <1>1, <1>2, <1>4, <1>5, <1>6, SliceOfSlice
<1> QED
  BY <1>1, <1>4, <1>5, <1>7

LEMMA StreamEnds ==
  ASSUME NEW ms \in Seq(Message)
  PROVE  Stream(ms) \in Seq(Nat) /\ Begin(ms, 0) = 0 /\ Begin(ms, Len(ms)) = Len(Stream(ms))
<1>1. 0 \in 0 .. Len(ms) /\ Len(ms) \in 0 .. Len(ms)
  OBVIOUS
<1>2. Stream(First(ms, Len(ms))) \in Seq(Nat)
  BY <1>1, StreamType
<1> QED
  BY <1>1, <1>2, FirstIs, StreamEmpty DEF Begin
-----------------------------------------------------------------------------
(* Requests *)

Action == [type: Nat \ {0}, payload: Seq(Nat)]

LEMMA RequestsNext ==
  ASSUME NEW ms \in Seq(Message), NEW n \in Nat, n < Len(ms)
  PROVE  Requests(First(ms, n + 1)) = Acting(Requests(First(ms, n)), ms[n + 1])
BY RequestsGrow DEF First

LEMMA RequestsType ==
  ASSUME NEW ms \in Seq(Message), NEW n \in 0 .. Len(ms)
  PROVE  Requests(First(ms, n)) \in Seq(Action)
<1> DEFINE S == {k \in Nat : k <= Len(ms) => Requests(First(ms, k)) \in Seq(Action)}
<1>1. 0 \in S
  BY FirstIs, RequestsEmpty
<1>2. ASSUME NEW k \in Nat, k \in S PROVE k + 1 \in S
  <2> SUFFICES ASSUME k + 1 <= Len(ms) PROVE Requests(First(ms, k + 1)) \in Seq(Action)
    OBVIOUS
  <2>1. Requests(First(ms, k)) \in Seq(Action) /\ ms[k + 1] \in Message
    BY <1>2
  <2>2. Act(ms[k + 1]) \in Action
    BY <2>1 DEF Act, Action, Message
  <2>3. Requests(First(ms, k + 1)) = Acting(Requests(First(ms, k)), ms[k + 1])
    BY RequestsNext
  <2>4. Append(Requests(First(ms, k)), Act(ms[k + 1])) \in Seq(Action)
    BY <2>1, <2>2, Appended
  <2> QED
    BY <2>1, <2>3, <2>4 DEF Acting
<1> HIDE DEF S
<1>3. n \in S
  BY <1>1, <1>2, SetInduction
<1> QED
  BY <1>3 DEF S

\* What is to be done for the first messages is what is to be done first.
LEMMA RequestsParts ==
  ASSUME NEW ms \in Seq(Message), NEW n \in 0 .. Len(ms)
  PROVE  Slice(Requests(First(ms, n)), Requests(ms), 0)
<1> DEFINE S == {k \in Nat : k \in n .. Len(ms) => Slice(Requests(First(ms, n)), Requests(First(ms, k)), 0)}
<1>1. \A k \in 0 .. Len(ms) : Requests(First(ms, k)) \in Seq(Action)
  BY RequestsType
<1>2. Slice(Requests(First(ms, n)), Requests(First(ms, n)), 0)
  BY <1>1 DEF Slice
<1>3. 0 \in S
  BY <1>2
<1>4. ASSUME NEW k \in Nat, k \in S PROVE k + 1 \in S
  <2> SUFFICES ASSUME k + 1 \in n .. Len(ms), k + 1 # n
               PROVE  Slice(Requests(First(ms, n)), Requests(First(ms, k + 1)), 0)
    BY <1>2
  <2>1. k \in n .. Len(ms) /\ k \in 0 .. Len(ms) /\ k + 1 \in 0 .. Len(ms) /\ k < Len(ms)
    OBVIOUS
  <2>2. Slice(Requests(First(ms, n)), Requests(First(ms, k)), 0)
    BY <1>4, <2>1
  <2>3. Requests(First(ms, k + 1)) = Acting(Requests(First(ms, k)), ms[k + 1])
    BY <2>1, RequestsNext
  <2>4. Slice(Requests(First(ms, k)), Requests(First(ms, k + 1)), 0)
    <3> DEFINE m == ms[k + 1]
    <3>0. m \in Message
      BY <2>1
    <3> HIDE DEF m
    <3>1. Requests(First(ms, k)) \in Seq(Action) /\ Act(m) \in Action
      BY <1>1, <2>1, <3>0 DEF Act, Action, Message
    <3>2. Slice(Requests(First(ms, k)), Append(Requests(First(ms, k)), Act(m)), 0)
      BY <3>1, Appended
    <3>3. Slice(Requests(First(ms, k)), Requests(First(ms, k)), 0)
      BY <3>1 DEF Slice
    <3> QED
      BY <2>3, <3>2, <3>3 DEF Acting, m
  <2>5. 0 = 0 + 0
    OBVIOUS
  <2> QED
    BY <1>1, <2>1, <2>2, <2>4, <2>5, SliceOfSlice
<1> HIDE DEF S
<1>5. Len(ms) \in S
  BY <1>3, <1>4, SetInduction
<1> QED
  BY <1>5, FirstIs DEF S
-----------------------------------------------------------------------------
(* The invariant *)

\* The bytes that c wrote, that were read of them, and that the parser has looked at.
Sent(c)   == Len(Stream(script[c])) - Len(unsent[c])
Looked(c) == Consumed(c) - Len(data)

\* Where the main thread can be.
Control ==
  /\ main \in {"parse", "reply"} => clientSocket # None
  /\ main = "parse" => data # <<>>
  /\ main \in {"loop", "exited"} => data = <<>>
  /\ main = "exited" => clientSocket = None /\ backlog = <<>>
  /\ listening <=> main # "exited"
  /\ brokenPipe /\ main # "exited" => clientSocket # None /\ conn[clientSocket] = "gone"

\* A client waits once, or is served, or does neither.
Queue ==
  /\ clientSocket # None => conn[clientSocket] # "new" /\ clientSocket \notin Range(backlog)
  /\ \A i \in DOMAIN backlog : conn[backlog[i]] # "new"
  /\ \A i, k \in DOMAIN backlog : backlog[i] = backlog[k] => i = k

\* Nothing happened yet to a client that is not accepted.
Untouched == \A c \in Client :
  conn[c] = "new" \/ c \in Range(backlog) => handled[c] = <<>> /\ replies[c] = <<>> /\ Consumed(c) = 0

\* No byte is lost, doubled or swapped on its way to the parser.
Flowing == \A c \in Client :
  /\ Consumed(c) \in Nat /\ Sent(c) \in Nat
  /\ Slice(unsent[c], Stream(script[c]), Sent(c))
  /\ Slice(toServer[c], Stream(script[c]), Consumed(c))
Held == clientSocket # None =>
  Looked(clientSocket) \in Nat /\ Slice(data, Stream(script[clientSocket]), Looked(clientSocket))

\* The parser stands in message n + 1 of ms, at the byte behind the first p of the stream: in its
\* sync, in what a refused header left behind, in its header, or in its payload.
Searching(ms, n, p) ==
  state = "WaitingSync" /\ p = Begin(ms, n) + syncAt /\ (syncAt > 0 => n < Len(ms))
Skipping(ms, n, p) ==
  /\ state = "WaitingSync" /\ syncAt = 0 /\ n < Len(ms) /\ ~Accepted(ms[n + 1])
  /\ Begin(ms, n) + Len(Sync) + HeaderLength <= p /\ p <= Begin(ms, n + 1)
InHeader(ms, n, p) ==
  /\ state = "ReadingHeader" /\ syncAt = 0 /\ n < Len(ms)
  /\ p = Begin(ms, n) + Len(Sync) + Len(hbuf)
  /\ Slice(hbuf, Wire(ms[n + 1]), Len(Sync))
InPayload(ms, n, p) ==
  /\ state = "ReadingPayload" /\ syncAt = 0 /\ n < Len(ms) /\ Accepted(ms[n + 1])
  /\ message.header = [rev |-> ms[n + 1].rev, type |-> ms[n + 1].type, pLen |-> Len(ms[n + 1].payload)]
  /\ Len(message.payload) < Len(ms[n + 1].payload)
  /\ Slice(message.payload, ms[n + 1].payload, 0)
  /\ p = Begin(ms, n) + Len(Sync) + HeaderLength + Len(message.payload)
Replying(ms, n, p) == p = Begin(ms, n) /\ syncAt = 0
Within(ms, n, p) ==
  IF main = "reply" THEN Replying(ms, n, p)
  ELSE Searching(ms, n, p) \/ Skipping(ms, n, p) \/ InHeader(ms, n, p) \/ InPayload(ms, n, p)

\* The server acted on the messages before it, as far as it accepts them.
Parsing == clientSocket # None =>
  \E n \in 0 .. Len(script[clientSocket]) :
    /\ handled[clientSocket] = Requests(First(script[clientSocket], n))
    /\ Within(script[clientSocket], n, Looked(clientSocket))

Delivery == TypeOK /\ Control /\ Queue /\ Untouched /\ Flowing /\ Held /\ Parsing

LEMMA HeaderLengthIs == HeaderLength = 3
BY DEF HeaderLength

LEMMA Types ==
  ASSUME TypeOK
  PROVE  /\ data \in Seq(Nat) /\ Len(data) \in Nat /\ hbuf \in Seq(Nat) /\ Len(hbuf) \in Nat /\ Len(hbuf) < HeaderLength
         /\ message.payload \in Seq(Nat) /\ message.header.pLen \in Nat
         /\ Len(message.payload) \in 0 .. message.header.pLen
         /\ message.header \in [rev: Nat, type: Nat, pLen: 0 .. MaxPayload]
         /\ message = [header |-> message.header, payload |-> message.payload]
         /\ MaxPayload \in Nat /\ ReadLimit \in Nat \ {0} /\ SendSpace \in Nat \ {0}
         /\ Sync \in Seq(Nat) /\ Len(Sync) \in Nat \ {0}
         /\ \A c \in Client :
              /\ unsent[c] \in Seq(Nat) /\ Len(unsent[c]) \in Nat
              /\ toServer[c] \in Seq(Nat) /\ Len(toServer[c]) \in Nat
              /\ script[c] \in Seq(Message)
<1>1. /\ Sync \in Seq(Nat) /\ Sync # <<>> /\ MaxPayload \in Nat /\ ReadLimit \in Nat \ {0} /\ SendSpace \in Nat \ {0}
      /\ \A c \in Client : script[c] \in Scripts
  BY ScriptAssumption DEF TypeOK
<1>2. \A c \in Client : script[c] \in Seq(Message)
  BY <1>1, ScriptAssumption
<1>3. /\ data \in Seq(Nat) /\ hbuf \in Seq(Nat) /\ Len(hbuf) < HeaderLength
      /\ \A c \in Client : unsent[c] \in Seq(Nat) /\ toServer[c] \in Seq(Nat)
  BY DEF TypeOK
<1>4. /\ message \in [header: [rev: Nat, type: Nat, pLen: 0 .. MaxPayload], payload: Seq(Nat)]
      /\ Len(message.payload) <= message.header.pLen
  BY DEF TypeOK
<1>5. /\ message.payload \in Seq(Nat) /\ message = [header |-> message.header, payload |-> message.payload]
      /\ message.header \in [rev: Nat, type: Nat, pLen: 0 .. MaxPayload]
  BY <1>4
<1>6. message.header.pLen \in 0 .. MaxPayload
  BY <1>5
<1>7. Len(Sync) \in Nat \ {0}
  BY <1>1
<1>8. \A c \in Client : Len(unsent[c]) \in Nat /\ Len(toServer[c]) \in Nat
  BY <1>3
<1>9. Len(message.payload) \in 0 .. message.header.pLen /\ message.header.pLen \in Nat
  BY <1>1, <1>4, <1>5, <1>6
<1>10. Len(data) \in Nat /\ Len(hbuf) \in Nat
  BY <1>3
<1> QED
  BY <1>1, <1>2, <1>3, <1>5, <1>7, <1>8, <1>9, <1>10
-----------------------------------------------------------------------------
(* What the steps that cut sequences do *)

LEMMA Cut ==
  ASSUME NEW T, NEW q \in Seq(T), NEW n \in 0 .. Len(q)
  PROVE  /\ SubSeq(q, 1, n) \in Seq(T) /\ Len(SubSeq(q, 1, n)) = n
         /\ SubSeq(q, n + 1, Len(q)) \in Seq(T) /\ Len(SubSeq(q, n + 1, Len(q))) = Len(q) - n
<1>1. Slice(q, q, 0)
  BY DEF Slice
<1> QED
  BY <1>1, SliceCut

LEMMA ReadMeans ==
  ASSUME TypeOK, Read
  PROVE  /\ clientSocket \in Client /\ main = "loop"
         /\ \E n \in 1 .. Len(toServer[clientSocket]) :
              /\ n <= ReadLimit
              /\ data' = SubSeq(toServer[clientSocket], 1, n)
              /\ toServer' = [toServer EXCEPT ![clientSocket] =
                                SubSeq(toServer[clientSocket], n + 1, Len(toServer[clientSocket]))]
<1> DEFINE q == toServer[clientSocket]
<1>1. clientSocket \in Client /\ main = "loop"
  BY DEF Read, Looping, TypeOK
<1>2. q \in Seq(Nat) /\ Len(q) \in Nat /\ ReadLimit \in Nat
  BY <1>1, Types
<1>3. Min({Len(q), ReadLimit}) = IF Len(q) <= ReadLimit THEN Len(q) ELSE ReadLimit
  BY <1>2, Smaller
<1> DEFINE n == Min({Len(q), ReadLimit})
<1>4. /\ n > 0 /\ data' = SubSeq(q, 1, n)
      /\ toServer' = [toServer EXCEPT ![clientSocket] = SubSeq(q, n + 1, Len(q))]
  BY DEF Read
<1>5. n \in 1 .. Len(q) /\ n <= ReadLimit
  BY <1>2, <1>3, <1>4
<1> QED
  BY <1>1, <1>4, <1>5

LEMMA WriteMeans ==
  ASSUME TypeOK, NEW c \in Client, Write(c)
  PROVE  \E n \in 1 .. Len(unsent[c]) :
           /\ toServer' = [toServer EXCEPT ![c] = @ \o SubSeq(unsent[c], 1, n)]
           /\ unsent' = [unsent EXCEPT ![c] = SubSeq(unsent[c], n + 1, Len(unsent[c]))]
<1>1. unsent[c] \in Seq(Nat) /\ Len(unsent[c]) \in Nat /\ Len(toServer[c]) \in Nat
      /\ SendSpace - Len(toServer[c]) \in Int
  BY Types
<1>2. PICK n \in 1 .. Min({Len(unsent[c]), SendSpace - Len(toServer[c])}) :
        /\ toServer' = [toServer EXCEPT ![c] = @ \o SubSeq(unsent[c], 1, n)]
        /\ unsent' = [unsent EXCEPT ![c] = SubSeq(unsent[c], n + 1, Len(unsent[c]))]
  BY DEF Write
<1> DEFINE a == Len(unsent[c])
           b == SendSpace - Len(toServer[c])
<1>3. Min({a, b}) <= a /\ Min({a, b}) \in Int
  <2>1. a \in Int /\ b \in Int
    BY <1>1
  <2> HIDE DEF a, b
  <2>2. PICK x \in {a, b} : \A y \in {a, b} : x <= y
    BY <2>1
  <2>3. Min({a, b}) \in {a, b} /\ \A y \in {a, b} : Min({a, b}) <= y
    BY <2>2 DEF Min
  <2> QED
    BY <2>1, <2>3
<1>4. n \in 1 .. Len(unsent[c])
  BY <1>1, <1>2, <1>3
<1> QED
  BY <1>2, <1>4

LEMMA HeaderMeans ==
  ASSUME TypeOK, Control, ReadHeader
  PROVE  \E n \in 1 .. Len(data) :
           LET read == hbuf \o SubSeq(data, 1, n)
               rest == SubSeq(data, n + 1, Len(data))
           IN /\ Len(hbuf) + n <= HeaderLength /\ Len(read) = Len(hbuf) + n /\ read \in Seq(Nat)
              /\ \/ /\ Len(read) < HeaderLength
                    /\ hbuf' = read /\ Continue(rest)
                    /\ UNCHANGED <<state, message, handled, initialized>>
                 \/ /\ Len(read) = HeaderLength /\ ~ValidHeader(Parsed(read))
                    /\ hbuf' = <<>> /\ state' = "WaitingSync" /\ Continue(rest)
                    /\ UNCHANGED <<message, handled, initialized>>
                 \/ /\ Len(read) = HeaderLength /\ ValidHeader(Parsed(read))
                    /\ hbuf' = <<>>
                    /\ HeaderRead([header |-> Parsed(read), payload |-> <<>>], rest)
<1>1. data \in Seq(Nat) /\ data # <<>> /\ hbuf \in Seq(Nat) /\ Len(hbuf) < HeaderLength
  <2>1. main = "parse"
    BY DEF ReadHeader
  <2>2. data \in Seq(Nat) /\ hbuf \in Seq(Nat) /\ Len(hbuf) \in Nat /\ Len(hbuf) < HeaderLength
    BY Types
  <2>3. data # <<>>
    BY <2>1 DEF Control
  <2> QED
    BY <2>2, <2>3
<1> DEFINE n == Min({HeaderLength - Len(hbuf), Len(data)})
<1>2. HeaderLength - Len(hbuf) \in Nat /\ Len(data) \in Nat /\ HeaderLength - Len(hbuf) > 0 /\ Len(data) > 0
  BY <1>1, HeaderLengthIs
<1>3. n = IF HeaderLength - Len(hbuf) <= Len(data) THEN HeaderLength - Len(hbuf) ELSE Len(data)
  BY <1>2, Smaller
<1> HIDE DEF n
<1>4. n \in 1 .. Len(data) /\ Len(hbuf) + n <= HeaderLength
  BY <1>1, <1>2, <1>3, HeaderLengthIs
<1> DEFINE read == hbuf \o SubSeq(data, 1, n)
<1>5. read \in Seq(Nat) /\ Len(read) = Len(hbuf) + n
  <2>1. SubSeq(data, 1, n) \in Seq(Nat) /\ Len(SubSeq(data, 1, n)) = n
    BY <1>1, <1>4, Cut
  <2> QED
    BY <1>1, <2>1, Joined
<1> QED
  BY <1>4, <1>5 DEF ReadHeader, n

LEMMA PayloadMeans ==
  ASSUME TypeOK, Control, ReadPayload
  PROVE  \E n \in 0 .. Len(data) :
           LET m    == [message EXCEPT !.payload = @ \o SubSeq(data, 1, n)]
               rest == SubSeq(data, n + 1, Len(data))
           IN /\ Len(message.payload) + n <= message.header.pLen
              /\ n = message.header.pLen - Len(message.payload) \/ n = Len(data)
              /\ m.payload = message.payload \o SubSeq(data, 1, n) /\ m.payload \in Seq(Nat)
              /\ Len(m.payload) = Len(message.payload) + n /\ m.header = message.header
              /\ IF Len(m.payload) = m.header.pLen THEN Dispatch(m, rest) ELSE Await(m, rest)
<1> DEFINE k == message.header.pLen - Len(message.payload)
           n == Min({k, Len(data)})
<1>1. /\ data \in Seq(Nat) /\ message.payload \in Seq(Nat) /\ Len(data) \in Nat
      /\ message.header.pLen \in Nat /\ Len(message.payload) \in Nat /\ Len(message.payload) <= message.header.pLen
      /\ message = [header |-> message.header, payload |-> message.payload]
  BY Types
<1>2. k \in Nat
  BY <1>1
<1>3. n = IF k <= Len(data) THEN k ELSE Len(data)
  BY <1>1, <1>2, Smaller
<1> HIDE DEF n
<1>4. /\ n \in 0 .. Len(data) /\ Len(message.payload) + n <= message.header.pLen
      /\ n = message.header.pLen - Len(message.payload) \/ n = Len(data)
  BY <1>1, <1>2, <1>3
<1> HIDE DEF k
<1> DEFINE p == message.payload \o SubSeq(data, 1, n)
           m == [message EXCEPT !.payload = @ \o SubSeq(data, 1, n)]
<1>5. p \in Seq(Nat) /\ Len(p) = Len(message.payload) + n
  <2>1. data \in Seq(Nat) /\ message.payload \in Seq(Nat) /\ n \in 0 .. Len(data)
    BY <1>1, <1>4
  <2> HIDE DEF p, m
  <2>2. SubSeq(data, 1, n) \in Seq(Nat) /\ Len(SubSeq(data, 1, n)) = n
    BY <2>1, Cut
  <2>3. /\ message.payload \o SubSeq(data, 1, n) \in Seq(Nat)
        /\ Len(message.payload \o SubSeq(data, 1, n)) = Len(message.payload) + Len(SubSeq(data, 1, n))
    BY <2>1, <2>2, Joined
  <2> QED
    BY <2>2, <2>3 DEF p
<1>6. m.payload = p /\ m.header = message.header
  BY <1>1
<1>7. LET rest == SubSeq(data, n + 1, Len(data)) IN
      IF Len(m.payload) = m.header.pLen THEN Dispatch(m, rest) ELSE Await(m, rest)
  BY DEF ReadPayload, n, k
<1> QED
  BY <1>4, <1>5, <1>6, <1>7

-----------------------------------------------------------------------------
(* What stands where in a stream *)

LEMMA SliceWithin ==
  ASSUME NEW T, NEW q \in Seq(T), NEW r \in Seq(T), NEW w \in Seq(T), NEW p \in Nat, NEW o \in Nat,
         Slice(r, w, o), NEW s, s = o + p, Slice(q, w, s), p + Len(q) <= Len(r)
  PROVE  Slice(q, r, p)
<1>1. ASSUME NEW k \in DOMAIN q PROVE q[k] = r[p + k]
  <2>1. p + k \in DOMAIN r /\ o + (p + k) = s + k
    BY <1>1
  <2>2. q[k] = w[s + k] /\ r[p + k] = w[o + (p + k)]
    BY <2>1 DEF Slice
  <2> QED
    BY <2>1, <2>2
<1> QED
  BY <1>1 DEF Slice

LEMMA SliceWhole ==
  ASSUME NEW T, NEW q \in Seq(T), NEW r \in Seq(T), Slice(q, r, 0), Len(q) = Len(r)
  PROVE  q = r
<1>1. \A k \in 1 .. Len(q) : q[k] = r[k]
  BY DEF Slice
<1> QED
  BY <1>1

LEMMA SyncByte ==
  ASSUME NEW ms \in Seq(Message), NEW n \in Nat, n < Len(ms),
         NEW i \in Nat, i < Len(Sync)
  PROVE  Stream(ms)[Begin(ms, n) + i + 1] = Sync[i + 1]
<1>1. ms[n + 1] \in Message /\ Begin(ms, n) \in Nat /\ Slice(Wire(ms[n + 1]), Stream(ms), Begin(ms, n))
      /\ Stream(ms) \in Seq(Nat) /\ Sync \in Seq(Nat) /\ 0 \in Nat
  BY MessageAt, ScriptAssumption
<1>2. Wire(ms[n + 1]) \in Seq(Nat) /\ Slice(Sync, Wire(ms[n + 1]), 0)
  BY <1>1, WireIs
<1>3. Begin(ms, n) = Begin(ms, n) + 0
  BY <1>1
<1>4. Slice(Sync, Stream(ms), Begin(ms, n))
  BY <1>1, <1>2, <1>3, SliceOfSlice
<1>5. i + 1 \in DOMAIN Sync /\ Begin(ms, n) + i + 1 = Begin(ms, n) + (i + 1)
  BY <1>1
<1> QED
  BY <1>4, <1>5 DEF Slice

LEMMA PayloadByte ==
  ASSUME NEW ms \in Seq(Message), NEW n \in Nat, n < Len(ms),
         NEW o \in Nat, o = Begin(ms, n) + Len(Sync) + HeaderLength,
         NEW e \in Nat, e = Begin(ms, n + 1), NEW p \in Nat, o <= p, p < e
  PROVE  \E k \in DOMAIN ms[n + 1].payload : Stream(ms)[p + 1] = ms[n + 1].payload[k]
<1> DEFINE w == Wire(ms[n + 1])
           q == ms[n + 1].payload
<1>1. /\ ms[n + 1] \in Message /\ Begin(ms, n) \in Nat /\ Slice(w, Stream(ms), Begin(ms, n))
      /\ Begin(ms, n + 1) = Begin(ms, n) + Len(w)
      /\ Stream(ms) \in Seq(Nat) /\ Len(Sync) \in Nat
  BY MessageAt, ScriptAssumption
<1>2. /\ w \in Seq(Nat) /\ q \in Seq(Nat) /\ Slice(q, w, Len(Sync) + HeaderLength)
      /\ Len(w) = Len(Sync) + HeaderLength + Len(q)
  BY <1>1, WireIs DEF Message
<1> HIDE DEF w, q
<1>8. /\ Begin(ms, n) \in Nat /\ Len(Sync) \in Nat /\ HeaderLength \in Nat /\ Len(q) \in Nat
      /\ e = Begin(ms, n) + (Len(Sync) + HeaderLength + Len(q))
  BY <1>1, <1>2, HeaderLengthIs
<1>3. o = Begin(ms, n) + (Len(Sync) + HeaderLength) /\ Len(Sync) + HeaderLength \in Nat
  BY <1>8
<1>4. Slice(q, Stream(ms), o)
  BY <1>1, <1>2, <1>3, SliceOfSlice
<1>5. e = o + Len(q)
  BY <1>8
<1> DEFINE k == p + 1 - o
<1>6. k \in Nat /\ 1 <= k /\ k <= Len(q) /\ o + k = p + 1
  <2>1. Len(q) \in Nat
    BY <1>2
  <2> QED
    BY <1>5, <2>1
<1> HIDE DEF k
<1>9. k \in DOMAIN q
  <2>1. q \in Seq(Nat) /\ DOMAIN q = 1 .. Len(q)
    BY <1>2
  <2> QED
    BY <1>6, <2>1
<1>7. q[k] = Stream(ms)[p + 1]
  BY <1>4, <1>6, <1>9 DEF Slice
<1> QED
  BY <1>9, <1>7 DEF q

LEMMA HeaderBytes ==
  ASSUME NEW ms \in Seq(Message), NEW n \in Nat, n < Len(ms),
         NEW q \in Seq(Nat), Len(q) <= HeaderLength,
         NEW p, p = Begin(ms, n) + Len(Sync), Slice(q, Stream(ms), p)
  PROVE  /\ Slice(q, Wire(ms[n + 1]), Len(Sync))
         /\ Len(q) = HeaderLength =>
              Parsed(q) = [rev |-> ms[n + 1].rev, type |-> ms[n + 1].type, pLen |-> Len(ms[n + 1].payload)]
<1> DEFINE w == Wire(ms[n + 1])
           m == ms[n + 1]
           h == <<m.rev, m.type, Len(m.payload)>>
<1>1. /\ m \in Message /\ Begin(ms, n) \in Nat /\ Slice(w, Stream(ms), Begin(ms, n))
      /\ Stream(ms) \in Seq(Nat) /\ Len(Sync) \in Nat
  BY MessageAt, ScriptAssumption
<1>2. /\ w \in Seq(Nat) /\ m.payload \in Seq(Nat) /\ Slice(h, w, Len(Sync))
      /\ Len(w) = Len(Sync) + HeaderLength + Len(m.payload)
  BY <1>1, WireIs DEF Message
<1>3. h[1] = m.rev /\ h[2] = m.type /\ h[3] = Len(m.payload) /\ DOMAIN h = 1 .. 3 /\ Len(m.payload) \in Nat
  BY <1>2
<1> HIDE DEF w, h, m
<1>4. Len(Sync) + Len(q) <= Len(w)
  <2>1. HeaderLength \in Nat /\ Len(q) \in Nat
    BY HeaderLengthIs
  <2> QED
    BY <1>1, <1>2, <1>3, <2>1 DEF Message
<1>5. Slice(q, w, Len(Sync))
  BY <1>1, <1>2, <1>4, SliceWithin
<1>6. ASSUME Len(q) = HeaderLength
      PROVE  Parsed(q) = [rev |-> m.rev, type |-> m.type, pLen |-> Len(m.payload)]
  <2>1. DOMAIN q = 1 .. 3
    BY <1>6, HeaderLengthIs
  <2>2. \A k \in 1 .. 3 : q[k] = w[Len(Sync) + k]
    BY <1>5, <2>1 DEF Slice
  <2>3. \A k \in 1 .. 3 : h[k] = w[Len(Sync) + k]
    BY <1>2, <1>3 DEF Slice
  <2>4. q[1] = m.rev /\ q[2] = m.type /\ q[3] = Len(m.payload)
    BY <1>3, <2>2, <2>3
  <2> QED
    BY <2>4 DEF Parsed
<1> QED
  BY <1>5, <1>6 DEF w, m

LEMMA SlicesMeet ==
  ASSUME NEW T, NEW q \in Seq(T), NEW r \in Seq(T), NEW w \in Seq(T), NEW p \in Nat,
         Slice(q, w, p), Slice(r, w, p), Len(q) <= Len(r)
  PROVE  Slice(q, r, 0) /\ (Len(q) = Len(r) => q = r)
<1>1. p = p + 0 /\ 0 + Len(q) <= Len(r) /\ 0 \in Nat
  OBVIOUS
<1>2. Slice(q, r, 0)
  BY <1>1, SliceWithin
<1> QED
  BY <1>2, SliceWhole

-----------------------------------------------------------------------------
(* Types *)

LEMMA SyncIs == Sync \in Seq(Nat) /\ Len(Sync) \in Nat /\ Len(Sync) > 0
<1>1. Sync \in Seq(Nat) /\ Sync # <<>>
  BY ScriptAssumption
<1> QED
  BY <1>1

LEMMA InitTypes == ASSUME Init PROVE TypeOK
<1>1. /\ 0 \in 0 .. Len(Sync) - 1 /\ <<>> \in Seq(Nat) /\ Len(<<>>) = 0 /\ 0 \in 0 .. MaxPayload
      /\ 0 <= ReadLimit /\ 0 \in 0 .. ReplySpace
  <2>1. MaxPayload \in Nat /\ ReadLimit \in Nat /\ ReplySpace \in Nat
    BY ScriptAssumption
  <2> QED
    BY <2>1, SyncIs
<1>2. \A c \in Client : Stream(script[c]) \in Seq(Nat)
  <2>1. \A c \in Client : script[c] \in Scripts
    BY DEF Init
  <2>2. \A c \in Client : script[c] \in Seq(Message)
    BY <2>1, ScriptAssumption
  <2> QED
    BY <2>2, StreamEnds
<1>3. /\ message \in [header: [rev: Nat, type: Nat, pLen: 0 .. MaxPayload], payload: Seq(Nat)]
      /\ Len(message.payload) <= message.header.pLen
  BY <1>1 DEF Init, NoMessage, NoHeader, DefaultRev
<1>4. Len(hbuf) < HeaderLength /\ Len(data) <= ReadLimit
  BY <1>1, HeaderLengthIs DEF Init
<1>5. unsent \in [Client -> Seq(Nat)]
  BY <1>2 DEF Init
<1>6. /\ syncAt \in 0 .. Len(Sync) - 1 /\ hbuf \in Seq(Nat) /\ data \in Seq(Nat) /\ backlog \in Seq(Client)
      /\ unread \in [Client -> 0 .. ReplySpace] /\ toServer \in [Client -> Seq(Nat)]
  BY <1>1 DEF Init
<1>7. /\ handled \in [Client -> Seq([type: Nat, payload: Seq(Nat)])]
      /\ replies \in [Client -> Seq([to: Nat, accepted: BOOLEAN])]
  <2>1. <<>> \in Seq([type: Nat, payload: Seq(Nat)]) /\ <<>> \in Seq([to: Nat, accepted: BOOLEAN])
    OBVIOUS
  <2> QED
    BY <2>1 DEF Init
<1>8. /\ listening \in BOOLEAN /\ clientSocket \in Client \union {None}
      /\ state \in {"WaitingSync", "ReadingHeader", "ReadingPayload"}
      /\ main \in {"loop", "parse", "reply", "exited"}
      /\ exiting \in BOOLEAN /\ brokenPipe \in BOOLEAN /\ initialized \in BOOLEAN
      /\ conn \in [Client -> {"new", "open", "gone"}] /\ script \in [Client -> Scripts]
  BY DEF Init
<1> QED
  BY <1>3, <1>4, <1>5, <1>6, <1>7, <1>8 DEF TypeOK

LEMMA CloseBrokenTypes == ASSUME TypeOK, CloseBroken PROVE TypeOK'
BY DEF TypeOK, CloseBroken, parserVars, clientVars, historyVars

LEMMA AcceptTypes == ASSUME TypeOK, Accept PROVE TypeOK'
<1>1. 0 \in 0 .. Len(Sync) - 1
  BY SyncIs
<1>2. backlog \in Seq(Client) /\ backlog # <<>>
  BY DEF TypeOK, Accept
<1>3. Head(backlog) \in Client /\ Tail(backlog) \in Seq(Client)
  BY <1>2
<1> QED
  BY <1>1, <1>3 DEF TypeOK, Accept, Restarted, clientVars, historyVars

LEMMA ReadTypes == ASSUME TypeOK, Read PROVE TypeOK'
<1>1. clientSocket \in Client
  BY ReadMeans
<1>2. PICK n \in 1 .. Len(toServer[clientSocket]) :
        /\ n <= ReadLimit
        /\ data' = SubSeq(toServer[clientSocket], 1, n)
        /\ toServer' = [toServer EXCEPT ![clientSocket] =
                          SubSeq(toServer[clientSocket], n + 1, Len(toServer[clientSocket]))]
  BY ReadMeans
<1>3. toServer[clientSocket] \in Seq(Nat) /\ n \in 0 .. Len(toServer[clientSocket])
  BY <1>1, Types
<1>4. /\ data' \in Seq(Nat) /\ Len(data') = n
      /\ SubSeq(toServer[clientSocket], n + 1, Len(toServer[clientSocket])) \in Seq(Nat)
  BY <1>2, <1>3, Cut
<1>5. toServer' \in [Client -> Seq(Nat)]
  BY <1>2, <1>4 DEF TypeOK
<1>6. Len(data') <= ReadLimit
  BY <1>2, <1>4
<1> QED
  BY <1>4, <1>5, <1>6 DEF TypeOK, Read, parserVars, clientVars, historyVars

LEMMA ReadEndTypes == ASSUME TypeOK, ReadEnd PROVE TypeOK'
BY DEF TypeOK, ReadEnd, AfterEnd, parserVars, clientVars, historyVars

LEMMA StopTypes == ASSUME TypeOK, Stop PROVE TypeOK'
<1>1. backlog' \in Seq(Client)
  BY DEF Stop
<1> QED
  BY <1>1 DEF TypeOK, Stop, parserVars, clientVars, historyVars

LEMMA ConnectTypes == ASSUME TypeOK, NEW c \in Client, Connect(c) PROVE TypeOK'
<1>1. backlog' \in Seq(Client)
  <2>1. backlog \in Seq(Client)
    BY DEF TypeOK
  <2> QED
    BY <2>1, Appended DEF Connect
<1>2. conn' \in [Client -> {"new", "open", "gone"}]
  BY DEF TypeOK, Connect
<1> QED
  BY <1>1, <1>2 DEF TypeOK, Connect, serverVars, parserVars, historyVars

LEMMA WriteTypes == ASSUME TypeOK, NEW c \in Client, Write(c) PROVE TypeOK'
<1>1. PICK n \in 1 .. Len(unsent[c]) :
        /\ toServer' = [toServer EXCEPT ![c] = @ \o SubSeq(unsent[c], 1, n)]
        /\ unsent' = [unsent EXCEPT ![c] = SubSeq(unsent[c], n + 1, Len(unsent[c]))]
  BY WriteMeans
<1>2. unsent[c] \in Seq(Nat) /\ toServer[c] \in Seq(Nat) /\ n \in 0 .. Len(unsent[c])
  BY Types
<1>3. SubSeq(unsent[c], 1, n) \in Seq(Nat) /\ SubSeq(unsent[c], n + 1, Len(unsent[c])) \in Seq(Nat)
  BY <1>2, Cut
<1>4. toServer[c] \o SubSeq(unsent[c], 1, n) \in Seq(Nat)
  BY <1>2, <1>3, Joined
<1>5. toServer' \in [Client -> Seq(Nat)] /\ unsent' \in [Client -> Seq(Nat)]
  BY <1>1, <1>3, <1>4 DEF TypeOK
<1> QED
  BY <1>5 DEF TypeOK, Write, serverVars, parserVars, historyVars

LEMMA ReceiveTypes == ASSUME TypeOK, NEW c \in Client, Receive(c) PROVE TypeOK'
<1>1. unread[c] \in 0 .. ReplySpace /\ unread[c] > 0
  BY DEF TypeOK, Receive
<1>2. ReplySpace \in Nat
  BY ScriptAssumption
<1>3. unread[c] - 1 \in 0 .. ReplySpace
  BY <1>1, <1>2
<1>4. unread' \in [Client -> 0 .. ReplySpace]
  BY <1>3 DEF TypeOK, Receive
<1> QED
  BY <1>4 DEF TypeOK, Receive, serverVars, parserVars, clientVars, historyVars

LEMMA LeaveTypes == ASSUME TypeOK, NEW c \in Client, Leave(c) PROVE TypeOK'
BY DEF TypeOK, Leave, serverVars, parserVars, historyVars

LEMMA InterruptTypes == ASSUME TypeOK, Interrupt PROVE TypeOK'
BY DEF TypeOK, Interrupt, serverVars, parserVars, clientVars, historyVars

LEMMA MatchSyncTypes == ASSUME TypeOK, Control, MatchSync PROVE TypeOK'
<1>1. data \in Seq(Nat) /\ data # <<>> /\ Len(data) <= ReadLimit /\ ReadLimit \in Nat
  BY ScriptAssumption DEF TypeOK, Control, MatchSync
<1>2. Tail(data) \in Seq(Nat) /\ Len(Tail(data)) = Len(data) - 1 /\ Len(data) \in Nat
  BY <1>1
<1>3. data' \in Seq(Nat) /\ Len(data') <= ReadLimit /\ main' \in {"loop", "parse", "reply", "exited"}
  BY <1>1, <1>2 DEF MatchSync, Continue
<1>4. hbuf' \in Seq(Nat) /\ Len(hbuf') < HeaderLength
  <2>1. hbuf \in Seq(Nat) /\ Len(hbuf) < HeaderLength
    BY DEF TypeOK
  <2>2. hbuf' = hbuf \/ hbuf' = <<>>
    BY DEF MatchSync, SyncFound
  <2>3. <<>> \in Seq(Nat) /\ Len(<<>>) < HeaderLength
    BY HeaderLengthIs
  <2> QED
    BY <2>1, <2>2, <2>3, Zenon
<1>5. syncAt' \in 0 .. Len(Sync) - 1 /\ state' \in {"WaitingSync", "ReadingHeader", "ReadingPayload"}
  <2>1. syncAt \in Nat /\ syncAt + 1 \in Nat
    BY SyncIs DEF TypeOK
  <2>2. NextSync(Head(data)) \in Nat
    BY <2>1 DEF NextSync
  <2>3. CASE SyncFound
    BY <2>3, SyncIs DEF SyncFound
  <2>4. CASE NextSync(Head(data)) < Len(Sync) /\ syncAt' = NextSync(Head(data)) /\ UNCHANGED <<state, hbuf>>
    BY <2>2, <2>4, SyncIs DEF TypeOK
  <2> QED
    BY <2>3, <2>4 DEF MatchSync
<1> QED
  BY <1>3, <1>4, <1>5 DEF TypeOK, MatchSync, clientVars, historyVars

\* What the steps of ProcessData that take a message on leave in the variables they change.
Packets == {m \in [header: [rev: Nat, type: Nat, pLen: 0 .. MaxPayload], payload: Seq(Nat)] :
              Len(m.payload) <= m.header.pLen}
Handled == [type: Nat, payload: Seq(Nat)]
Parser ==
  /\ state \in {"WaitingSync", "ReadingHeader", "ReadingPayload"}
  /\ message \in Packets
  /\ data \in Seq(Nat) /\ Len(data) <= ReadLimit
  /\ main \in {"loop", "parse", "reply", "exited"}
  /\ initialized \in BOOLEAN /\ handled \in [Client -> Seq(Handled)]

LEMMA ParserTypes == TypeOK => Parser
BY DEF TypeOK, Parser, Packets, Handled

LEMMA ContinueTypes ==
  ASSUME TypeOK, NEW rest \in Seq(Nat), Len(rest) <= ReadLimit, Continue(rest),
         message' \in Packets, state' \in {"WaitingSync", "ReadingHeader", "ReadingPayload"},
         UNCHANGED <<handled, initialized>>
  PROVE  Parser'
BY ParserTypes DEF Continue, Parser

LEMMA DispatchTypes ==
  ASSUME TypeOK, clientSocket \in Client, NEW m \in Packets,
         NEW rest \in Seq(Nat), Len(rest) <= ReadLimit, Dispatch(m, rest)
  PROVE  Parser'
<1> DEFINE a == [type |-> m.header.type, payload |-> m.payload]
<1>1. a \in Handled
  BY DEF Packets, Handled
<1>2. handled[clientSocket] \in Seq(Handled) /\ handled \in [Client -> Seq(Handled)]
  BY ParserTypes DEF Parser
<1>3. handled' = [handled EXCEPT ![clientSocket] = Append(handled[clientSocket], a)]
  BY DEF Dispatch
<1> HIDE DEF a
<1>4. Append(handled[clientSocket], a) \in Seq(Handled)
  BY <1>1, <1>2, Appended
<1>5. handled' \in [Client -> Seq(Handled)]
  BY <1>2, <1>3, <1>4
<1>6. initialized' \in BOOLEAN
  BY ParserTypes DEF Dispatch, Parser
<1> QED
  BY <1>5, <1>6 DEF Dispatch, Parser

LEMMA Remains ==
  ASSUME TypeOK, NEW n \in 0 .. Len(data)
  PROVE  /\ SubSeq(data, 1, n) \in Seq(Nat) /\ Len(SubSeq(data, 1, n)) = n
         /\ SubSeq(data, n + 1, Len(data)) \in Seq(Nat)
         /\ Len(SubSeq(data, n + 1, Len(data))) = Len(data) - n
         /\ Len(SubSeq(data, n + 1, Len(data))) <= ReadLimit
<1>1. data \in Seq(Nat) /\ Len(data) \in Nat /\ Len(data) <= ReadLimit /\ ReadLimit \in Nat
  BY ScriptAssumption DEF TypeOK
<1>2. /\ SubSeq(data, 1, n) \in Seq(Nat) /\ Len(SubSeq(data, 1, n)) = n
      /\ SubSeq(data, n + 1, Len(data)) \in Seq(Nat)
      /\ Len(SubSeq(data, n + 1, Len(data))) = Len(data) - n
  BY <1>1, Cut
<1>3. Len(data) - n <= ReadLimit
  BY <1>1
<1> QED
  BY <1>2, <1>3, Zenon

LEMMA ParsedTypes ==
  ASSUME NEW q \in Seq(Nat), Len(q) = HeaderLength, ValidHeader(Parsed(q))
  PROVE  [header |-> Parsed(q), payload |-> <<>>] \in Packets
<1>1. q[1] \in Nat /\ q[2] \in Nat /\ q[3] \in Nat /\ MaxPayload \in Nat
  <2>1. Len(q) = 3
    BY HeaderLengthIs
  <2>2. 1 \in 1 .. Len(q) /\ 2 \in 1 .. Len(q) /\ 3 \in 1 .. Len(q)
    BY <2>1
  <2>3. q[1] \in Nat /\ q[2] \in Nat /\ q[3] \in Nat
    BY <2>2, ElementOfSeq
  <2> QED
    BY <2>3, ScriptAssumption
<1>2. q[3] \in 0 .. MaxPayload
  BY <1>1 DEF ValidHeader, Parsed
<1>3. Len(<<>>) <= q[3] /\ <<>> \in Seq(Nat)
  BY <1>1
<1> QED
  BY <1>1, <1>2, <1>3 DEF Parsed, Packets

LEMMA ReadHeaderTypes == ASSUME TypeOK, Control, ReadHeader PROVE TypeOK'
<1>1. clientSocket \in Client /\ message \in Packets
  BY ParserTypes DEF TypeOK, Control, ReadHeader, Parser
<1> DEFINE read(n) == hbuf \o SubSeq(data, 1, n)
           rest(n) == SubSeq(data, n + 1, Len(data))
<1>2. PICK n \in 1 .. Len(data) :
        /\ Len(read(n)) = Len(hbuf) + n /\ read(n) \in Seq(Nat)
        /\ \/ /\ Len(read(n)) < HeaderLength
              /\ hbuf' = read(n) /\ Continue(rest(n))
              /\ UNCHANGED <<state, message, handled, initialized>>
           \/ /\ Len(read(n)) = HeaderLength /\ ~ValidHeader(Parsed(read(n)))
              /\ hbuf' = <<>> /\ state' = "WaitingSync" /\ Continue(rest(n))
              /\ UNCHANGED <<message, handled, initialized>>
           \/ /\ Len(read(n)) = HeaderLength /\ ValidHeader(Parsed(read(n)))
              /\ hbuf' = <<>>
              /\ HeaderRead([header |-> Parsed(read(n)), payload |-> <<>>], rest(n))
  BY HeaderMeans
<1>3. rest(n) \in Seq(Nat) /\ Len(rest(n)) <= ReadLimit
  BY Remains
<1> HIDE DEF read, rest
<1>4. hbuf' \in Seq(Nat) /\ Len(hbuf') < HeaderLength /\ Parser'
  <2>1. CASE /\ Len(read(n)) < HeaderLength
             /\ hbuf' = read(n) /\ Continue(rest(n))
             /\ UNCHANGED <<state, message, handled, initialized>>
    <3>1. state' \in {"WaitingSync", "ReadingHeader", "ReadingPayload"}
      BY <2>1 DEF TypeOK
    <3> QED
      BY <1>1, <1>2, <1>3, <2>1, <3>1, ContinueTypes
  <2>2. CASE /\ hbuf' = <<>> /\ state' = "WaitingSync" /\ Continue(rest(n))
             /\ UNCHANGED <<message, handled, initialized>>
    BY <1>1, <1>3, <2>2, ContinueTypes, HeaderLengthIs
  <2>3. CASE /\ Len(read(n)) = HeaderLength /\ ValidHeader(Parsed(read(n)))
             /\ hbuf' = <<>>
             /\ HeaderRead([header |-> Parsed(read(n)), payload |-> <<>>], rest(n))
    <3> DEFINE m == [header |-> Parsed(read(n)), payload |-> <<>>]
    <3>1. m \in Packets
      BY <1>2, <2>3, ParsedTypes
    <3>2. Await(m, rest(n)) \/ Dispatch(m, rest(n))
      BY <2>3 DEF HeaderRead
    <3> HIDE DEF m
    <3>3. CASE Dispatch(m, rest(n))
      BY <1>1, <1>3, <2>3, <3>1, <3>3, DispatchTypes, HeaderLengthIs
    <3>4. CASE Await(m, rest(n))
      BY <1>3, <2>3, <3>1, <3>4, ContinueTypes, HeaderLengthIs DEF Await
    <3> QED
      BY <3>2, <3>3, <3>4
  <2> QED
    BY <1>2, <2>1, <2>2, <2>3
<1> QED
  BY <1>4 DEF TypeOK, ReadHeader, Parser, Packets, Handled, parserVars, clientVars, historyVars

LEMMA ReadPayloadTypes == ASSUME TypeOK, Control, ReadPayload PROVE TypeOK'
<1>1. clientSocket \in Client
  BY DEF TypeOK, Control, ReadPayload
<1> DEFINE m(n) == [message EXCEPT !.payload = @ \o SubSeq(data, 1, n)]
           rest(n) == SubSeq(data, n + 1, Len(data))
<1>2. PICK n \in 0 .. Len(data) :
        /\ Len(message.payload) + n <= message.header.pLen
        /\ message.payload \o SubSeq(data, 1, n) \in Seq(Nat)
        /\ Len(m(n).payload) = Len(message.payload) + n /\ m(n).header = message.header
        /\ IF Len(m(n).payload) = m(n).header.pLen THEN Dispatch(m(n), rest(n)) ELSE Await(m(n), rest(n))
  BY PayloadMeans
<1>3. rest(n) \in Seq(Nat) /\ Len(rest(n)) <= ReadLimit
  BY Remains
<1>4. m(n) \in [header: [rev: Nat, type: Nat, pLen: 0 .. MaxPayload], payload: Seq(Nat)]
  <2> DEFINE q == message.payload \o SubSeq(data, 1, n)
  <2>1. q \in Seq(Nat)
    BY <1>2
  <2>2. message \in [header: [rev: Nat, type: Nat, pLen: 0 .. MaxPayload], payload: Seq(Nat)]
    BY DEF TypeOK
  <2>3. m(n) = [message EXCEPT !.payload = q]
    OBVIOUS
  <2> HIDE DEF q, m
  <2> QED
    BY <2>1, <2>2, <2>3
<1> HIDE DEF m, rest
<1>5. m(n) \in Packets
  BY <1>2, <1>4 DEF Packets
<1>6. Parser'
  <2>1. CASE Dispatch(m(n), rest(n))
    BY <1>1, <1>3, <1>5, <2>1, DispatchTypes
  <2>2. CASE Await(m(n), rest(n))
    BY <1>3, <1>5, <2>2, ContinueTypes DEF Await
  <2> QED
    BY <1>2, <2>1, <2>2
<1> QED
  BY <1>6 DEF TypeOK, ReadPayload, Parser, Packets, Handled, parserVars, clientVars, historyVars

LEMMA ReplyTypes == ASSUME TypeOK, Control, Reply PROVE TypeOK'
<1>1. clientSocket \in Client
  BY DEF TypeOK, Control, Reply
<1>2. /\ NoMessage \in [header: [rev: Nat, type: Nat, pLen: 0 .. MaxPayload], payload: Seq(Nat)]
      /\ Len(NoMessage.payload) <= NoMessage.header.pLen
  <2>1. 0 \in 0 .. MaxPayload /\ <<>> \in Seq(Nat) /\ Len(<<>>) <= 0
    BY ScriptAssumption
  <2> QED
    BY <2>1 DEF NoMessage, NoHeader, DefaultRev
<1>3. data' \in Seq(Nat) /\ Len(data') <= ReadLimit /\ main' \in {"loop", "parse", "reply", "exited"}
  BY DEF TypeOK, Reply, Continue
<1>4. brokenPipe' \in BOOLEAN /\ unread' \in [Client -> 0 .. ReplySpace]
      /\ replies' \in [Client -> Seq([to: Nat, accepted: BOOLEAN])]
  <2>1. CASE brokenPipe' = TRUE /\ UNCHANGED <<replies, unread>>
    BY <2>1 DEF TypeOK
  <2>2. CASE /\ unread[clientSocket] < ReplySpace
             /\ unread' = [unread EXCEPT ![clientSocket] = @ + 1]
             /\ replies' = [replies EXCEPT ![clientSocket] =
                  Append(@, [to |-> message.header.type, accepted |-> initialized])]
             /\ UNCHANGED brokenPipe
    <3>1. unread[clientSocket] + 1 \in 0 .. ReplySpace
      <4>1. unread[clientSocket] \in 0 .. ReplySpace /\ ReplySpace \in Nat
        BY <1>1, ScriptAssumption DEF TypeOK
      <4> QED
        BY <2>2, <4>1
    <3>2. unread' \in [Client -> 0 .. ReplySpace]
      BY <2>2, <3>1 DEF TypeOK
    <3> DEFINE a == [to |-> message.header.type, accepted |-> initialized]
               A == [to: Nat, accepted: BOOLEAN]
    <3>3. a \in A
      <4>1. message.header.type \in Nat /\ initialized \in BOOLEAN
        BY DEF TypeOK
      <4> QED
        BY <4>1
    <3>4. replies \in [Client -> Seq(A)]
      BY DEF TypeOK
    <3>5. replies' = [replies EXCEPT ![clientSocket] = Append(replies[clientSocket], a)]
      BY <2>2
    <3> HIDE DEF a, A
    <3>6. Append(replies[clientSocket], a) \in Seq(A)
      BY <1>1, <3>3, <3>4, Appended
    <3>7. replies' \in [Client -> Seq(A)]
      BY <3>4, <3>5, <3>6
    <3> QED
      BY <2>2, <3>2, <3>7 DEF A, TypeOK
  <2> QED
    BY <2>1, <2>2 DEF Reply
<1>5. /\ message' \in [header: [rev: Nat, type: Nat, pLen: 0 .. MaxPayload], payload: Seq(Nat)]
      /\ Len(message'.payload) <= message'.header.pLen
  BY <1>2 DEF Reply
<1> QED
  BY <1>3, <1>4, <1>5 DEF TypeOK, Reply, clientVars

-----------------------------------------------------------------------------
(* Control and queue *)

LEMMA TypeStep == ASSUME TypeOK, Control, Next PROVE TypeOK'
BY CloseBrokenTypes, AcceptTypes, ReadTypes, ReadEndTypes, StopTypes, MatchSyncTypes, ReadHeaderTypes,
   ReadPayloadTypes, ReplyTypes, InterruptTypes, ConnectTypes, WriteTypes, ReceiveTypes, LeaveTypes
   DEF Next, Server

\* What ProcessData leaves alone, whatever it does with the bytes.
LEMMA ParserLeaves ==
  ASSUME TypeOK, Control, MatchSync \/ ReadHeader \/ ReadPayload
  PROVE  /\ main = "parse" /\ clientSocket \in Client
         /\ UNCHANGED <<listening, clientSocket, brokenPipe, exiting, backlog, toServer, unread, clientVars,
                        script, replies>>
         /\ main' = "reply" \/ (main' = "loop" /\ data' = <<>>) \/ (main' = "parse" /\ data' # <<>>)
<1>1. main = "parse"
  BY DEF MatchSync, ReadHeader, ReadPayload
<1>2. clientSocket \in Client
  BY <1>1 DEF TypeOK, Control
<1>3. UNCHANGED <<listening, clientSocket, brokenPipe, exiting, backlog, toServer, unread, clientVars,
                  script, replies>>
  BY DEF MatchSync, ReadHeader, ReadPayload, historyVars
<1>4. main' = "reply" \/ (main' = "loop" /\ data' = <<>>) \/ (main' = "parse" /\ data' # <<>>)
  <2>1. ASSUME NEW rest, Continue(rest)
        PROVE  (main' = "loop" /\ data' = <<>>) \/ (main' = "parse" /\ data' # <<>>)
    BY <2>1 DEF Continue
  <2>2. ASSUME NEW m, NEW rest, Await(m, rest)
        PROVE  (main' = "loop" /\ data' = <<>>) \/ (main' = "parse" /\ data' # <<>>)
    BY <2>1, <2>2 DEF Await
  <2>3. ASSUME NEW m, NEW rest, Dispatch(m, rest) PROVE main' = "reply"
    BY <2>3 DEF Dispatch
  <2>4. CASE MatchSync
    BY <2>1, <2>4 DEF MatchSync
  <2>5. CASE ReadHeader
    <3> DEFINE toCopy == Min({HeaderLength - Len(hbuf), Len(data)})
               read   == hbuf \o SubSeq(data, 1, toCopy)
               rest   == SubSeq(data, toCopy + 1, Len(data))
               m      == [header |-> Parsed(read), payload |-> <<>>]
    <3>1. Continue(rest) \/ HeaderRead(m, rest)
      BY <2>5 DEF ReadHeader
    <3> HIDE DEF m, rest
    <3>2. Continue(rest) \/ Await(m, rest) \/ Dispatch(m, rest)
      BY <3>1 DEF HeaderRead
    <3> QED
      BY <2>1, <2>2, <2>3, <3>2
  <2>6. CASE ReadPayload
    <3> DEFINE toCopy == Min({message.header.pLen - Len(message.payload), Len(data)})
               m      == [message EXCEPT !.payload = @ \o SubSeq(data, 1, toCopy)]
               rest   == SubSeq(data, toCopy + 1, Len(data))
    <3>1. Await(m, rest) \/ Dispatch(m, rest)
      BY <2>6, Zenon DEF ReadPayload
    <3> HIDE DEF m, rest
    <3> QED
      BY <2>2, <2>3, <3>1
  <2> QED
    BY <2>4, <2>5, <2>6
<1> QED
  BY <1>1, <1>2, <1>3, <1>4

LEMMA ControlStep == ASSUME TypeOK, Control, Next PROVE Control'
<1>1. CASE CloseBroken
  BY <1>1 DEF Control, CloseBroken, Looping
<1>2. CASE Accept
  BY <1>2 DEF Control, Accept, Looping
<1>3. CASE Read
  <2>1. PICK n \in 1 .. Len(toServer[clientSocket]) : data' = SubSeq(toServer[clientSocket], 1, n)
    BY <1>3, ReadMeans
  <2>2. clientSocket \in Client
    BY <1>3, ReadMeans
  <2>3. toServer[clientSocket] \in Seq(Nat) /\ n \in 0 .. Len(toServer[clientSocket]) /\ n # 0
    BY <2>2, Types
  <2>4. data' \in Seq(Nat) /\ Len(data') = n
    BY <2>1, <2>3, Cut
  <2>5. data' # <<>>
    BY <2>3, <2>4
  <2> QED
    BY <1>3, <2>5 DEF Control, Read, Looping, clientVars
<1>4. CASE ReadEnd
  BY <1>4 DEF Control, ReadEnd, AfterEnd, Looping
<1>5. CASE Stop
  BY <1>5 DEF Control, Stop
<1>6. CASE MatchSync \/ ReadHeader \/ ReadPayload
  BY <1>6, ParserLeaves DEF Control, clientVars
<1>7. CASE Reply
  BY <1>7 DEF Control, Reply, Continue, clientVars
<1>8. CASE Interrupt
  BY <1>8 DEF Control, Interrupt, serverVars, clientVars
<1>9. ASSUME NEW c \in Client, Connect(c) PROVE Control'
  <2>1. clientSocket # c => conn'[clientSocket] = conn[clientSocket]
    BY <1>9 DEF TypeOK, Control, Connect
  <2>2. main # "exited" /\ UNCHANGED serverVars /\ conn[c] = "new"
    BY <1>9 DEF Control, Connect
  <2> QED
    BY <2>1, <2>2 DEF Control, serverVars
<1>10. ASSUME NEW c \in Client, Write(c) \/ Receive(c) PROVE Control'
  BY <1>10 DEF Control, Write, Receive, serverVars, clientVars
<1>11. ASSUME NEW c \in Client, Leave(c) PROVE Control'
  BY <1>11 DEF Control, TypeOK, Leave, serverVars
<1> QED
  BY <1>1, <1>2, <1>3, <1>4, <1>5, <1>6, <1>7, <1>8, <1>9, <1>10, <1>11 DEF Next, Server

LEMMA InitControl == ASSUME Init PROVE Control /\ Queue
<1>1. Range(<<>>) = {}
  BY DEF Range
<1> QED
  BY <1>1 DEF Init, Control, Queue

LEMMA QueueFrame == ASSUME Queue, UNCHANGED <<clientSocket, backlog, conn>> PROVE Queue'
BY DEF Queue

LEMMA InRange == ASSUME NEW q, NEW x PROVE x \in Range(q) <=> \E i \in DOMAIN q : q[i] = x
BY DEF Range

LEMMA QueueStep == ASSUME TypeOK, Control, Queue, Next PROVE Queue'
<1>0. clientSocket \in Client \union {None} /\ backlog \in Seq(Client) /\ conn \in [Client -> {"new", "open", "gone"}]
  BY DEF TypeOK
<1>1. CASE CloseBroken \/ ReadEnd
  BY <1>1 DEF Queue, CloseBroken, ReadEnd, AfterEnd, clientVars
<1>2. CASE Accept
  <2>1. /\ clientSocket' = Head(backlog) /\ backlog' = Tail(backlog) /\ backlog # <<>>
        /\ conn' = conn
    BY <1>2 DEF Accept, clientVars
  <2>2. /\ clientSocket' = backlog[1] /\ 1 \in DOMAIN backlog
        /\ \A i \in DOMAIN backlog' : i + 1 \in DOMAIN backlog /\ backlog'[i] = backlog[i + 1] /\ i + 1 # 1
        /\ \A i, k \in DOMAIN backlog' : i + 1 = k + 1 => i = k
    BY <1>0, <2>1
  <2>3. clientSocket' \notin Range(backlog')
    BY <2>2, InRange DEF Queue
  <2>4. \A i \in DOMAIN backlog' : conn'[backlog'[i]] # "new"
    BY <2>1, <2>2 DEF Queue
  <2>5. \A i, k \in DOMAIN backlog' : backlog'[i] = backlog'[k] => i = k
    BY <2>2 DEF Queue
  <2>6. conn'[clientSocket'] # "new"
    BY <2>1, <2>2 DEF Queue
  <2> QED
    BY <2>3, <2>4, <2>5, <2>6 DEF Queue
<1>3. CASE Stop
  BY <1>3 DEF Queue, Stop
<1>4. CASE MatchSync \/ ReadHeader \/ ReadPayload
  BY <1>4, ParserLeaves, QueueFrame DEF clientVars
<1>5. CASE Read \/ Reply \/ Interrupt
  BY <1>5, QueueFrame DEF Read, Reply, Interrupt, serverVars, clientVars
<1>6. ASSUME NEW c \in Client, Write(c) \/ Receive(c) PROVE Queue'
  BY <1>6, QueueFrame DEF Write, Receive, serverVars, clientVars
<1>7. ASSUME NEW c \in Client, Connect(c) PROVE Queue'
  <2>1. conn[c] = "new" /\ conn' = [conn EXCEPT ![c] = "open"] /\ backlog' = Append(backlog, c)
        /\ clientSocket' = clientSocket
    BY <1>7 DEF Connect, serverVars
  <2>2. /\ DOMAIN backlog' = 1 .. Len(backlog) + 1 /\ DOMAIN backlog = 1 .. Len(backlog) /\ Len(backlog) \in Nat
        /\ \A i \in DOMAIN backlog : backlog'[i] = backlog[i]
        /\ backlog'[Len(backlog) + 1] = c
        /\ \A i \in DOMAIN backlog : backlog[i] \in Client
    BY <1>0, <2>1
  <2>3. \A i \in DOMAIN backlog : backlog[i] # c
    BY <2>1 DEF Queue
  <2>4. \A i \in DOMAIN backlog' : i \in DOMAIN backlog \/ i = Len(backlog) + 1
    BY <2>2
  <2>5. \A d \in Client : conn'[d] = IF d = c THEN "open" ELSE conn[d]
    BY <1>0, <2>1
  <2>6. ASSUME clientSocket # None PROVE conn'[clientSocket'] # "new" /\ clientSocket' \notin Range(backlog')
    <3>1. clientSocket \in Client /\ conn[clientSocket] # "new" /\ clientSocket \notin Range(backlog) /\ clientSocket # c
      BY <1>0, <2>1, <2>6 DEF Queue
    <3>2. \A i \in DOMAIN backlog' : backlog'[i] # clientSocket
      BY <2>2, <2>4, <3>1, InRange
    <3> QED
      <4>1. clientSocket \notin Range(backlog')
        BY <3>2, InRange
      <4>2. conn'[clientSocket] = conn[clientSocket] /\ clientSocket' = clientSocket
        BY <2>1, <2>5, <3>1
      <4> QED
        BY <3>1, <4>1, <4>2
  <2>7. \A i \in DOMAIN backlog' : conn'[backlog'[i]] # "new"
    BY <2>2, <2>4, <2>5 DEF Queue
  <2>8. \A i, k \in DOMAIN backlog' : backlog'[i] = backlog'[k] => i = k
    BY <2>2, <2>3, <2>4 DEF Queue
  <2> QED
    BY <2>1, <2>6, <2>7, <2>8 DEF Queue
<1>8. ASSUME NEW c \in Client, Leave(c) PROVE Queue'
  <2>1. conn' = [conn EXCEPT ![c] = "gone"] /\ UNCHANGED <<backlog, clientSocket>>
    BY <1>8 DEF Leave, serverVars
  <2>2. \A d : conn[d] # "new" /\ d \in Client => conn'[d] # "new"
    BY <1>0, <2>1
  <2>3. \A i \in DOMAIN backlog : backlog[i] \in Client
    BY <1>0
  <2> QED
    BY <1>0, <2>1, <2>2, <2>3 DEF Queue
<1> QED
  BY <1>1, <1>2, <1>3, <1>4, <1>5, <1>6, <1>7, <1>8 DEF Next, Server

-----------------------------------------------------------------------------
(* The bytes on their way *)

LEMMA Streams ==
  ASSUME TypeOK, NEW c \in Client
  PROVE  /\ script[c] \in Seq(Message) /\ Stream(script[c]) \in Seq(Nat) /\ Len(Stream(script[c])) \in Nat
         /\ unsent[c] \in Seq(Nat) /\ Len(unsent[c]) \in Nat
         /\ toServer[c] \in Seq(Nat) /\ Len(toServer[c]) \in Nat
         /\ Consumed(c) \in Int /\ Sent(c) \in Int /\ Sent(c) = Consumed(c) + Len(toServer[c])
<1>1. script[c] \in Seq(Message) /\ unsent[c] \in Seq(Nat) /\ toServer[c] \in Seq(Nat)
  BY Types
<1>2. Stream(script[c]) \in Seq(Nat)
  BY <1>1, StreamEnds
<1>3. Len(Stream(script[c])) \in Nat /\ Len(unsent[c]) \in Nat /\ Len(toServer[c]) \in Nat
  BY <1>1, <1>2
<1>4. Consumed(c) \in Int /\ Sent(c) \in Int /\ Sent(c) = Consumed(c) + Len(toServer[c])
  BY <1>3 DEF Consumed, Sent
<1> QED
  BY <1>1, <1>2, <1>3, <1>4

LEMMA FlowFrame ==
  ASSUME UNCHANGED <<script, unsent, toServer>>
  PROVE  /\ \A c \in Client : Consumed(c)' = Consumed(c)
         /\ Flowing => Flowing'
BY DEF Consumed, Flowing, Sent, Slice

LEMMA InitFlowing == ASSUME Init PROVE Untouched /\ Flowing
<1>1. TypeOK
  BY InitTypes
<1> SUFFICES ASSUME NEW c \in Client
             PROVE  /\ handled[c] = <<>> /\ replies[c] = <<>> /\ Consumed(c) = 0 /\ Sent(c) = 0
                    /\ Slice(unsent[c], Stream(script[c]), 0) /\ Slice(toServer[c], Stream(script[c]), 0)
  BY DEF Untouched, Flowing
<1>2. unsent[c] = Stream(script[c]) /\ toServer[c] = <<>> /\ handled[c] = <<>> /\ replies[c] = <<>>
  BY DEF Init
<1>3. Stream(script[c]) \in Seq(Nat) /\ Len(toServer[c]) = 0
  BY <1>1, <1>2, Streams
<1>4. Consumed(c) = 0 /\ Sent(c) = 0
  <2>1. Len(unsent[c]) = Len(Stream(script[c])) /\ Len(Stream(script[c])) \in Nat
    BY <1>2, <1>3, Zenon, LenProperties
  <2> QED
    BY <1>3, <2>1 DEF Consumed, Sent
<1>5. Slice(unsent[c], Stream(script[c]), 0) /\ Slice(toServer[c], Stream(script[c]), 0)
  BY <1>2, <1>3 DEF Slice
<1> QED
  BY <1>2, <1>4, <1>5

\* A read and a write move the border between what is looked at, on its way and unsent.
LEMMA ReadFlow ==
  ASSUME TypeOK, Control, Flowing, Read
  PROVE  /\ \A c \in Client : c # clientSocket => Consumed(c)' = Consumed(c)
         /\ Flowing'
         /\ Looked(clientSocket)' = Looked(clientSocket)
         /\ Held'
<1>0. UNCHANGED <<script, unsent, clientSocket>>
  BY DEF Read, clientVars
<1>1. clientSocket \in Client /\ main = "loop"
  BY ReadMeans
<1>2. PICK n \in 1 .. Len(toServer[clientSocket]) :
        /\ data' = SubSeq(toServer[clientSocket], 1, n)
        /\ toServer' = [toServer EXCEPT ![clientSocket] =
                          SubSeq(toServer[clientSocket], n + 1, Len(toServer[clientSocket]))]
  BY ReadMeans
<1>3. \E c : c = clientSocket
  OBVIOUS
<1>4. PICK c : c = clientSocket
  BY <1>3
<1> DEFINE w == Stream(script[c])
           q == toServer[c]
           p == Consumed(c)
<1>5. /\ c \in Client /\ w \in Seq(Nat) /\ q \in Seq(Nat) /\ Len(q) \in Nat /\ Len(w) \in Nat /\ Len(unsent[c]) \in Nat
      /\ Sent(c) = p + Len(q)
  BY <1>1, <1>4, Streams
<1>6. p \in Nat /\ Slice(q, w, p)
  BY <1>5 DEF Flowing
<1>7. /\ Slice(SubSeq(q, 1, n), w, p) /\ Len(SubSeq(q, 1, n)) = n
      /\ Slice(SubSeq(q, n + 1, Len(q)), w, p + n)
      /\ Len(SubSeq(q, n + 1, Len(q))) = Len(q) - n
  <2>1. n \in 0 .. Len(q)
    BY <1>4, <1>5
  <2> HIDE DEF p, q, w
  <2> QED
    BY <1>5, <1>6, <2>1, SliceCut
<1>8. toServer'[c] = SubSeq(q, n + 1, Len(q)) /\ data' = SubSeq(q, 1, n)
      /\ \A d \in Client : d # c => toServer'[d] = toServer[d]
  BY <1>2, <1>4, <1>5 DEF TypeOK
<1>9. Consumed(c)' = p + n
  <2>1. Len(toServer'[c]) = Len(q) - n
    BY <1>7, <1>8
  <2> QED
    BY <1>0, <1>5, <2>1 DEF Consumed
<1>10. Looked(c) = p /\ Looked(c)' = p
  <2>1. Len(data) = 0
    BY <1>1 DEF Control
  <2>2. Len(data') = n
    BY <1>7, <1>8
  <2> QED
    BY <1>6, <1>9, <2>1, <2>2 DEF Looked
<1>11. \A d \in Client : d # c => Consumed(d)' = Consumed(d)
  BY <1>0, <1>8 DEF Consumed
<1>12. \A d \in Client : Sent(d)' = Sent(d)
  BY <1>0 DEF Sent
<1>13. Flowing'
  <2> SUFFICES ASSUME NEW d \in Client
               PROVE  /\ Consumed(d)' \in Nat /\ Sent(d)' \in Nat
                      /\ Slice(unsent'[d], Stream(script'[d]), Sent(d)')
                      /\ Slice(toServer'[d], Stream(script'[d]), Consumed(d)')
    BY DEF Flowing
  <2>1. /\ Consumed(d) \in Nat /\ Sent(d) \in Nat
        /\ Slice(unsent[d], Stream(script[d]), Sent(d)) /\ Slice(toServer[d], Stream(script[d]), Consumed(d))
    BY DEF Flowing
  <2>2. CASE d # c
    BY <1>0, <1>8, <1>11, <1>12, <2>1, <2>2, Zenon
  <2>3. CASE d = c
    <3>1. Slice(toServer'[d], Stream(script'[d]), Consumed(d)')
      BY <1>0, <1>7, <1>8, <1>9, <2>3, Zenon
    <3>2. Consumed(d)' \in Nat
      BY <1>6, <1>9, <2>3
    <3> QED
      BY <1>0, <1>12, <2>1, <3>1, <3>2, Zenon
  <2> QED
    BY <2>2, <2>3
<1>14. Held'
  <2>1. clientSocket' = c /\ Looked(c)' \in Nat /\ Slice(data', Stream(script'[c]), Looked(c)')
    BY <1>0, <1>4, <1>6, <1>7, <1>8, <1>10, Zenon
  <2> QED
    BY <2>1 DEF Held
<1>15. Looked(clientSocket)' = Looked(c)'
  BY <1>0, <1>4
<1> QED
  BY <1>4, <1>10, <1>11, <1>13, <1>14, <1>15

LEMMA WriteFlow ==
  ASSUME TypeOK, Flowing, NEW c \in Client, Write(c)
  PROVE  /\ \A d \in Client : Consumed(d)' = Consumed(d)
         /\ Flowing'
<1>0. UNCHANGED <<script, clientSocket>>
  BY DEF Write, serverVars
<1>1. PICK n \in 1 .. Len(unsent[c]) :
        /\ toServer' = [toServer EXCEPT ![c] = @ \o SubSeq(unsent[c], 1, n)]
        /\ unsent' = [unsent EXCEPT ![c] = SubSeq(unsent[c], n + 1, Len(unsent[c]))]
  BY WriteMeans
<1> DEFINE w == Stream(script[c])
           q == toServer[c]
           r == unsent[c]
           p == Consumed(c)
<1>2. /\ w \in Seq(Nat) /\ q \in Seq(Nat) /\ r \in Seq(Nat)
      /\ Len(q) \in Nat /\ Len(w) \in Nat /\ Len(r) \in Nat
      /\ Sent(c) = p + Len(q)
  BY Streams
<1>3. p \in Nat /\ Slice(q, w, p) /\ Slice(r, w, p + Len(q)) /\ Sent(c) \in Nat
  BY <1>2 DEF Flowing
<1>4. n \in 0 .. Len(r)
  BY <1>2
<1> DEFINE a == SubSeq(r, 1, n)
           b == SubSeq(r, n + 1, Len(r))
<1>5. /\ a \in Seq(Nat) /\ Len(a) = n /\ Slice(a, w, p + Len(q))
      /\ Len(b) = Len(r) - n /\ Slice(b, w, p + Len(q) + n)
  <2> DEFINE s == p + Len(q)
  <2>1. s \in Nat /\ Slice(r, w, s) /\ r \in Seq(Nat) /\ w \in Seq(Nat) /\ n \in 0 .. Len(r)
    BY <1>2, <1>3, <1>4
  <2> HIDE DEF p, q, r, w, s
  <2>2. /\ SubSeq(r, 1, n) \in Seq(Nat) /\ Len(SubSeq(r, 1, n)) = n /\ Slice(SubSeq(r, 1, n), w, s)
        /\ SubSeq(r, n + 1, Len(r)) \in Seq(Nat) /\ Len(SubSeq(r, n + 1, Len(r))) = Len(r) - n
        /\ Slice(SubSeq(r, n + 1, Len(r)), w, s + n)
    <3>1. s \in Nat /\ r \in Seq(Nat) /\ w \in Seq(Nat) /\ n \in 0 .. Len(r)
      BY <2>1
    <3>2. Slice(r, w, s)
      BY <2>1
    <3> QED
      BY <3>1, <3>2, SliceCut
  <2> QED
    BY <2>2 DEF s
<1>6. /\ toServer'[c] = q \o a /\ unsent'[c] = b
      /\ \A d \in Client : d # c => toServer'[d] = toServer[d] /\ unsent'[d] = unsent[d]
  BY <1>1 DEF TypeOK
<1>7. Slice(q \o a, w, p) /\ Len(q \o a) = Len(q) + n
  <2> HIDE DEF p, q, r, w, a
  <2> QED
    BY <1>2, <1>3, <1>5, SliceJoin, Joined
<1>8. Consumed(c)' = p
  <2>1. Len(toServer'[c]) = Len(q) + n /\ Len(unsent'[c]) = Len(r) - n
    BY <1>5, <1>6, <1>7
  <2> QED
    BY <1>0, <1>2, <2>1 DEF Consumed
<1>9. Sent(c)' = p + Len(q) + n
  <2>1. Len(unsent'[c]) = Len(r) - n
    BY <1>5, <1>6
  <2>2. Sent(c) = Len(w) - Len(r)
    BY DEF Sent
  <2>3. Sent(c)' = Len(w) - Len(unsent'[c])
    BY <1>0 DEF Sent
  <2> QED
    <3> DEFINE l == Len(r)
               k == Len(unsent'[c])
    <3>1. p \in Nat /\ Len(q) \in Nat /\ l \in Nat /\ Len(w) \in Nat /\ n \in Nat
      BY <1>2, <1>3
    <3>2. k = l - n /\ Len(w) - l = p + Len(q) /\ Sent(c)' = Len(w) - k
      BY <1>2, <2>1, <2>2, <2>3, Zenon
    <3> HIDE DEF p, q, l, w, k
    <3> QED
      BY <3>1, <3>2
<1>10. \A d \in Client : d # c => Consumed(d)' = Consumed(d) /\ Sent(d)' = Sent(d)
  BY <1>0, <1>6 DEF Consumed, Sent
<1>11. Flowing'
  <2> SUFFICES ASSUME NEW d \in Client
               PROVE  /\ Consumed(d)' \in Nat /\ Sent(d)' \in Nat
                      /\ Slice(unsent'[d], Stream(script'[d]), Sent(d)')
                      /\ Slice(toServer'[d], Stream(script'[d]), Consumed(d)')
    BY DEF Flowing
  <2>1. /\ Consumed(d) \in Nat /\ Sent(d) \in Nat
        /\ Slice(unsent[d], Stream(script[d]), Sent(d)) /\ Slice(toServer[d], Stream(script[d]), Consumed(d))
    BY DEF Flowing
  <2>2. CASE d # c
    BY <1>0, <1>6, <1>10, <2>1, <2>2, Zenon
  <2>3. CASE d = c
    <3>1. Slice(toServer'[d], Stream(script'[d]), Consumed(d)')
      BY <1>0, <1>6, <1>7, <1>8, <2>3, Zenon
    <3>2. Slice(unsent'[d], Stream(script'[d]), Sent(d)')
      BY <1>0, <1>5, <1>6, <1>9, <2>3, Zenon
    <3>3. Consumed(d)' \in Nat /\ Sent(d)' \in Nat
      <4>1. p + Len(q) + n \in Nat
        BY <1>2, <1>3
      <4> QED
        BY <1>3, <1>8, <1>9, <2>3, <4>1, Zenon
    <3> QED
      BY <3>1, <3>2, <3>3
  <2> QED
    BY <2>2, <2>3
<1> QED
  BY <1>8, <1>10, <1>11

LEMMA FlowingStep == ASSUME TypeOK, Control, Flowing, Next PROVE Flowing'
<1>1. CASE MatchSync \/ ReadHeader \/ ReadPayload
  BY <1>1, ParserLeaves, FlowFrame DEF clientVars
<1>2. CASE CloseBroken \/ Accept \/ ReadEnd \/ Stop \/ Reply \/ Interrupt
  BY <1>2, FlowFrame DEF CloseBroken, Accept, ReadEnd, Stop, Reply, Interrupt, clientVars
<1>3. ASSUME NEW c \in Client, Connect(c) \/ Receive(c) \/ Leave(c) PROVE Flowing'
  BY <1>3, FlowFrame DEF Connect, Receive, Leave, clientVars
<1> QED
  BY <1>1, <1>2, <1>3, ReadFlow, WriteFlow DEF Next, Server

\* Whoever is not accepted yet keeps a clean record.
LEMMA UntouchedStep == ASSUME TypeOK, Control, Queue, Untouched, Flowing, Next PROVE Untouched'
<1>0. clientSocket \in Client \union {None} /\ backlog \in Seq(Client) /\ conn \in [Client -> {"new", "open", "gone"}]
  BY DEF TypeOK
<1>1. ASSUME \A c \in Client : (conn'[c] = "new" \/ c \in Range(backlog')) => (conn[c] = "new" \/ c \in Range(backlog)),
             \A c \in Client : (conn[c] = "new" \/ c \in Range(backlog)) =>
                handled'[c] = handled[c] /\ replies'[c] = replies[c] /\ Consumed(c)' = Consumed(c)
      PROVE  Untouched'
  BY <1>1 DEF Untouched
<1>2. CASE CloseBroken \/ ReadEnd \/ Stop \/ Interrupt
  <2>1. UNCHANGED <<conn, handled, replies, script, unsent, toServer>>
    BY <1>2 DEF CloseBroken, ReadEnd, Stop, Interrupt, clientVars, historyVars
  <2>2. \A c : c \in Range(backlog') => c \in Range(backlog)
    <3>1. Range(<<>>) = {}
      BY DEF Range
    <3> QED
      BY <1>2, <3>1 DEF CloseBroken, ReadEnd, Stop, Interrupt
  <2>3. \A c \in Client : Consumed(c)' = Consumed(c)
    BY <2>1, FlowFrame
  <2> QED
    BY <1>1, <2>1, <2>2, <2>3
<1>3. CASE Accept
  <2>1. UNCHANGED <<conn, handled, replies, script, unsent, toServer>> /\ backlog' = Tail(backlog) /\ backlog # <<>>
    BY <1>3 DEF Accept, clientVars, historyVars
  <2>2. \A i \in DOMAIN backlog' : i + 1 \in DOMAIN backlog /\ backlog'[i] = backlog[i + 1]
    BY <1>0, <2>1
  <2>3. \A c : c \in Range(backlog') => c \in Range(backlog)
    BY <2>2, InRange
  <2>4. \A c \in Client : Consumed(c)' = Consumed(c)
    BY <2>1, FlowFrame
  <2> QED
    BY <1>1, <2>1, <2>3, <2>4
<1>4. CASE Read
  <2>1. UNCHANGED <<conn, handled, replies, backlog>>
    BY <1>4 DEF Read, clientVars, historyVars
  <2>2. \A c \in Client : c # clientSocket => Consumed(c)' = Consumed(c)
    BY <1>4, ReadFlow
  <2>3. clientSocket # None
    BY <1>4 DEF Read
  <2> QED
    BY <1>1, <2>1, <2>2, <2>3 DEF Queue
<1>5. CASE MatchSync \/ ReadHeader \/ ReadPayload \/ Reply
  <2>1. UNCHANGED <<conn, backlog, script, unsent, toServer>> /\ clientSocket \in Client
    BY <1>5, ParserLeaves DEF Reply, clientVars, Control, TypeOK
  <2>2. conn[clientSocket] # "new" /\ clientSocket \notin Range(backlog)
    BY <2>1, ClientAssumption DEF Queue
  <2>3. \A c \in Client : Consumed(c)' = Consumed(c)
    BY <2>1, FlowFrame
  <2>4. \A c \in Client : c # clientSocket => handled'[c] = handled[c] /\ replies'[c] = replies[c]
    <3>1. handled \in [Client -> Seq(Handled)] /\ replies \in [Client -> Seq([to: Nat, accepted: BOOLEAN])]
      BY ParserTypes DEF TypeOK, Parser
    <3>2. ASSUME NEW m, NEW rest, Dispatch(m, rest) \/ Await(m, rest)
          PROVE  \A c \in Client : c # clientSocket => handled'[c] = handled[c]
      BY <3>1, <3>2 DEF Dispatch, Await
    <3>3. CASE MatchSync
      BY <3>3 DEF MatchSync, historyVars
    <3>4. CASE ReadHeader
      <4> DEFINE toCopy == Min({HeaderLength - Len(hbuf), Len(data)})
                 read   == hbuf \o SubSeq(data, 1, toCopy)
                 rest   == SubSeq(data, toCopy + 1, Len(data))
                 m      == [header |-> Parsed(read), payload |-> <<>>]
      <4>1. (handled' = handled \/ HeaderRead(m, rest)) /\ replies' = replies
        BY <3>4 DEF ReadHeader
      <4> HIDE DEF m, rest
      <4> QED
        BY <3>2, <4>1 DEF HeaderRead
    <3>5. CASE ReadPayload
      <4> DEFINE toCopy == Min({message.header.pLen - Len(message.payload), Len(data)})
                 m      == [message EXCEPT !.payload = @ \o SubSeq(data, 1, toCopy)]
                 rest   == SubSeq(data, toCopy + 1, Len(data))
      <4>1. (Await(m, rest) \/ Dispatch(m, rest)) /\ replies' = replies
        BY <3>5, Zenon DEF ReadPayload
      <4> HIDE DEF m, rest
      <4> QED
        BY <3>2, <4>1
    <3>6. CASE Reply
      BY <3>1, <3>6 DEF Reply
    <3> QED
      BY <1>5, <3>3, <3>4, <3>5, <3>6
  <2> QED
    BY <1>1, <2>1, <2>2, <2>3, <2>4
<1>6. ASSUME NEW c \in Client, Connect(c) PROVE Untouched'
  <2>1. /\ UNCHANGED <<handled, replies, script, unsent, toServer>>
        /\ conn[c] = "new" /\ conn' = [conn EXCEPT ![c] = "open"] /\ backlog' = Append(backlog, c)
    BY <1>6 DEF Connect, historyVars
  <2>2. \A d \in Client : conn'[d] = "new" => conn[d] = "new"
    BY <1>0, <2>1
  <2>3. \A i \in DOMAIN backlog' : (i \in DOMAIN backlog /\ backlog'[i] = backlog[i]) \/ backlog'[i] = c
    BY <1>0, <2>1
  <2>4. \A d : d \in Range(backlog') => d \in Range(backlog) \/ d = c
    BY <2>3, InRange
  <2>5. \A d \in Client : Consumed(d)' = Consumed(d)
    BY <2>1, FlowFrame
  <2> QED
    BY <1>1, <2>1, <2>2, <2>4, <2>5
<1>7. ASSUME NEW c \in Client, Write(c) PROVE Untouched'
  <2>1. UNCHANGED <<conn, handled, replies, backlog>>
    BY <1>7 DEF Write, historyVars
  <2> QED
    BY <1>1, <1>7, <2>1, WriteFlow
<1>8. ASSUME NEW c \in Client, Receive(c) \/ Leave(c) PROVE Untouched'
  <2>1. UNCHANGED <<handled, replies, backlog, script, unsent, toServer>>
    BY <1>8 DEF Receive, Leave, clientVars, historyVars
  <2>2. \A d \in Client : conn'[d] = "new" => conn[d] = "new"
    BY <1>0, <1>8 DEF Receive, Leave, clientVars
  <2>3. \A d \in Client : Consumed(d)' = Consumed(d)
    BY <2>1, FlowFrame
  <2> QED
    BY <1>1, <2>1, <2>2, <2>3
<1> QED
  BY <1>2, <1>3, <1>4, <1>5, <1>6, <1>7, <1>8 DEF Next, Server

-----------------------------------------------------------------------------
(* The parser *)

LEMMA LookedFrame ==
  ASSUME UNCHANGED <<script, unsent, toServer, data>>
  PROVE  /\ \A c : Looked(c)' = Looked(c)
         /\ clientSocket' = clientSocket /\ Held => Held'
BY DEF Looked, Consumed, Held, Slice

\* n bytes of data are done with.
LEMMA Advance ==
  ASSUME TypeOK, Held, clientSocket \in Client, UNCHANGED <<clientSocket, script, unsent, toServer>>,
         NEW n \in 0 .. Len(data), data' = SubSeq(data, n + 1, Len(data))
  PROVE  /\ Looked(clientSocket) \in Nat /\ Looked(clientSocket)' = Looked(clientSocket) + n
         /\ Slice(SubSeq(data, 1, n), Stream(script[clientSocket]), Looked(clientSocket))
         /\ Held'
<1>1. clientSocket # None
  BY ClientAssumption
<1>2. PICK c : c = clientSocket
  OBVIOUS
<1> DEFINE w == Stream(script[c])
           p == Looked(c)
           rest == SubSeq(data, n + 1, Len(data))
<1>3. p \in Nat /\ Slice(data, w, p)
  BY <1>1, <1>2 DEF Held
<1>4. w \in Seq(Nat) /\ data \in Seq(Nat) /\ Consumed(c) \in Int /\ Len(data) \in Nat
  BY <1>2, Streams, Types
<1>5. /\ Slice(SubSeq(data, 1, n), w, p) /\ Slice(rest, w, p + n) /\ Len(rest) = Len(data) - n
  <2> HIDE DEF w, p
  <2> QED
    BY <1>3, <1>4, SliceCut
<1>6. Consumed(c)' = Consumed(c)
  BY <1>2 DEF Consumed
<1>7. Looked(c)' = p + n
  <2>1. Looked(c)' = Consumed(c) - Len(rest) /\ p = Consumed(c) - Len(data)
    BY <1>6 DEF Looked
  <2> HIDE DEF rest, p
  <2> QED
    BY <1>4, <1>5, <2>1
<1>8. Held'
  <2>1. p + n \in Nat
    BY <1>3
  <2>2. clientSocket' = c /\ script'[c] = script[c] /\ data' = rest
    BY <1>2
  <2> HIDE DEF rest, p
  <2> QED
    BY <1>5, <1>7, <2>1, <2>2 DEF Held
<1>9. Looked(clientSocket)' = Looked(c)'
  BY <1>2
<1> QED
  BY <1>2, <1>3, <1>5, <1>7, <1>8, <1>9

LEMMA ParsingFrame ==
  ASSUME Parsing, UNCHANGED <<clientSocket, script, handled, parserVars>>,
         main' = "reply" <=> main = "reply",
         clientSocket # None => Looked(clientSocket)' = Looked(clientSocket)
  PROVE  Parsing'
BY DEF Parsing, Within, Searching, Skipping, InHeader, InPayload, Replying, Slice, parserVars

LEMMA ParsingAgain ==
  ASSUME NEW c, clientSocket' = c, NEW ms, script'[c] = ms, NEW p, Looked(c)' = p, NEW n \in 0 .. Len(ms),
         handled'[c] = Requests(First(ms, n)), Within(ms, n, p)'
  PROVE  Parsing'
BY DEF Parsing

LEMMA ParsingIs ==
  ASSUME Parsing, clientSocket # None, NEW c, c = clientSocket, NEW ms, ms = script[c], NEW p, p = Looked(c)
  PROVE  \E n \in 0 .. Len(ms) : handled[c] = Requests(First(ms, n)) /\ Within(ms, n, p)
BY DEF Parsing

LEMMA AcceptParsing == ASSUME TypeOK, Control, Untouched, Accept PROVE Parsing' /\ Held'
<1>1. /\ backlog \in Seq(Client) /\ backlog # <<>> /\ clientSocket' = Head(backlog) /\ data = <<>>
      /\ UNCHANGED <<script, unsent, toServer, data, handled, main>> /\ state' = "WaitingSync" /\ syncAt' = 0
      /\ main = "loop"
  BY DEF TypeOK, Control, Accept, Looping, Restarted, clientVars, historyVars
<1>2. PICK c : c = Head(backlog)
  OBVIOUS
<1>3. c \in Client /\ c \in Range(backlog)
  BY <1>1, <1>2, InRange
<1>4. PICK ms : ms = script[c]
  OBVIOUS
<1>5. ms \in Seq(Message) /\ Stream(ms) \in Seq(Nat)
  BY <1>3, <1>4, Streams
<1>6. handled[c] = <<>> /\ Consumed(c) = 0
  BY <1>3 DEF Untouched
<1>7. Looked(c) = 0
  <2>1. Len(data) = 0
    BY <1>1
  <2> QED
    BY <1>6, <2>1 DEF Looked
<1>8. Looked(c)' = 0
  BY <1>1, <1>7, LookedFrame
<1>9. Begin(ms, 0) = 0 /\ Requests(First(ms, 0)) = <<>> /\ 0 \in 0 .. Len(ms)
  <2>1. 0 \in 0 .. Len(ms)
    BY <1>5
  <2>2. First(ms, 0) = <<>>
    BY <1>5, <2>1, FirstIs
  <2> QED
    BY <1>5, <2>1, <2>2, StreamEnds, RequestsEmpty
<1>10. Within(ms, 0, 0)'
  BY <1>1, <1>9 DEF Within, Searching
<1>11. Parsing'
  BY <1>1, <1>2, <1>4, <1>6, <1>8, <1>9, <1>10, ParsingAgain
<1>12. Held'
  <2>1. Slice(data', Stream(script'[c]), 0)
    BY <1>1, <1>4, <1>5 DEF Slice
  <2> QED
    BY <1>1, <1>2, <1>8, <2>1 DEF Held
<1> QED
  BY <1>11, <1>12

LEMMA ReplyParsing == ASSUME TypeOK, Control, Held, Parsing, Reply PROVE Parsing' /\ Held'
<1>1. /\ UNCHANGED <<script, unsent, toServer, data, handled, syncAt, clientSocket>> /\ state' = "WaitingSync"
      /\ main = "reply" /\ main' # "reply"
  BY DEF Reply, Continue, clientVars
<1>2. clientSocket # None
  BY <1>1 DEF Control
<1>3. PICK c : c = clientSocket
  OBVIOUS
<1>4. PICK ms : ms = script[c]
  OBVIOUS
<1>5. PICK p : p = Looked(c)
  OBVIOUS
<1>6. PICK n \in 0 .. Len(ms) : handled[c] = Requests(First(ms, n)) /\ Within(ms, n, p)
  BY <1>2, <1>3, <1>4, <1>5, ParsingIs
<1>7. c \in Client
  BY <1>2, <1>3 DEF TypeOK
<1>8. ms \in Seq(Message)
  BY <1>4, <1>7, Streams
<1>9. Begin(ms, n) \in Nat
  BY <1>8, StreamType
<1>10. p = Begin(ms, n) /\ syncAt = 0
  BY <1>1, <1>6 DEF Within, Replying
<1>11. Within(ms, n, p)'
  BY <1>1, <1>9, <1>10 DEF Within, Searching
<1>12. Looked(c)' = p
  BY <1>1, <1>5, LookedFrame
<1>13. Parsing'
  BY <1>1, <1>3, <1>4, <1>6, <1>11, <1>12, ParsingAgain
<1> QED
  BY <1>1, <1>13, LookedFrame

LEMMA MatchSyncParsing == ASSUME TypeOK, Control, Held, Parsing, MatchSync PROVE Parsing' /\ Held'
<1>1. /\ UNCHANGED <<script, unsent, toServer, handled, clientSocket>> /\ main = "parse" /\ main' # "reply"
      /\ state = "WaitingSync" /\ data' = Tail(data)
  BY DEF MatchSync, Continue, clientVars, historyVars
<1>2. clientSocket # None /\ clientSocket \in Client /\ data # <<>> /\ data \in Seq(Nat)
  BY <1>1 DEF Control, TypeOK
<1>3. /\ Tail(data) = SubSeq(data, 1 + 1, Len(data)) /\ 1 \in 0 .. Len(data) /\ 1 \in DOMAIN data
      /\ Head(data) = data[1] /\ Len(SubSeq(data, 1, 1)) = 1 /\ SubSeq(data, 1, 1)[1] = data[1]
      /\ 1 \in DOMAIN SubSeq(data, 1, 1)
  BY <1>2
<1>4. PICK c : c = clientSocket
  OBVIOUS
<1>5. PICK ms : ms = script[c]
  OBVIOUS
<1>6. PICK p : p = Looked(c)
  OBVIOUS
<1>7. PICK n \in 0 .. Len(ms) : handled[c] = Requests(First(ms, n)) /\ Within(ms, n, p)
  BY <1>2, <1>4, <1>5, <1>6, ParsingIs
<1>8. ms \in Seq(Message) /\ Stream(ms) \in Seq(Nat)
  BY <1>2, <1>4, <1>5, Streams
<1>9. /\ p \in Nat /\ Looked(clientSocket)' = p + 1 /\ Slice(SubSeq(data, 1, 1), Stream(ms), p)
      /\ Held'
  BY <1>1, <1>2, <1>3, <1>4, <1>5, <1>6, Advance
<1>10. Looked(c)' = p + 1
  BY <1>1, <1>4, <1>9
<1>11. Head(data) = Stream(ms)[p + 1] /\ p + 1 <= Len(Stream(ms))
  BY <1>3, <1>9 DEF Slice
<1>12. syncAt \in Nat /\ syncAt < Len(Sync)
  BY SyncIs DEF TypeOK
\* A byte of the sync is the one the matcher waits for.
<1>13. ASSUME NEW k \in 0 .. Len(ms), handled[c] = Requests(First(ms, k)), p = Begin(ms, k) + syncAt,
              syncAt > 0 => k < Len(ms)
       PROVE  Parsing'
  <2>1. Begin(ms, k) \in Nat /\ Len(ms) \in Nat /\ Len(Stream(ms)) \in Nat
    BY <1>8, StreamType
  <2>2. k < Len(ms)
    <3>1. CASE syncAt > 0
      BY <1>13, <3>1
    <3>2. CASE syncAt = 0 /\ k = Len(ms)
      <4>1. Begin(ms, k) = Len(Stream(ms))
        BY <1>8, <3>2, StreamEnds
      <4> QED
        BY <1>11, <1>13, <2>1, <3>2, <4>1
    <3> QED
      BY <1>12, <1>13, <2>1, <3>1, <3>2
  <2>3. Stream(ms)[Begin(ms, k) + syncAt + 1] = Sync[syncAt + 1]
    BY <1>8, <1>12, <2>2, SyncByte
  <2>4. NextSync(Head(data)) = syncAt + 1
    BY <1>11, <1>13, <2>3 DEF NextSync
  <2>5. CASE NextSync(Head(data)) = Len(Sync) /\ SyncFound
    <3>1. state' = "ReadingHeader" /\ syncAt' = 0 /\ hbuf' = <<>> /\ syncAt + 1 = Len(Sync)
      BY <2>4, <2>5 DEF SyncFound
    <3>2. p + 1 = Begin(ms, k) + Len(Sync) + 0
      BY <1>12, <1>13, <2>1, <3>1
    <3>3. Slice(<<>>, Wire(ms[k + 1]), Len(Sync))
      <4>1. ms[k + 1] \in Message
        BY <1>8, <2>2, MessageAt
      <4>2. Slice(Sync, Wire(ms[k + 1]), 0)
        BY <4>1, WireIs
      <4>3. Len(Sync) <= Len(Wire(ms[k + 1]))
        BY <4>2, SyncIs DEF Slice
      <4> QED
        BY <4>3, SyncIs DEF Slice
    <3>4. Len(<<>>) = 0
      OBVIOUS
    <3>5. InHeader(ms, k, p + 1)'
      BY <2>2, <3>1, <3>2, <3>3, <3>4 DEF InHeader
    <3>6. Within(ms, k, p + 1)'
      BY <1>1, <3>5 DEF Within
    <3> QED
      BY <1>1, <1>4, <1>5, <1>10, <1>13, <3>6, ParsingAgain
  <2>6. CASE NextSync(Head(data)) < Len(Sync) /\ syncAt' = NextSync(Head(data)) /\ UNCHANGED <<state, hbuf>>
    <3>1. syncAt' = syncAt + 1 /\ state' = "WaitingSync"
      BY <1>1, <2>4, <2>6
    <3>2. p + 1 = Begin(ms, k) + syncAt'
      BY <1>12, <1>13, <2>1, <3>1
    <3>3. Searching(ms, k, p + 1)'
      BY <2>2, <3>1, <3>2 DEF Searching
    <3>4. Within(ms, k, p + 1)'
      BY <1>1, <3>3 DEF Within
    <3> QED
      BY <1>1, <1>4, <1>5, <1>10, <1>13, <3>4, ParsingAgain
  <2> QED
    BY <2>5, <2>6 DEF MatchSync
\* In what a refused header left, there is nothing like a sync.
<1>14. ASSUME Skipping(ms, n, p) PROVE Parsing'
  <2>1. /\ syncAt = 0 /\ n < Len(ms) /\ ~Accepted(ms[n + 1]) /\ n \in Nat /\ n + 1 \in 0 .. Len(ms)
        /\ Begin(ms, n) \in Nat /\ Begin(ms, n + 1) \in Nat
        /\ Begin(ms, n) + Len(Sync) + HeaderLength <= p /\ p <= Begin(ms, n + 1)
    <3>1. n < Len(ms) /\ n \in Nat /\ n + 1 \in 0 .. Len(ms)
      BY <1>8, <1>14 DEF Skipping
    <3>2. Begin(ms, n) \in Nat /\ Begin(ms, n + 1) \in Nat
      BY <1>8, <3>1, StreamType
    <3> QED
      BY <1>14, <3>1, <3>2 DEF Skipping
  <2>2. CASE p = Begin(ms, n + 1)
    <3>1. Requests(First(ms, n + 1)) = Requests(First(ms, n))
      BY <1>8, <2>1, RequestsNext DEF Acting
    <3>2. p = Begin(ms, n + 1) + syncAt
      BY <2>1, <2>2
    <3>3. handled[c] = Requests(First(ms, n + 1))
      BY <1>7, <3>1
    <3>4. ~(syncAt > 0) /\ n + 1 \in 0 .. Len(ms)
      BY <2>1
    <3>5. PICK k : k = n + 1
      OBVIOUS
    <3>6. k \in 0 .. Len(ms) /\ handled[c] = Requests(First(ms, k)) /\ p = Begin(ms, k) + syncAt
      BY <3>2, <3>3, <3>4, <3>5
    <3> QED
      BY <1>13, <3>4, <3>6
  <2>3. CASE p < Begin(ms, n + 1)
    <3>1. PICK k \in DOMAIN ms[n + 1].payload : Stream(ms)[p + 1] = ms[n + 1].payload[k]
      <4> DEFINE o == Begin(ms, n) + Len(Sync) + HeaderLength
                 e == Begin(ms, n + 1)
      <4>1. o \in Nat /\ e \in Nat /\ o <= p /\ p < e
        BY <2>1, <2>3, SyncIs, HeaderLengthIs
      <4>2. o = Begin(ms, n) + Len(Sync) + HeaderLength /\ e = Begin(ms, n + 1)
        OBVIOUS
      <4> HIDE DEF o, e
      <4> QED
        BY <1>8, <1>9, <2>1, <4>1, <4>2, PayloadByte
    <3>2. ms[n + 1].payload[k] # Sync[1]
      <4>1. ms \in Scripts
        BY <1>2, <1>4, <1>5 DEF TypeOK
      <4>2. n + 1 \in DOMAIN ms
        BY <1>8, <2>1
      <4> QED
        BY <2>1, <4>1, <4>2, CleanAssumption
    <3>3. NextSync(Head(data)) = 0
      <4>1. Sync[syncAt + 1] = Sync[1]
        BY <2>1
      <4> QED
        BY <1>11, <3>1, <3>2, <4>1 DEF NextSync
    <3>4. syncAt' = 0 /\ state' = "WaitingSync"
      BY <1>1, <3>3, SyncIs DEF MatchSync
    <3>5. Begin(ms, n) + Len(Sync) + HeaderLength <= p + 1 /\ p + 1 <= Begin(ms, n + 1)
      BY <1>9, <2>1, <2>3, SyncIs, HeaderLengthIs
    <3>6. Skipping(ms, n, p + 1)'
      BY <2>1, <3>4, <3>5 DEF Skipping
    <3>7. Within(ms, n, p + 1)'
      BY <1>1, <3>6 DEF Within
    <3>8. n \in 0 .. Len(ms) /\ handled'[c] = Requests(First(ms, n)) /\ clientSocket' = c /\ script'[c] = ms
      BY <1>1, <1>4, <1>5, <1>7
    <3> QED
      BY <1>10, <3>7, <3>8, ParsingAgain
  <2> QED
    BY <1>9, <2>1, <2>2, <2>3
<1>15. Searching(ms, n, p) \/ Skipping(ms, n, p)
  BY <1>1, <1>7 DEF Within, InHeader, InPayload
<1>16. Searching(ms, n, p) => p = Begin(ms, n) + syncAt /\ (syncAt > 0 => n < Len(ms))
  BY DEF Searching
<1>17. Parsing'
  BY <1>7, <1>13, <1>14, <1>15, <1>16
<1> QED
  BY <1>9, <1>17

\* With its last byte a message is acted on, and the parser stands at the next.
LEMMA DispatchParsing ==
  ASSUME TypeOK, NEW c \in Client, c = clientSocket, clientSocket' = c,
         NEW ms \in Seq(Message), script'[c] = ms, NEW n \in Nat, n < Len(ms),
         handled[c] = Requests(First(ms, n)), Accepted(ms[n + 1]),
         NEW m, NEW rest, Dispatch(m, rest),
         m.header.type = ms[n + 1].type, m.payload = ms[n + 1].payload,
         syncAt' = 0, Looked(c)' = Begin(ms, n + 1)
  PROVE  Parsing'
<1>1. n + 1 \in 0 .. Len(ms)
  OBVIOUS
<1>2. Requests(First(ms, n + 1)) = Append(handled[c], Act(ms[n + 1]))
  BY RequestsNext DEF Acting
<1>3. [type |-> m.header.type, payload |-> m.payload] = Act(ms[n + 1])
  BY DEF Act
<1>4. handled'[c] = Append(handled[c], Act(ms[n + 1]))
  <2>1. handled' = [handled EXCEPT ![c] = Append(handled[c], [type |-> m.header.type, payload |-> m.payload])]
    BY Zenon DEF Dispatch
  <2>2. c \in DOMAIN handled
    BY DEF TypeOK
  <2> QED
    BY <1>3, <2>1, <2>2, Zenon
<1>5. Within(ms, n + 1, Begin(ms, n + 1))'
  BY DEF Within, Replying, Dispatch
<1> QED
  BY <1>1, <1>2, <1>4, <1>5, ParsingAgain

LEMMA ReadHeaderParsing == ASSUME TypeOK, Control, Held, Parsing, ReadHeader PROVE Parsing' /\ Held'
<1>1. /\ UNCHANGED <<script, unsent, toServer, clientSocket, syncAt>> /\ main = "parse" /\ state = "ReadingHeader"
  BY DEF ReadHeader, clientVars
<1>2. clientSocket # None /\ clientSocket \in Client
  BY <1>1 DEF Control, TypeOK
<1> DEFINE read(k) == hbuf \o SubSeq(data, 1, k)
           rest(k) == SubSeq(data, k + 1, Len(data))
           Short(k) == /\ Len(read(k)) < HeaderLength
                       /\ hbuf' = read(k) /\ Continue(rest(k))
                       /\ UNCHANGED <<state, message, handled, initialized>>
           Refused(k) == /\ Len(read(k)) = HeaderLength /\ ~ValidHeader(Parsed(read(k)))
                         /\ hbuf' = <<>> /\ state' = "WaitingSync" /\ Continue(rest(k))
                         /\ UNCHANGED <<message, handled, initialized>>
           Taken(k) == /\ Len(read(k)) = HeaderLength /\ ValidHeader(Parsed(read(k)))
                       /\ hbuf' = <<>>
                       /\ HeaderRead([header |-> Parsed(read(k)), payload |-> <<>>], rest(k))
<1>3. PICK k \in 1 .. Len(data) :
        /\ Len(hbuf) + k <= HeaderLength /\ Len(read(k)) = Len(hbuf) + k /\ read(k) \in Seq(Nat)
        /\ Short(k) \/ Refused(k) \/ Taken(k)
  BY HeaderMeans
<1>4. PICK c : c = clientSocket
  OBVIOUS
<1>5. PICK ms : ms = script[c]
  OBVIOUS
<1>6. PICK p : p = Looked(c)
  OBVIOUS
<1>7. PICK n \in 0 .. Len(ms) : handled[c] = Requests(First(ms, n)) /\ Within(ms, n, p)
  BY <1>2, <1>4, <1>5, <1>6, ParsingIs
<1>8. ms \in Seq(Message) /\ Stream(ms) \in Seq(Nat)
  BY <1>2, <1>4, <1>5, Streams
<1>9. InHeader(ms, n, p)
  BY <1>1, <1>7 DEF Within, Searching, Skipping, InPayload
<1>10. data' = rest(k)
  <2>1. CASE Short(k) \/ Refused(k)
    BY <2>1 DEF Continue
  <2>2. CASE Taken(k)
    <3> DEFINE m == [header |-> Parsed(read(k)), payload |-> <<>>]
               r == rest(k)
    <3>1. HeaderRead(m, r)
      BY <2>2
    <3> HIDE DEF m, r
    <3>2. data' = r
      BY <3>1 DEF HeaderRead, Await, Dispatch, Continue
    <3> QED
      BY <3>2 DEF r
  <2> HIDE DEF Short, Refused, Taken
  <2> QED
    BY <1>3, <2>1, <2>2
<1>11. /\ p \in Nat /\ Looked(c)' = p + k /\ Slice(SubSeq(data, 1, k), Stream(ms), p) /\ Held'
  <2>1. k \in 0 .. Len(data) /\ data' = SubSeq(data, k + 1, Len(data))
    BY <1>3, <1>10
  <2> HIDE DEF Short, Refused, Taken
  <2>2. /\ Looked(clientSocket) \in Nat /\ Looked(clientSocket)' = Looked(clientSocket) + k
        /\ Slice(SubSeq(data, 1, k), Stream(script[clientSocket]), Looked(clientSocket))
        /\ Held'
    BY <1>1, <1>2, <2>1, Advance
  <2> QED
    BY <1>1, <1>4, <1>5, <1>6, <2>2
<1> HIDE DEF Short, Refused, Taken
<1>12. /\ syncAt = 0 /\ n < Len(ms) /\ n \in Nat /\ p = Begin(ms, n) + Len(Sync) + Len(hbuf)
       /\ Slice(hbuf, Wire(ms[n + 1]), Len(Sync))
  BY <1>8, <1>9 DEF InHeader
<1>13. /\ ms[n + 1] \in Message /\ Begin(ms, n) \in Nat /\ Begin(ms, n + 1) = Begin(ms, n) + Len(Wire(ms[n + 1]))
       /\ Slice(Wire(ms[n + 1]), Stream(ms), Begin(ms, n))
  BY <1>8, <1>12, MessageAt
<1>14. /\ Wire(ms[n + 1]) \in Seq(Nat) /\ Len(Wire(ms[n + 1])) = Len(Sync) + HeaderLength + Len(ms[n + 1].payload)
       /\ ms[n + 1].payload \in Seq(Nat)
  BY <1>13, WireIs DEF Message
<1>15. hbuf \in Seq(Nat) /\ Len(hbuf) \in Nat /\ SubSeq(data, 1, k) \in Seq(Nat) /\ Len(SubSeq(data, 1, k)) = k
       /\ k \in Nat
  <2>1. hbuf \in Seq(Nat) /\ Len(hbuf) \in Nat
    BY Types
  <2>2. k \in 0 .. Len(data) /\ k \in Nat
    BY <1>3
  <2> QED
    BY <2>1, <2>2, Remains
\* What is read of the header stands behind the sync.
<1>16. Slice(read(k), Stream(ms), Begin(ms, n) + Len(Sync)) /\ Begin(ms, n) + Len(Sync) \in Nat
  <2> DEFINE o == Begin(ms, n) + Len(Sync)
  <2>1. o \in Nat /\ p = o + Len(hbuf) /\ Len(Sync) \in Nat
    BY <1>12, <1>13, SyncIs
  <2>2. o = Begin(ms, n) + Len(Sync)
    OBVIOUS
  <2> HIDE DEF o
  <2>3. Slice(hbuf, Stream(ms), o)
    <3> DEFINE r == Wire(ms[n + 1])
               w == Stream(ms)
    <3>1. /\ hbuf \in Seq(Nat) /\ r \in Seq(Nat) /\ w \in Seq(Nat) /\ Begin(ms, n) \in Nat /\ Len(Sync) \in Nat
          /\ Slice(hbuf, r, Len(Sync)) /\ Slice(r, w, Begin(ms, n))
      BY <1>8, <1>12, <1>13, <1>14, <1>15, <2>1
    <3> HIDE DEF r, w
    <3>2. Slice(hbuf, w, o)
      BY <2>2, <3>1, SliceOfSlice
    <3> QED
      BY <3>2 DEF w
  <2>4. Slice(hbuf \o SubSeq(data, 1, k), Stream(ms), o)
    BY <1>8, <1>11, <1>15, <2>1, <2>3, SliceJoin
  <2> QED
    BY <2>1, <2>2, <2>4
<1> HIDE DEF read, rest
<1>17. /\ Slice(read(k), Wire(ms[n + 1]), Len(Sync))
       /\ Len(read(k)) = HeaderLength =>
            Parsed(read(k)) = [rev |-> ms[n + 1].rev, type |-> ms[n + 1].type, pLen |-> Len(ms[n + 1].payload)]
  <2>1. PICK o : o = Begin(ms, n) + Len(Sync)
    OBVIOUS
  <2>2. read(k) \in Seq(Nat) /\ Len(read(k)) <= HeaderLength
    BY <1>3
  <2> QED
    BY <1>8, <1>12, <1>16, <2>1, <2>2, HeaderBytes
<1>18. Len(read(k)) = HeaderLength => (ValidHeader(Parsed(read(k))) <=> Accepted(ms[n + 1]))
  BY <1>17 DEF ValidHeader, Accepted
<1>19. p + k = Begin(ms, n) + Len(Sync) + Len(read(k))
  <2>1. Len(Sync) \in Nat /\ Len(read(k)) = Len(hbuf) + k
    BY <1>3, SyncIs
  <2> QED
    BY <1>12, <1>13, <1>15, <2>1
<1>20. ASSUME Within(ms, n, p + k)', handled' = handled PROVE Parsing'
  <2>1. n \in 0 .. Len(ms) /\ handled'[c] = Requests(First(ms, n)) /\ clientSocket' = c /\ script'[c] = ms
    BY <1>1, <1>4, <1>5, <1>7, <1>20
  <2> QED
    BY <1>11, <1>20, <2>1, ParsingAgain
<1>21. ASSUME Short(k) PROVE Parsing'
  <2>1. hbuf' = read(k) /\ state' = "ReadingHeader" /\ main' # "reply" /\ handled' = handled
    BY <1>1, <1>21 DEF Short, Continue
  <2>2. InHeader(ms, n, p + k)'
    BY <1>1, <1>12, <1>17, <1>19, <2>1 DEF InHeader
  <2>3. Within(ms, n, p + k)'
    BY <2>1, <2>2 DEF Within
  <2> QED
    BY <1>20, <2>1, <2>3
<1>22. ASSUME Refused(k) PROVE Parsing'
  <2>1. /\ state' = "WaitingSync" /\ main' # "reply" /\ handled' = handled
        /\ Len(read(k)) = HeaderLength /\ ~Accepted(ms[n + 1])
    BY <1>18, <1>22 DEF Refused, Continue
  <2>2. Begin(ms, n) + Len(Sync) + HeaderLength <= p + k /\ p + k <= Begin(ms, n + 1)
    <3> DEFINE l == Len(ms[n + 1].payload)
    <3>1. l \in Nat /\ Len(Sync) \in Nat /\ HeaderLength \in Nat
      BY <1>14, SyncIs, HeaderLengthIs
    <3>2. Begin(ms, n + 1) = Begin(ms, n) + (Len(Sync) + HeaderLength + l)
      BY <1>13, <1>14
    <3>3. p + k = Begin(ms, n) + Len(Sync) + HeaderLength
      BY <1>19, <2>1
    <3> HIDE DEF l
    <3> QED
      BY <1>13, <3>1, <3>2, <3>3
  <2>3. Skipping(ms, n, p + k)'
    BY <1>1, <1>12, <2>1, <2>2 DEF Skipping
  <2>4. Within(ms, n, p + k)'
    BY <2>1, <2>3 DEF Within
  <2> QED
    BY <1>20, <2>1, <2>4
<1>23. ASSUME Taken(k) PROVE Parsing'
  <2> DEFINE m == [header |-> Parsed(read(k)), payload |-> <<>>]
             r == rest(k)
             l == Len(ms[n + 1].payload)
  <2>1. Accepted(ms[n + 1]) /\ Len(read(k)) = HeaderLength /\ HeaderRead(m, r)
    BY <1>18, <1>23 DEF Taken
  <2>2. /\ m.payload = <<>> /\ m.header.type = ms[n + 1].type /\ m.header.pLen = l
        /\ m.header = [rev |-> ms[n + 1].rev, type |-> ms[n + 1].type, pLen |-> Len(ms[n + 1].payload)]
    BY <1>17, <2>1
  <2>3. l \in Nat
    BY <1>14
  <2> HIDE DEF m, r
  <2>4. CASE m.header.pLen > 0
    <3>1. Await(m, r)
      BY <2>1, <2>4 DEF HeaderRead
    <3>2. message' = m /\ state' = "ReadingPayload" /\ main' # "reply" /\ handled' = handled
      BY <3>1 DEF Await, Continue
    <3>3. Len(<<>>) = 0 /\ Len(<<>>) < l /\ Slice(<<>>, ms[n + 1].payload, 0)
      <4>1. 0 < l /\ Len(<<>>) = 0
        BY <2>2, <2>4
      <4> QED
        BY <1>14, <2>3, <4>1 DEF Slice
    <3>4. p + k = Begin(ms, n) + Len(Sync) + HeaderLength + Len(<<>>)
      <4>1. Len(Sync) \in Nat /\ HeaderLength \in Nat
        BY SyncIs, HeaderLengthIs
      <4> QED
        BY <1>13, <1>19, <2>1, <3>3, <4>1
    <3>5. InPayload(ms, n, p + k)'
      BY <1>1, <1>12, <2>1, <2>2, <3>2, <3>3, <3>4 DEF InPayload
    <3>6. Within(ms, n, p + k)'
      BY <3>2, <3>5 DEF Within
    <3> QED
      BY <1>20, <3>2, <3>6
  <2>5. CASE ~(m.header.pLen > 0)
    <3>1. Dispatch(m, r)
      BY <2>1, <2>5 DEF HeaderRead
    <3>2. l = 0
      BY <2>2, <2>3, <2>5
    <3>3. ms[n + 1].payload = <<>>
      BY <1>14, <3>2, EmptySeq
    <3>4. Looked(c)' = Begin(ms, n + 1)
      <4>1. Len(Sync) \in Nat /\ HeaderLength \in Nat
        BY SyncIs, HeaderLengthIs
      <4>2. Begin(ms, n + 1) = Begin(ms, n) + (Len(Sync) + HeaderLength + l)
        BY <1>13, <1>14
      <4> HIDE DEF l
      <4> QED
        BY <1>11, <1>13, <1>19, <2>1, <3>2, <4>1, <4>2
    <3>5. c \in Client /\ c = clientSocket /\ clientSocket' = c /\ script'[c] = ms /\ syncAt' = 0
      BY <1>1, <1>2, <1>4, <1>5, <1>12
    <3>6. handled[c] = Requests(First(ms, n))
      BY <1>7
    <3>7. m.payload = ms[n + 1].payload
      BY <2>2, <3>3
    <3> QED
      BY <1>8, <1>12, <2>1, <2>2, <3>1, <3>4, <3>5, <3>6, <3>7, DispatchParsing
  <2> QED
    BY <2>4, <2>5
<1> QED
  BY <1>3, <1>11, <1>21, <1>22, <1>23

LEMMA ReadPayloadParsing == ASSUME TypeOK, Control, Held, Parsing, ReadPayload PROVE Parsing' /\ Held'
<1>1. /\ UNCHANGED <<script, unsent, toServer, clientSocket, syncAt, hbuf>> /\ main = "parse" /\ state = "ReadingPayload"
  BY DEF ReadPayload, clientVars
<1>2. clientSocket # None /\ clientSocket \in Client
  BY <1>1 DEF Control, TypeOK
<1> DEFINE m(k) == [message EXCEPT !.payload = @ \o SubSeq(data, 1, k)]
           rest(k) == SubSeq(data, k + 1, Len(data))
<1>3. PICK k \in 0 .. Len(data) :
        /\ Len(message.payload) + k <= message.header.pLen
        /\ m(k).payload = message.payload \o SubSeq(data, 1, k) /\ m(k).payload \in Seq(Nat)
        /\ Len(m(k).payload) = Len(message.payload) + k /\ m(k).header = message.header
        /\ IF Len(m(k).payload) = m(k).header.pLen THEN Dispatch(m(k), rest(k)) ELSE Await(m(k), rest(k))
  BY PayloadMeans
<1>4. PICK c : c = clientSocket
  OBVIOUS
<1>5. PICK ms : ms = script[c]
  OBVIOUS
<1>6. PICK p : p = Looked(c)
  OBVIOUS
<1>7. PICK n \in 0 .. Len(ms) : handled[c] = Requests(First(ms, n)) /\ Within(ms, n, p)
  BY <1>2, <1>4, <1>5, <1>6, ParsingIs
<1>8. ms \in Seq(Message) /\ Stream(ms) \in Seq(Nat)
  BY <1>2, <1>4, <1>5, Streams
<1>9. InPayload(ms, n, p)
  BY <1>1, <1>7 DEF Within, Searching, Skipping, InHeader
<1> HIDE DEF m
<1>10. data' = rest(k)
  <2> DEFINE r == rest(k)
  <2> HIDE DEF r
  <2>1. Dispatch(m(k), r) \/ Await(m(k), r)
    BY <1>3 DEF r
  <2>2. data' = r
    BY <2>1 DEF Await, Dispatch, Continue
  <2> QED
    BY <2>2 DEF r
<1>11. /\ p \in Nat /\ Looked(c)' = p + k /\ Slice(SubSeq(data, 1, k), Stream(ms), p) /\ Held'
  <2>1. k \in 0 .. Len(data) /\ data' = SubSeq(data, k + 1, Len(data))
    BY <1>3, <1>10
  <2>2. /\ Looked(clientSocket) \in Nat /\ Looked(clientSocket)' = Looked(clientSocket) + k
        /\ Slice(SubSeq(data, 1, k), Stream(script[clientSocket]), Looked(clientSocket))
        /\ Held'
    BY <1>1, <1>2, <2>1, Advance
  <2> QED
    BY <1>1, <1>4, <1>5, <1>6, <2>2
<1> DEFINE q == message.payload
           r == ms[n + 1].payload
           l == Len(r)
<1>12. /\ syncAt = 0 /\ n < Len(ms) /\ n \in Nat /\ Accepted(ms[n + 1])
       /\ message.header = [rev |-> ms[n + 1].rev, type |-> ms[n + 1].type, pLen |-> Len(ms[n + 1].payload)]
       /\ Len(q) < l /\ Slice(q, r, 0)
       /\ p = Begin(ms, n) + Len(Sync) + HeaderLength + Len(q)
  BY <1>8, <1>9 DEF InPayload
<1>13. /\ ms[n + 1] \in Message /\ Begin(ms, n) \in Nat /\ Begin(ms, n + 1) = Begin(ms, n) + Len(Wire(ms[n + 1]))
       /\ Slice(Wire(ms[n + 1]), Stream(ms), Begin(ms, n))
  BY <1>8, <1>12, MessageAt
<1>14. /\ Wire(ms[n + 1]) \in Seq(Nat) /\ Len(Wire(ms[n + 1])) = Len(Sync) + HeaderLength + l
       /\ r \in Seq(Nat) /\ Slice(r, Wire(ms[n + 1]), Len(Sync) + HeaderLength)
  BY <1>13, WireIs DEF Message
<1>15. q \in Seq(Nat) /\ Len(q) \in Nat /\ SubSeq(data, 1, k) \in Seq(Nat) /\ Len(SubSeq(data, 1, k)) = k /\ k \in Nat
  <2>1. q \in Seq(Nat) /\ Len(q) \in Nat
    BY Types
  <2>2. k \in 0 .. Len(data) /\ k \in Nat
    BY <1>3
  <2> QED
    BY <2>1, <2>2, Remains
<1>16. message.header.pLen = l /\ message.header.type = ms[n + 1].type /\ l \in Nat
  BY <1>12, <1>14
<1> DEFINE s == q \o SubSeq(data, 1, k)
<1>17. s = m(k).payload /\ s \in Seq(Nat) /\ Len(s) = Len(q) + k /\ Len(s) <= l
  BY <1>3, <1>16
\* What is read of the payload stands behind the header.
<1>18. Slice(s, r, 0) /\ (Len(s) = l => s = r)
  <2> DEFINE o == Begin(ms, n) + Len(Sync) + HeaderLength
             w == Stream(ms)
             v == Wire(ms[n + 1])
             d == Len(Sync) + HeaderLength
  <2>1. Len(Sync) \in Nat /\ HeaderLength \in Nat
    BY SyncIs, HeaderLengthIs
  <2>2. o \in Nat /\ p = o + Len(q) /\ d \in Nat /\ o = Begin(ms, n) + d /\ o = o + 0
    <3>1. p = Begin(ms, n) + Len(Sync) + HeaderLength + Len(q)
      BY <1>12, Zenon
    <3>2. Len(q) \in Nat /\ Begin(ms, n) \in Nat
      BY <1>13, <1>15
    <3> HIDE DEF q
    <3> QED
      BY <2>1, <3>1, <3>2
  <2>3. o = Begin(ms, n) + Len(Sync) + HeaderLength
    OBVIOUS
  <2>4. /\ v \in Seq(Nat) /\ r \in Seq(Nat) /\ w \in Seq(Nat)
        /\ Slice(r, v, d) /\ Slice(v, w, Begin(ms, n)) /\ Slice(q, r, 0) /\ q \in Seq(Nat)
    BY <1>8, <1>12, <1>13, <1>14, <1>15
  <2>5. Slice(SubSeq(data, 1, k), w, p)
    BY <1>11
  <2> HIDE DEF o, w, v, d, q, r
  <2>6. Slice(r, w, o)
    BY <1>13, <2>2, <2>4, SliceOfSlice
  <2>7. Slice(q, w, o)
    <3>1. 0 \in Nat
      OBVIOUS
    <3> QED
      BY <2>2, <2>4, <2>6, <3>1, SliceOfSlice
  <2>8. Slice(q \o SubSeq(data, 1, k), w, o)
    BY <1>15, <2>2, <2>4, <2>5, <2>7, SliceJoin
  <2> HIDE DEF s
  <2>9. Slice(s, w, o) /\ s \in Seq(Nat) /\ Len(s) <= Len(r)
    BY <1>17, <2>8 DEF s
  <2>10. Slice(s, r, 0) /\ (Len(s) = Len(r) => s = r)
    BY <2>2, <2>4, <2>6, <2>9, SlicesMeet
  <2> QED
    BY <2>10
<1>19. p + k = Begin(ms, n) + Len(Sync) + HeaderLength + Len(s)
  <2>1. Len(Sync) \in Nat /\ HeaderLength \in Nat
    BY SyncIs, HeaderLengthIs
  <2>2. p = Begin(ms, n) + Len(Sync) + HeaderLength + Len(q) /\ Len(s) = Len(q) + k
    BY <1>12, <1>17, Zenon
  <2> HIDE DEF q, s, r
  <2> QED
    BY <1>13, <1>15, <2>1, <2>2
<1>20. CASE Len(s) = l
  <2>1. Dispatch(m(k), rest(k))
    BY <1>3, <1>16, <1>17, <1>20
  <2>2. Looked(c)' = Begin(ms, n + 1)
    <3>1. Len(Sync) \in Nat /\ HeaderLength \in Nat
      BY SyncIs, HeaderLengthIs
    <3>2. Begin(ms, n + 1) = Begin(ms, n) + (Len(Sync) + HeaderLength + l)
      BY <1>13, <1>14
    <3> HIDE DEF q, s, l, r
    <3> QED
      BY <1>11, <1>13, <1>16, <1>19, <1>20, <3>1, <3>2
  <2>3. c \in Client /\ c = clientSocket /\ clientSocket' = c /\ script'[c] = ms /\ syncAt' = 0
    BY <1>1, <1>2, <1>4, <1>5, <1>12
  <2>4. handled[c] = Requests(First(ms, n))
    BY <1>7
  <2>5. m(k).header.type = ms[n + 1].type /\ m(k).payload = ms[n + 1].payload
    BY <1>3, <1>16, <1>17, <1>18, <1>20
  <2>6. Parsing'
    BY <1>8, <1>12, <2>1, <2>2, <2>3, <2>4, <2>5, DispatchParsing
  <2> QED
    BY <1>11, <2>6
<1>21. CASE Len(s) # l
  <2>1. Await(m(k), rest(k))
    BY <1>3, <1>16, <1>17, <1>21
  <2>2. message' = m(k) /\ state' = "ReadingPayload" /\ main' # "reply" /\ handled' = handled
    BY <2>1 DEF Await, Continue
  <2>3. message'.payload = s /\ message'.header = message.header /\ Len(s) < l
    <3>1. message'.payload = s /\ message'.header = message.header
      BY <1>3, <1>17, <2>2
    <3>2. Len(s) <= l /\ Len(s) # l /\ l \in Nat
      BY <1>16, <1>17, <1>21, Zenon
    <3>3. s \in Seq(Nat)
      BY <1>17
    <3> HIDE DEF s, l
    <3>4. Len(s) \in Nat
      BY <3>3
    <3> QED
      BY <3>1, <3>2, <3>4
  <2> HIDE DEF s, rest
  <2>4. InPayload(ms, n, p + k)'
    BY <1>1, <1>12, <1>18, <1>19, <2>2, <2>3 DEF InPayload
  <2>5. Within(ms, n, p + k)'
    BY <2>2, <2>4 DEF Within
  <2>6. n \in 0 .. Len(ms) /\ handled'[c] = Requests(First(ms, n)) /\ clientSocket' = c /\ script'[c] = ms
    BY <1>1, <1>4, <1>5, <1>7, <2>2
  <2>7. Parsing'
    BY <1>11, <2>5, <2>6, ParsingAgain
  <2> QED
    BY <1>11, <2>7
<1> QED
  BY <1>20, <1>21

LEMMA ParsingStep == ASSUME TypeOK, Control, Queue, Untouched, Flowing, Held, Parsing, Next PROVE Held' /\ Parsing'
<1>1. CASE MatchSync \/ ReadHeader \/ ReadPayload \/ Reply \/ Accept
  BY <1>1, MatchSyncParsing, ReadHeaderParsing, ReadPayloadParsing, ReplyParsing, AcceptParsing
<1>2. CASE Read
  <2>1. Held' /\ Looked(clientSocket)' = Looked(clientSocket)
    BY <1>2, ReadFlow
  <2>2. UNCHANGED <<clientSocket, script, handled, parserVars>> /\ main = "loop" /\ main' = "parse"
    BY <1>2 DEF Read, Looping, historyVars
  <2> QED
    BY <2>1, <2>2, ParsingFrame
<1>3. CASE CloseBroken \/ ReadEnd \/ Stop
  BY <1>3 DEF CloseBroken, ReadEnd, AfterEnd, Stop, Held, Parsing
<1>4. ASSUME UNCHANGED <<script, unsent, toServer, data, clientSocket, main, handled, parserVars>>
      PROVE  Held' /\ Parsing'
  BY <1>4, LookedFrame, ParsingFrame
<1>5. CASE Interrupt
  BY <1>4, <1>5 DEF Interrupt, serverVars, clientVars, historyVars
<1>6. ASSUME NEW c \in Client, Connect(c) \/ Receive(c) \/ Leave(c) PROVE Held' /\ Parsing'
  BY <1>4, <1>6 DEF Connect, Receive, Leave, serverVars, clientVars, historyVars
<1>7. ASSUME NEW c \in Client, Write(c) PROVE Held' /\ Parsing'
  <2>1. UNCHANGED <<data, clientSocket, main, handled, parserVars, script>>
    BY <1>7 DEF Write, serverVars, historyVars
  <2>2. \A d \in Client : Consumed(d)' = Consumed(d)
    BY <1>7, WriteFlow
  <2>3. \A d \in Client : Looked(d)' = Looked(d)
    BY <2>1, <2>2 DEF Looked
  <2>4. clientSocket # None => clientSocket \in Client
    BY DEF TypeOK
  <2>5. clientSocket # None => Looked(clientSocket)' = Looked(clientSocket)
    BY <2>1, <2>3, <2>4
  <2>6. Parsing'
    BY <2>1, <2>5, ParsingFrame
  <2>7. Held'
    BY <2>1, <2>5 DEF Held, Slice
  <2> QED
    BY <2>6, <2>7
<1> QED
  BY <1>1, <1>2, <1>3, <1>5, <1>6, <1>7 DEF Next, Server

LEMMA DeliveryInit == Init => Delivery
<1> SUFFICES ASSUME Init PROVE Delivery
  OBVIOUS
<1>1. Held /\ Parsing
  BY DEF Init, Held, Parsing
<1> QED
  BY <1>1, InitTypes, InitControl, InitFlowing DEF Delivery

LEMMA DeliveryStutter == ASSUME Delivery, UNCHANGED vars PROVE Delivery'
<1>1. TypeOK' /\ Control' /\ Queue'
  BY DEF Delivery, TypeOK, Control, Queue, vars, serverVars, parserVars, clientVars, historyVars
<1>2. UNCHANGED <<script, unsent, toServer, data, clientSocket, main, handled, replies, conn, backlog, parserVars>>
  BY DEF vars, serverVars, clientVars, historyVars
<1>3. Untouched' /\ Flowing'
  BY <1>2, FlowFrame DEF Delivery, Untouched
<1>4. Held' /\ Parsing'
  BY <1>2, LookedFrame, ParsingFrame DEF Delivery
<1> QED
  BY <1>1, <1>3, <1>4 DEF Delivery

LEMMA DeliveryStep == Delivery /\ [Next]_vars => Delivery'
<1> SUFFICES ASSUME Delivery, [Next]_vars PROVE Delivery'
  OBVIOUS
<1>1. CASE Next
  BY <1>1, TypeStep, ControlStep, QueueStep, UntouchedStep, FlowingStep, ParsingStep DEF Delivery
<1> QED
  BY <1>1, DeliveryStutter

LEMMA DeliveryHolds == Spec => []Delivery
BY DeliveryInit, DeliveryStep, PTL DEF Spec

-----------------------------------------------------------------------------
(* What is delivered *)

LEMMA Greatest ==
  ASSUME NEW S, NEW n \in S, n \in Nat, \A k \in S : k \in Nat /\ k <= n
  PROVE  Max(S) = n
<1>1. \E x \in S : \A y \in S : x >= y
  OBVIOUS
<1>2. Max(S) \in S /\ \A y \in S : Max(S) >= y
  BY <1>1 DEF Max
<1>3. Max(S) \in Nat /\ Max(S) <= n /\ Max(S) >= n
  BY <1>2
<1> QED
  BY <1>3

LEMMA CompleteIs ==
  ASSUME TypeOK, NEW c \in Client, NEW n \in 0 .. Len(script[c]), Begin(script[c], n) <= Consumed(c),
         n < Len(script[c]) => Consumed(c) < Begin(script[c], n + 1)
  PROVE  Complete(c) = n
<1> DEFINE ms == script[c]
           p  == Consumed(c)
           S  == {k \in 0 .. Len(ms) : Begin(ms, k) <= p}
<1>1. Complete(c) = Max(S)
  BY DEF Complete, Begin, First
<1>2. ms \in Seq(Message) /\ p \in Int /\ Len(ms) \in Nat
  BY Streams
<1>3. n \in S /\ n \in Nat
  <2>1. n \in 0 .. Len(ms) /\ Begin(ms, n) <= p
    OBVIOUS
  <2> HIDE DEF ms, p
  <2>2. n \in Nat
    BY <1>2, <2>1
  <2> QED
    BY <2>1, <2>2
<1>4. ASSUME NEW k \in S PROVE k \in Nat /\ k <= n
  <2>1. k \in 0 .. Len(ms) /\ k \in Nat /\ Begin(ms, k) <= p
    BY <1>2
  <2> SUFFICES ASSUME n < k PROVE FALSE
    BY <1>3, <2>1
  <2>2. n < Len(ms) /\ n + 1 \in 0 .. Len(ms) /\ k \in n + 1 .. Len(ms)
    BY <1>2, <1>3, <2>1
  <2>3. p < Begin(ms, n + 1)
    BY <2>2
  <2> HIDE DEF ms, p
  <2>4. Begin(ms, n + 1) <= Begin(ms, k)
    BY <1>2, <2>2, StreamParts
  <2>5. Begin(ms, n + 1) \in Nat /\ Begin(ms, k) \in Nat
    BY <1>2, <2>1, <2>2, StreamType
  <2> QED
    BY <1>2, <2>1, <2>3, <2>4, <2>5
<1> HIDE DEF S
<1>5. Max(S) = n
  BY <1>3, <1>4, Greatest
<1> QED
  BY <1>1, <1>5

\* Sizes of a sync, a header and a payload.
LEMMA Sums ==
  ASSUME NEW s \in Nat, s > 0, NEW h \in Nat, NEW l \in Nat, NEW x \in Nat
  PROVE  /\ 0 < s + h + l
         /\ x < s => x < s + h + l
         /\ x < h => s + x < s + h + l
         /\ x < l => s + h + x < s + h + l
OBVIOUS

LEMMA Regroup ==
  ASSUME NEW b \in Nat, NEW s \in Nat, NEW x \in Nat
  PROVE  s + x \in Nat /\ b + s + x = b + (s + x)
OBVIOUS

\* Between two messages, and in none of them, stands only a parser that saw all before.
LEMMA HeldBackNot == Delivery => NothingHeldBack
<1> SUFFICES ASSUME Delivery, NEW c \in Client, main = "loop", clientSocket = c
             PROVE  handled[c] = Requests(SubSeq(script[c], 1, Complete(c)))
  BY DEF NothingHeldBack
<1> DEFINE ms == script[c]
           p  == Consumed(c)
<1>1. TypeOK /\ Control /\ Parsing /\ clientSocket # None
  BY ClientAssumption DEF Delivery
<1>2. ms \in Seq(Message) /\ p \in Int /\ Len(ms) \in Nat
  BY <1>1, Streams
<1>3. Looked(c) = p
  <2>1. Len(data) = 0
    BY <1>1 DEF Control
  <2> HIDE DEF ms
  <2> QED
    BY <1>2, <2>1 DEF Looked
<1>4. PICK n \in 0 .. Len(ms) : handled[c] = Requests(First(ms, n)) /\ Within(ms, n, p)
  BY <1>1, <1>3, ParsingIs
<1> HIDE DEF ms, p
<1>5. n \in Nat /\ n \in 0 .. Len(ms) /\ Begin(ms, n) \in Nat
  BY <1>2, <1>4, StreamType
<1>6. syncAt \in Nat /\ syncAt < Len(Sync) /\ Len(Sync) \in Nat /\ HeaderLength \in Nat /\ Len(Sync) > 0
  BY <1>1, SyncIs, HeaderLengthIs DEF TypeOK
<1>7. ASSUME NEW k \in 0 .. Len(ms), Begin(ms, k) <= p, k < Len(ms) => p < Begin(ms, k + 1),
             handled[c] = Requests(First(ms, k))
      PROVE  handled[c] = Requests(SubSeq(script[c], 1, Complete(c)))
  <2>1. Complete(c) = k
    BY <1>1, <1>7, CompleteIs DEF ms, p
  <2> QED
    BY <1>7, <2>1 DEF ms, First
\* How far a message reaches.
<1>8. ASSUME NEW k \in Nat, k < Len(ms)
      PROVE  /\ Begin(ms, k) \in Nat /\ Begin(ms, k + 1) \in Nat /\ ms[k + 1].payload \in Seq(Nat)
             /\ Len(ms[k + 1].payload) \in Nat
             /\ Begin(ms, k + 1) = Begin(ms, k) + (Len(Sync) + HeaderLength + Len(ms[k + 1].payload))
  <2> DEFINE wire == Wire(ms[k + 1])
             size == Len(ms[k + 1].payload)
  <2>1. ms[k + 1] \in Message /\ Begin(ms, k) \in Nat /\ Begin(ms, k + 1) = Begin(ms, k) + Len(wire)
    BY <1>2, <1>8, MessageAt
  <2>2. Len(wire) = Len(Sync) + HeaderLength + size
    BY <2>1, WireIs
  <2>3. ms[k + 1].payload \in Seq(Nat)
    BY <2>1 DEF Message
  <2>4. size \in Nat
    BY <2>3
  <2> HIDE DEF wire, size
  <2>5. Begin(ms, k + 1) = Begin(ms, k) + (Len(Sync) + HeaderLength + size)
    BY <1>6, <2>1, <2>2, <2>4
  <2>6. Begin(ms, k + 1) \in Nat
    BY <1>6, <2>1, <2>4, <2>5
  <2> QED
    BY <2>1, <2>3, <2>4, <2>5, <2>6 DEF size
<1>9. Len(hbuf) \in Nat /\ Len(hbuf) < HeaderLength /\ Len(message.payload) \in Nat
  BY <1>1, Types
\* The parser is x bytes into message k + 1.
<1>10. ASSUME NEW k \in Nat, k <= Len(ms), NEW x \in Nat, p = Begin(ms, k) + x,
              k < Len(ms) => x < Len(Sync) + HeaderLength + Len(ms[k + 1].payload),
              handled[c] = Requests(First(ms, k))
       PROVE  handled[c] = Requests(SubSeq(script[c], 1, Complete(c)))
  <2> DEFINE b == Begin(ms, k)
             e == Begin(ms, k + 1)
             size == Len(ms[k + 1].payload)
  <2>1. k \in 0 .. Len(ms)
    BY <1>2, <1>10
  <2>2. b \in Nat
    BY <1>2, <2>1, StreamType
  <2>3. k < Len(ms) => size \in Nat /\ e = b + (Len(Sync) + HeaderLength + size) /\ x < Len(Sync) + HeaderLength + size
    BY <1>8, <1>10
  <2>4. p = b + x
    BY <1>10
  <2> HIDE DEF b, e, size
  <2>5. b <= p
    BY <1>10, <2>2, <2>4
  <2>6. ASSUME k < Len(ms) PROVE p < e
    <3>1. size \in Nat /\ e = b + (Len(Sync) + HeaderLength + size) /\ x < Len(Sync) + HeaderLength + size
      BY <2>3, <2>6
    <3>2. x \in Nat /\ Len(Sync) \in Nat /\ HeaderLength \in Nat
      BY <1>6, <1>10
    <3> QED
      BY <2>2, <2>4, <3>1, <3>2
  <2> QED
    BY <1>7, <1>10, <2>1, <2>5, <2>6 DEF b, e
<1>11. n <= Len(ms) /\ (n < Len(ms) => Len(ms[n + 1].payload) \in Nat)
  BY <1>2, <1>4, <1>5, <1>8
<1>12. CASE Searching(ms, n, p)
  <2>1. p = Begin(ms, n) + syncAt
    BY <1>12 DEF Searching
  <2>2. ASSUME n < Len(ms) PROVE syncAt < Len(Sync) + HeaderLength + Len(ms[n + 1].payload)
    <3>1. Len(ms[n + 1].payload) \in Nat
      BY <1>11, <2>2
    <3> QED
      BY <1>5, <1>6, <3>1, Sums, Zenon
  <2> QED
    BY <1>4, <1>5, <1>6, <1>10, <1>11, <2>1, <2>2
<1>13. CASE InHeader(ms, n, p)
  <2> DEFINE x == Len(Sync) + Len(hbuf)
  <2>1. n < Len(ms) /\ p = Begin(ms, n) + Len(Sync) + Len(hbuf)
    BY <1>13 DEF InHeader
  <2>2. Len(ms[n + 1].payload) \in Nat
    BY <1>11, <2>1
  <2>3. x \in Nat /\ p = Begin(ms, n) + x
    <3>1. /\ Begin(ms, n) \in Nat /\ Len(Sync) \in Nat /\ Len(hbuf) \in Nat
          /\ p = Begin(ms, n) + Len(Sync) + Len(hbuf)
      BY <1>5, <1>6, <1>9, <2>1
    <3> QED
      BY <3>1, Regroup, Zenon
  <2>4. x < Len(Sync) + HeaderLength + Len(ms[n + 1].payload)
    BY <1>5, <1>6, <1>9, <2>2, <2>1, Sums, Zenon
  <2> HIDE DEF x
  <2> QED
    BY <1>4, <1>5, <1>10, <1>11, <2>3, <2>4
<1>14. CASE InPayload(ms, n, p)
  <2> DEFINE x == Len(Sync) + HeaderLength + Len(message.payload)
  <2>1. /\ n < Len(ms) /\ Len(message.payload) < Len(ms[n + 1].payload)
        /\ p = Begin(ms, n) + Len(Sync) + HeaderLength + Len(message.payload)
    BY <1>14 DEF InPayload
  <2>2. Len(ms[n + 1].payload) \in Nat
    BY <1>11, <2>1
  <2>3. x \in Nat /\ p = Begin(ms, n) + x
    <3> DEFINE s == Len(Sync) + HeaderLength
    <3>1. s \in Nat /\ Begin(ms, n) + Len(Sync) + HeaderLength = Begin(ms, n) + s
      BY <1>5, <1>6, Regroup, Zenon
    <3>2. p = Begin(ms, n) + s + Len(message.payload)
      BY <2>1, <3>1, Zenon
    <3> HIDE DEF s
    <3>3. s + Len(message.payload) \in Nat /\ p = Begin(ms, n) + (s + Len(message.payload))
      BY <1>5, <1>9, <3>1, <3>2, Regroup, Zenon
    <3> QED
      BY <3>3 DEF s
  <2>4. x < Len(Sync) + HeaderLength + Len(ms[n + 1].payload)
    BY <1>5, <1>6, <1>9, <2>2, <2>1, Sums, Zenon
  <2> HIDE DEF x
  <2> QED
    BY <1>4, <1>5, <1>10, <1>11, <2>3, <2>4
<1>15. CASE Skipping(ms, n, p)
  <2>1. /\ n < Len(ms) /\ ~Accepted(ms[n + 1])
        /\ Begin(ms, n) + Len(Sync) + HeaderLength <= p /\ p <= Begin(ms, n + 1)
    BY <1>15 DEF Skipping
  <2>2. Begin(ms, n) <= p /\ Begin(ms, n + 1) \in Nat
    <3>1. Begin(ms, n + 1) \in Nat
      BY <1>5, <1>8, <2>1
    <3> DEFINE b == Begin(ms, n)
    <3>2. b \in Nat /\ b + Len(Sync) + HeaderLength <= p
      BY <1>5, <2>1
    <3> HIDE DEF b
    <3>3. b <= p
      BY <1>2, <1>6, <3>2
    <3> QED
      BY <3>1, <3>3 DEF b
  <2>3. CASE p < Begin(ms, n + 1)
    BY <1>4, <1>7, <2>2, <2>3
  <2>4. CASE p = Begin(ms, n + 1)
    <3>1. n + 1 <= Len(ms) /\ n + 1 \in Nat
      BY <1>2, <1>5, <2>1
    <3>2. handled[c] = Requests(First(ms, n + 1))
      BY <1>2, <1>4, <1>5, <2>1, RequestsNext DEF Acting
    <3>3. PICK k \in Nat : k = n + 1
      BY <3>1
    <3>4. k <= Len(ms) /\ handled[c] = Requests(First(ms, k)) /\ p = Begin(ms, k) /\ Begin(ms, k) \in Nat
      BY <2>2, <2>4, <3>1, <3>2, <3>3
    <3>5. p = Begin(ms, k) + 0
      BY <3>4
    <3>6. ASSUME k < Len(ms) PROVE 0 < Len(Sync) + HeaderLength + Len(ms[k + 1].payload)
      <4>1. Len(ms[k + 1].payload) \in Nat
        BY <1>8, <3>3, <3>6
      <4> QED
        BY <1>5, <1>6, <4>1, Sums, Zenon
    <3> QED
      BY <1>10, <3>3, <3>4, <3>5, <3>6
  <2> QED
    BY <1>2, <2>1, <2>2, <2>3, <2>4
<1> QED
  BY <1>1, <1>4, <1>12, <1>13, <1>14, <1>15 DEF Within

\* The server's variables, its parser's and those of its connections stay what the code declares
\* them to be, however the clients and the interrupt are interleaved with its steps; a header is
\* never longer than its buffer, nor a payload than its header announced (ProcessData).
THEOREM TypeCorrect == Spec => []TypeOK
BY DeliveryHolds, PTL DEF Delivery

\* For every sync, every script, every buffer and queue size and any number of clients: when the
\* server goes back to wait for its client, it has acted on exactly those of its messages that
\* have arrived completely and that it accepts, in order and with the payloads that were sent
\* (ProcessData).
THEOREM DeliveredAsSent == Spec => []NothingHeldBack
<1>1. Spec => []Delivery
  BY DeliveryHolds
<1>2. Delivery => NothingHeldBack
  BY HeldBackNot
<1> QED
  BY <1>1, <1>2, PTL
-----------------------------------------------------------------------------
(* The sessions *)

\* All but the message being answered have their answer, unless the client left.
Answering(c) == clientSocket = c /\ main = "reply"
Due(c)       == Len(handled[c]) = Len(replies[c]) + (IF Answering(c) THEN 1 ELSE 0)
LastType     == handled[clientSocket][Len(handled[clientSocket])].type
Answers ==
  /\ \A c \in Client : conn[c] # "gone" => Due(c)
  /\ main = "reply" => Len(handled[clientSocket]) > 0 /\ message.header.type = LastType
  /\ initialized <=> Promise!Initialized

LEMMA Histories ==
  ASSUME TypeOK, NEW c \in Client
  PROVE  /\ handled[c] \in Seq(Handled) /\ Len(handled[c]) \in Nat
         /\ replies[c] \in Seq([to: Nat, accepted: BOOLEAN]) /\ Len(replies[c]) \in Nat
         /\ handled \in [Client -> Seq(Handled)] /\ replies \in [Client -> Seq([to: Nat, accepted: BOOLEAN])]
<1>1. /\ handled \in [Client -> Seq(Handled)] /\ replies \in [Client -> Seq([to: Nat, accepted: BOOLEAN])]
  BY DEF TypeOK, Handled
<1>2. handled[c] \in Seq(Handled) /\ replies[c] \in Seq([to: Nat, accepted: BOOLEAN])
  BY <1>1
<1>3. Len(handled[c]) \in Nat /\ Len(replies[c]) \in Nat
  BY <1>2
<1> QED
  BY <1>1, <1>2, <1>3

LEMMA AnswersFrame ==
  ASSUME Answers, UNCHANGED <<handled, replies, initialized>>,
         (main # "reply" /\ main' # "reply") \/ UNCHANGED <<main, clientSocket, message>>,
         \A c \in Client : conn'[c] # "gone" => conn[c] # "gone"
  PROVE  Answers'
<1>1. \A c \in Client : Due(c)' <=> Due(c)
  BY DEF Due, Answering
<1>2. Promise!Initialized' <=> Promise!Initialized
  BY DEF Promise!Initialized
<1>3. main' = "reply" => main = "reply" /\ UNCHANGED <<clientSocket, message>>
  OBVIOUS
<1>4. main' = "reply" => LastType' = LastType
  BY <1>3 DEF LastType
<1> QED
  BY <1>1, <1>2, <1>3, <1>4 DEF Answers

\* ProcessData hands at most one message to the callback per step.
LEMMA Dispatches ==
  ASSUME MatchSync \/ ReadHeader \/ ReadPayload
  PROVE  (UNCHANGED <<handled, initialized>> /\ main' # "reply") \/ \E m, rest : Dispatch(m, rest)
<1>1. ASSUME NEW rest, Continue(rest) PROVE main' # "reply"
  BY <1>1 DEF Continue
<1>2. ASSUME NEW m, NEW rest, Await(m, rest) PROVE main' # "reply" /\ UNCHANGED <<handled, initialized>>
  BY <1>1, <1>2 DEF Await
<1>3. CASE MatchSync
  BY <1>1, <1>3 DEF MatchSync, historyVars
<1>4. CASE ReadHeader
  <2> DEFINE toCopy == Min({HeaderLength - Len(hbuf), Len(data)})
             read   == hbuf \o SubSeq(data, 1, toCopy)
             rest   == SubSeq(data, toCopy + 1, Len(data))
             m      == [header |-> Parsed(read), payload |-> <<>>]
  <2>1. (Continue(rest) /\ UNCHANGED <<handled, initialized>>) \/ HeaderRead(m, rest)
    BY <1>4 DEF ReadHeader
  <2> HIDE DEF m, rest
  <2>2. (Continue(rest) /\ UNCHANGED <<handled, initialized>>) \/ Await(m, rest) \/ Dispatch(m, rest)
    BY <2>1 DEF HeaderRead
  <2> QED
    BY <1>1, <1>2, <2>2
<1>5. CASE ReadPayload
  <2> DEFINE toCopy == Min({message.header.pLen - Len(message.payload), Len(data)})
             m      == [message EXCEPT !.payload = @ \o SubSeq(data, 1, toCopy)]
             rest   == SubSeq(data, toCopy + 1, Len(data))
  <2>1. Await(m, rest) \/ Dispatch(m, rest)
    BY <1>5, Zenon DEF ReadPayload
  <2> HIDE DEF m, rest
  <2> QED
    BY <1>2, <2>1
<1> QED
  BY <1>3, <1>4, <1>5

\* What the callback adds to the history.
LEMMA DispatchMeans ==
  ASSUME TypeOK, TypeOK', NEW c \in Client, c = clientSocket, NEW m, NEW rest, Dispatch(m, rest)
  PROVE  \E a \in Handled :
           /\ handled' = [handled EXCEPT ![c] = Append(handled[c], a)]
           /\ handled'[c] = Append(handled[c], a) /\ \A d \in Client : d # c => handled'[d] = handled[d]
           /\ Len(handled'[c]) = Len(handled[c]) + 1 /\ handled'[c][Len(handled[c]) + 1] = a
           /\ \A k \in 1 .. Len(handled[c]) : handled'[c][k] = handled[c][k]
           /\ message'.header.type = a.type /\ main' = "reply"
           /\ initialized' = (initialized \/ a.type = Initialize)
<1> DEFINE a == [type |-> m.header.type, payload |-> m.payload]
<1>1. message' = m /\ main' = "reply" /\ initialized' = (initialized \/ m.header.type = Initialize)
      /\ handled' = [handled EXCEPT ![c] = Append(handled[c], a)]
  BY Zenon DEF Dispatch
<1>2. a \in Handled
  <2>1. message' \in [header: [rev: Nat, type: Nat, pLen: 0 .. MaxPayload], payload: Seq(Nat)]
    BY DEF TypeOK
  <2>2. message'.header.type \in Nat /\ message'.payload \in Seq(Nat)
    BY <2>1
  <2> QED
    BY <1>1, <2>2 DEF Handled
<1>3. a.type = m.header.type
  OBVIOUS
<1> HIDE DEF a
<1>4. handled[c] \in Seq(Handled) /\ handled \in [Client -> Seq(Handled)] /\ Len(handled[c]) \in Nat
  BY Histories
<1>5. handled'[c] = Append(handled[c], a) /\ \A d \in Client : d # c => handled'[d] = handled[d]
  BY <1>1, <1>4
<1>6. /\ Len(Append(handled[c], a)) = Len(handled[c]) + 1 /\ Append(handled[c], a)[Len(handled[c]) + 1] = a
      /\ \A k \in 1 .. Len(handled[c]) : Append(handled[c], a)[k] = handled[c][k]
  BY <1>2, <1>4
<1> QED
  BY <1>1, <1>2, <1>3, <1>5, <1>6

LEMMA DispatchAnswers ==
  ASSUME TypeOK, TypeOK', Answers, NEW c \in Client, c = clientSocket, clientSocket' = c, main = "parse",
         UNCHANGED <<conn, replies>>, NEW m, NEW rest, Dispatch(m, rest)
  PROVE  Answers'
<1>1. PICK a \in Handled :
           /\ handled' = [handled EXCEPT ![c] = Append(handled[c], a)]
           /\ handled'[c] = Append(handled[c], a) /\ \A d \in Client : d # c => handled'[d] = handled[d]
           /\ Len(handled'[c]) = Len(handled[c]) + 1 /\ handled'[c][Len(handled[c]) + 1] = a
           /\ \A k \in 1 .. Len(handled[c]) : handled'[c][k] = handled[c][k]
           /\ message'.header.type = a.type /\ main' = "reply"
           /\ initialized' = (initialized \/ a.type = Initialize)
  BY DispatchMeans
<1>2. \A d \in Client : /\ handled[d] \in Seq(Handled) /\ Len(handled[d]) \in Nat /\ Len(replies[d]) \in Nat
                        /\ handled'[d] \in Seq(Handled) /\ Len(handled'[d]) \in Nat
  <2>1. handled' \in [Client -> Seq(Handled)]
    BY DEF TypeOK, Handled
  <2>2. \A d \in Client : handled'[d] \in Seq(Handled)
    BY <2>1
  <2>3. \A d \in Client : Len(handled'[d]) \in Nat
    BY <2>2
  <2> QED
    BY <2>2, <2>3, Histories
<1>3. ASSUME NEW d \in Client, conn'[d] # "gone" PROVE Due(d)'
  <2>1. Len(handled[d]) = Len(replies[d])
    BY <1>2, <1>3 DEF Answers, Due, Answering
  <2>2. CASE d = c
    BY <1>1, <1>2, <2>1, <2>2 DEF Due, Answering
  <2>3. CASE d # c
    <3>1. ~Answering(d)' /\ handled'[d] = handled[d] /\ replies'[d] = replies[d]
      BY <1>1, <2>3 DEF Answering
    <3> QED
      BY <1>2, <2>1, <3>1 DEF Due
  <2> QED
    BY <2>2, <2>3
<1>4. Len(handled'[c]) > 0 /\ message'.header.type = LastType'
  BY <1>1, <1>2 DEF LastType
<1>5. initialized' <=> Promise!Initialized'
  <2>1. DOMAIN handled'[c] = 1 .. Len(handled[c]) + 1 /\ DOMAIN handled[c] = 1 .. Len(handled[c])
        /\ Len(handled[c]) + 1 \in 1 .. Len(handled[c]) + 1
    BY <1>1, <1>2
  <2>2. \A k \in 1 .. Len(handled[c]) + 1 : k \in 1 .. Len(handled[c]) \/ k = Len(handled[c]) + 1
    BY <1>2
  <2>3. \A k \in 1 .. Len(handled[c]) : k \in 1 .. Len(handled[c]) + 1
    BY <1>2
  <2>4. ASSUME Promise!Initialized PROVE Promise!Initialized'
    <3>0. PICK d \in Client : \E k \in DOMAIN handled[d] : handled[d][k].type = Initialize
      BY <2>4 DEF Promise!Initialized
    <3>1. PICK k \in DOMAIN handled[d] : handled[d][k].type = Initialize
      BY <3>0
    <3>2. k \in DOMAIN handled'[d] /\ handled'[d][k].type = Initialize
      BY <1>1, <2>1, <2>3, <3>1
    <3> QED
      BY <3>2 DEF Promise!Initialized
  <2>5. ASSUME a.type = Initialize PROVE Promise!Initialized'
    BY <1>1, <2>1, <2>5 DEF Promise!Initialized
  <2>6. ASSUME Promise!Initialized' PROVE Promise!Initialized \/ a.type = Initialize
    <3>0. PICK d \in Client : \E k \in DOMAIN handled'[d] : handled'[d][k].type = Initialize
      BY <2>6 DEF Promise!Initialized
    <3>1. PICK k \in DOMAIN handled'[d] : handled'[d][k].type = Initialize
      BY <3>0
    <3>2. CASE d # c
      BY <1>1, <3>1, <3>2 DEF Promise!Initialized
    <3>3. CASE d = c /\ k \in 1 .. Len(handled[c])
      BY <1>1, <2>1, <3>1, <3>3 DEF Promise!Initialized
    <3>4. CASE d = c /\ k = Len(handled[c]) + 1
      BY <1>1, <3>1, <3>4
    <3> QED
      BY <2>1, <2>2, <3>1, <3>2, <3>3, <3>4
  <2> QED
    BY <1>1, <2>4, <2>5, <2>6 DEF Answers
<1> QED
  BY <1>1, <1>3, <1>4, <1>5 DEF Answers

\* What Send does: an answer of the type of the request, or none because the client is gone.
LEMMA ReplyMeans ==
  ASSUME TypeOK, Control, Reply
  PROVE  /\ main = "reply" /\ main' \in {"loop", "parse"} /\ clientSocket \in Client
         /\ UNCHANGED <<script, handled, initialized, conn, clientSocket, backlog>>
         /\ \/ conn[clientSocket] = "gone" /\ UNCHANGED replies
            \/ /\ conn[clientSocket] = "open"
               /\ replies' = [replies EXCEPT ![clientSocket] =
                    Append(replies[clientSocket], [to |-> message.header.type, accepted |-> initialized])]
               /\ Len(replies'[clientSocket]) = Len(replies[clientSocket]) + 1
               /\ \A d \in Client : d # clientSocket => replies'[d] = replies[d]
<1>1. main = "reply" /\ main' \in {"loop", "parse"}
      /\ UNCHANGED <<script, handled, initialized, conn, clientSocket, backlog>>
  BY DEF Reply, Continue, clientVars
<1>2. clientSocket \in Client
  BY <1>1 DEF TypeOK, Control
<1>3. CASE conn[clientSocket] = "gone"
  BY <1>1, <1>2, <1>3 DEF Reply
<1>4. CASE conn[clientSocket] # "gone"
  <2> DEFINE a == [to |-> message.header.type, accepted |-> initialized]
             q == replies[clientSocket]
  <2>1. conn[clientSocket] = "open" /\ replies' = [replies EXCEPT ![clientSocket] = Append(q, a)]
    BY <1>4 DEF Reply
  <2>2. message.header \in [rev: Nat, type: Nat, pLen: 0 .. MaxPayload] /\ initialized \in BOOLEAN
    BY Types DEF TypeOK
  <2>3. a \in [to: Nat, accepted: BOOLEAN]
    BY <2>2
  <2> HIDE DEF a
  <2>4. q \in Seq([to: Nat, accepted: BOOLEAN]) /\ replies \in [Client -> Seq([to: Nat, accepted: BOOLEAN])]
    BY <1>2, Histories
  <2>5. Len(Append(q, a)) = Len(q) + 1
    BY <2>3, <2>4
  <2>6. replies'[clientSocket] = Append(q, a) /\ \A d \in Client : d # clientSocket => replies'[d] = replies[d]
    BY <1>2, <2>1, <2>4
  <2> QED
    BY <1>1, <1>2, <2>1, <2>5, <2>6 DEF a
<1> QED
  BY <1>3, <1>4

LEMMA ReplyAnswers == ASSUME TypeOK, Control, Answers, Reply PROVE Answers'
<1>1. /\ main = "reply" /\ main' \in {"loop", "parse"} /\ clientSocket \in Client
      /\ UNCHANGED <<script, handled, initialized, conn, clientSocket, backlog>>
  BY ReplyMeans
<1>2. ASSUME NEW d \in Client, conn'[d] # "gone" PROVE Due(d)'
  <2>1. Due(d) /\ Len(replies[d]) \in Nat /\ Len(handled[d]) \in Nat
    BY <1>1, <1>2, Histories DEF Answers
  <2>2. CASE d = clientSocket
    <3>1. Len(replies'[d]) = Len(replies[d]) + 1
      BY <1>1, <1>2, <2>2, ReplyMeans
    <3>2. Len(handled'[d]) = Len(replies[d]) + 1
      BY <1>1, <2>1, <2>2 DEF Due, Answering
    <3>3. ~Answering(d)'
      BY <1>1 DEF Answering
    <3> QED
      BY <2>1, <3>1, <3>2, <3>3 DEF Due
  <2>3. CASE d # clientSocket
    <3>1. replies'[d] = replies[d]
      BY <2>3, ReplyMeans
    <3>2. ~Answering(d) /\ ~Answering(d)'
      BY <1>1, <2>3 DEF Answering
    <3> QED
      BY <1>1, <2>1, <3>1, <3>2 DEF Due
  <2> QED
    BY <2>2, <2>3
<1>3. Promise!Initialized' <=> Promise!Initialized
  BY <1>1 DEF Promise!Initialized
<1> QED
  BY <1>1, <1>2, <1>3 DEF Answers

LEMMA AnswersStep == ASSUME TypeOK, TypeOK', Control, Answers, Next PROVE Answers'
<1>1. CASE Reply
  BY <1>1, ReplyAnswers
<1>2. CASE MatchSync \/ ReadHeader \/ ReadPayload
  <2>1. main = "parse" /\ clientSocket \in Client /\ UNCHANGED <<clientSocket, conn, replies>>
    BY <1>2, ParserLeaves DEF clientVars
  <2>2. CASE UNCHANGED <<handled, initialized>> /\ main' # "reply"
    BY <2>1, <2>2, AnswersFrame
  <2>3. CASE \E m, rest : Dispatch(m, rest)
    BY <2>1, <2>3, DispatchAnswers
  <2> QED
    BY <1>2, <2>2, <2>3, Dispatches
<1>3. CASE CloseBroken \/ Accept \/ Read \/ ReadEnd \/ Stop
  <2>1. UNCHANGED <<handled, replies, initialized, conn>> /\ main # "reply" /\ main' # "reply"
    BY <1>3 DEF CloseBroken, Accept, Read, ReadEnd, Stop, Looping, clientVars, historyVars
  <2> QED
    BY <2>1, AnswersFrame
<1>4. CASE Interrupt
  BY <1>4, AnswersFrame DEF Interrupt, serverVars, parserVars, clientVars, historyVars
<1>5. ASSUME NEW c \in Client, Write(c) \/ Receive(c) PROVE Answers'
  BY <1>5, AnswersFrame DEF Write, Receive, serverVars, parserVars, clientVars, historyVars
<1>6. ASSUME NEW c \in Client, Connect(c) \/ Leave(c) PROVE Answers'
  <2>1. UNCHANGED <<handled, replies, initialized, main, clientSocket, message>>
    BY <1>6 DEF Connect, Leave, serverVars, parserVars, historyVars
  <2>2. \A d \in Client : conn'[d] # "gone" => conn[d] # "gone"
    BY <1>6 DEF Connect, Leave, TypeOK
  <2> QED
    BY <2>1, <2>2, AnswersFrame
<1> QED
  BY <1>1, <1>2, <1>3, <1>4, <1>5, <1>6 DEF Next, Server

\* What the abstract specification sees.
Requested == [c \in Client |-> Requests(script[c])]
Statuses  == [c \in Client |-> Status(c)]
Departed  == {c \in Client : conn[c] = "gone"}

\* No client is counted twice.
LEMMA StatusIs ==
  ASSUME Queue, NEW c \in Client
  PROVE  /\ conn[c] = "new" => Status(c) = "new" /\ clientSocket # c /\ c \notin Range(backlog)
         /\ clientSocket = c => Status(c) = "served" /\ conn[c] # "new" /\ c \notin Range(backlog)
         /\ c \in Range(backlog) => Status(c) = "waiting" /\ conn[c] # "new" /\ clientSocket # c
         /\ conn[c] # "new" /\ clientSocket # c /\ c \notin Range(backlog) => Status(c) = "over"
<1>1. c # None
  BY ClientAssumption
<1>2. clientSocket = c => conn[c] # "new" /\ c \notin Range(backlog)
  BY <1>1 DEF Queue
<1>3. c \in Range(backlog) => conn[c] # "new"
  BY InRange DEF Queue
<1>4. CASE conn[c] = "new"
  BY <1>2, <1>3, <1>4 DEF Status
<1>5. CASE clientSocket = c
  BY <1>2, <1>3, <1>5 DEF Status
<1>6. CASE c \in Range(backlog)
  BY <1>2, <1>3, <1>6 DEF Status
<1>7. CASE conn[c] # "new" /\ clientSocket # c /\ c \notin Range(backlog)
  BY <1>7 DEF Status
<1> QED
  BY <1>2, <1>3, <1>4, <1>5, <1>6, <1>7

LEMMA Quiet ==
  ASSUME UNCHANGED <<script, handled, replies, conn, clientSocket, backlog>>, (main' = "exited") = (main = "exited")
  PROVE  UNCHANGED Promise!vars
<1>1. Requested' = Requested
  BY DEF Requested
<1>2. Statuses' = Statuses /\ Departed' = Departed
  BY DEF Statuses, Status, Departed
<1> QED
  BY <1>1, <1>2 DEF Promise!vars, Requested, Statuses, Departed

LEMMA SessionInit == Init => Promise!Init
<1> SUFFICES ASSUME Init PROVE Promise!Init
  OBVIOUS
<1>1. Requested \in [Client -> Seq([type: Nat, payload: Seq(Nat)])]
  <2> SUFFICES ASSUME NEW c \in Client PROVE Requests(script[c]) \in Seq(Handled)
    BY DEF Requested, Handled
  <2>1. script[c] \in Seq(Message)
    BY InitTypes, Streams
  <2>2. Len(script[c]) \in 0 .. Len(script[c]) /\ First(script[c], Len(script[c])) = script[c]
    BY <2>1, FirstIs
  <2>3. Requests(script[c]) \in Seq(Action)
    BY <2>1, <2>2, RequestsType
  <2>4. Action \subseteq Handled
    BY DEF Action, Handled
  <2> QED
    BY <2>3, <2>4
<1>2. Statuses = [c \in Client |-> "new"] /\ Departed = {}
  <2>1. \A c \in Client : conn[c] = "new"
    BY DEF Init
  <2>2. \A c \in Client : Status(c) = "new"
    BY <2>1, InitControl, StatusIs
  <2> QED
    BY <2>1, <2>2 DEF Statuses, Departed
<1>3. (main = "exited") = FALSE /\ handled = [c \in Client |-> <<>>] /\ replies = [c \in Client |-> <<>>]
  BY DEF Init
<1> QED
  BY <1>1, <1>2, <1>3 DEF Promise!Init, Requested, Statuses, Departed

\* A session ends: its client has left.
LEMMA EndSimulates ==
  ASSUME TypeOK, Control, Queue, CloseBroken \/ ReadEnd
  PROVE  Promise!Next
<1>1. /\ clientSocket \in Client /\ clientSocket # None /\ conn[clientSocket] = "gone" /\ clientSocket' = None
      /\ UNCHANGED <<script, handled, replies, conn, backlog, main>> /\ main = "loop"
  BY DEF TypeOK, Control, CloseBroken, ReadEnd, AfterEnd, Looping, clientVars, historyVars
<1>2. PICK c \in Client : c = clientSocket
  BY <1>1
<1>3. c # None /\ c \notin Range(backlog) /\ c \in Departed
  BY <1>1, <1>2 DEF Queue, Departed
<1>4. Statuses[c] = "served"
  BY <1>1, <1>2, StatusIs DEF Statuses
<1>5. Statuses' = [Statuses EXCEPT ![c] = "over"]
  <2>1. Status(c)' = "over"
    <3>1. clientSocket' # c /\ c \notin Range(backlog)' /\ conn'[c] # "new"
      BY <1>1, <1>2, <1>3, StatusIs
    <3> QED
      BY <3>1 DEF Status
  <2>2. ASSUME NEW d \in Client, d # c PROVE Status(d)' = Status(d)
    <3>1. clientSocket' # d /\ clientSocket # d
      BY <1>1, <1>2, <2>2, ClientAssumption
    <3> QED
      BY <1>1, <3>1, StatusIs DEF Status
  <2> QED
    BY <2>1, <2>2 DEF Statuses
<1>6. Requested' = Requested /\ Departed' = Departed
  BY <1>1 DEF Requested, Departed
<1>7. Promise!End(c)
  BY <1>1, <1>3, <1>4, <1>5, <1>6 DEF Promise!End, Requested, Statuses, Departed
<1> QED
  BY <1>7 DEF Promise!Next

\* A session begins with the client that waits longest.
LEMMA AcceptSimulates ==
  ASSUME TypeOK, Control, Queue, Accept
  PROVE  Promise!Next
<1>1. /\ clientSocket = None /\ backlog # <<>> /\ clientSocket' = Head(backlog) /\ backlog' = Tail(backlog)
      /\ UNCHANGED <<script, handled, replies, conn, main>> /\ main = "loop" /\ backlog \in Seq(Client)
  BY DEF TypeOK, Accept, Looping, clientVars, historyVars
<1>2. PICK c \in Client : c = clientSocket'
  BY <1>1
<1>3. /\ 1 \in DOMAIN backlog /\ backlog[1] = c
      /\ \A i \in DOMAIN backlog' : i + 1 \in DOMAIN backlog /\ backlog'[i] = backlog[i + 1]
      /\ \A i \in DOMAIN backlog : i = 1 \/ (i - 1 \in DOMAIN backlog' /\ backlog'[i - 1] = backlog[i])
  BY <1>1, <1>2
<1>4. conn[c] # "new" /\ c \in Range(backlog) /\ clientSocket # c
  BY <1>1, <1>3, InRange, ClientAssumption DEF Queue
<1>5. Statuses[c] = "waiting"
  BY <1>4, StatusIs DEF Statuses
<1>6. \A d \in Client : Statuses[d] # "served"
  <2> SUFFICES ASSUME NEW d \in Client PROVE Status(d) # "served"
    BY DEF Statuses
  <2>1. clientSocket # d
    BY <1>1, ClientAssumption
  <2> QED
    BY <2>1, StatusIs
<1>7. Statuses' = [Statuses EXCEPT ![c] = "served"]
  <2>1. Status(c)' = "served"
    <3>1. clientSocket' = c /\ conn'[c] # "new" /\ c \notin Range(backlog)'
      BY <1>1, <1>2, <1>4, QueueStep DEF Queue, Next, Server
    <3> QED
      BY <3>1 DEF Status
  <2>2. ASSUME NEW d \in Client, d # c PROVE Status(d)' = Status(d)
    <3>1. clientSocket' # d /\ clientSocket # d
      BY <1>1, <1>2, <2>2, ClientAssumption
    <3>2. d \in Range(backlog') <=> d \in Range(backlog)
      BY <1>3, <2>2, InRange
    <3> QED
      BY <1>1, <3>1, <3>2, StatusIs DEF Status
  <2> QED
    BY <2>1, <2>2 DEF Statuses
<1>8. Requested' = Requested /\ Departed' = Departed
  BY <1>1 DEF Requested, Departed
<1>9. Promise!Begin(c)
  BY <1>1, <1>5, <1>6, <1>7, <1>8 DEF Promise!Begin, Requested, Statuses, Departed
<1> QED
  BY <1>9 DEF Promise!Next

\* The server stops when it has answered what it handled.
LEMMA StopSimulates ==
  ASSUME TypeOK, Control, Queue, Answers, Stop
  PROVE  Promise!Next
<1>1. /\ main = "loop" /\ main' = "exited" /\ clientSocket' = None /\ backlog' = <<>>
      /\ UNCHANGED <<script, handled, replies, conn>>
  BY DEF Stop, clientVars, historyVars
<1>2. \A c \in Client : Len(replies[c]) = Len(handled[c]) \/ c \in Departed
  <2> SUFFICES ASSUME NEW c \in Client, c \notin Departed PROVE Len(replies[c]) = Len(handled[c])
    OBVIOUS
  <2>1. Due(c) /\ Len(replies[c]) \in Nat
    BY Histories DEF Answers, Departed
  <2> QED
    BY <1>1, <2>1 DEF Due, Answering
<1>3. Statuses' = [c \in Client |-> IF Statuses[c] = "new" THEN "new" ELSE "over"]
  <2> SUFFICES ASSUME NEW c \in Client PROVE Status(c)' = IF Status(c) = "new" THEN "new" ELSE "over"
    BY DEF Statuses
  <2>1. clientSocket' # c /\ c \notin Range(backlog')
    BY <1>1, ClientAssumption, InRange
  <2>2. CASE conn[c] = "new"
    BY <1>1, <2>1, <2>2, StatusIs DEF Status
  <2>3. CASE conn[c] # "new"
    <3>1. Status(c) # "new"
      BY <2>3, StatusIs
    <3>2. Status(c)' = "over"
      BY <1>1, <2>1, <2>3 DEF Status
    <3> QED
      BY <3>1, <3>2
  <2> QED
    BY <2>2, <2>3
<1>4. Requested' = Requested /\ Departed' = Departed
  BY <1>1 DEF Requested, Departed
<1>5. Promise!Stop
  BY <1>1, <1>2, <1>3, <1>4 DEF Promise!Stop, Promise!Answered, Requested, Statuses, Departed
<1> QED
  BY <1>5 DEF Promise!Next

\* A message handed to the callback is the client's next request.
LEMMA DispatchSimulates ==
  ASSUME TypeOK, TypeOK', Control, Queue, Answers, Parsing', MatchSync \/ ReadHeader \/ ReadPayload,
         NEW m, NEW rest, Dispatch(m, rest)
  PROVE  Promise!Next
<1>1. /\ main = "parse" /\ clientSocket \in Client
      /\ UNCHANGED <<clientSocket, conn, replies, script, backlog>>
  BY ParserLeaves DEF clientVars
<1>2. PICK c \in Client : c = clientSocket
  BY <1>1
<1>3. PICK a \in Handled :
           /\ handled' = [handled EXCEPT ![c] = Append(handled[c], a)]
           /\ handled'[c] = Append(handled[c], a) /\ \A d \in Client : d # c => handled'[d] = handled[d]
           /\ Len(handled'[c]) = Len(handled[c]) + 1 /\ handled'[c][Len(handled[c]) + 1] = a
           /\ \A k \in 1 .. Len(handled[c]) : handled'[c][k] = handled[c][k]
           /\ message'.header.type = a.type /\ main' = "reply"
           /\ initialized' = (initialized \/ a.type = Initialize)
  BY <1>2, DispatchMeans
<1>4. conn[c] # "new" /\ c # None
  BY <1>1, <1>2, ClientAssumption DEF Queue
<1>5. Statuses[c] = "served"
  BY <1>2, StatusIs DEF Statuses
<1>6. Requested' = Requested /\ Departed' = Departed /\ Statuses' = Statuses
  BY <1>1 DEF Requested, Departed, Statuses, Status
<1>7. handled[c] \in Seq(Handled) /\ Len(handled[c]) \in Nat /\ Len(replies[c]) \in Nat
  BY Histories
<1>8. Len(replies[c]) = Len(handled[c]) \/ c \in Departed
  BY <1>1, <1>7 DEF Answers, Due, Answering, Departed
<1>9. Slice(handled'[c], Requests(script[c]), 0)
  <2>1. script'[c] \in Seq(Message) /\ script'[c] = script[c]
    BY <1>1, Streams
  <2>2. PICK n \in 0 .. Len(script[c]) : handled'[c] = Requests(First(script[c], n))
    BY <1>1, <1>2, <1>4, <2>1 DEF Parsing
  <2> QED
    BY <2>1, <2>2, RequestsParts
<1>10. Len(handled[c]) < Len(Requests(script[c])) /\ a = Requests(script[c])[Len(handled[c]) + 1]
  <2> DEFINE r == Requests(script[c])
             l == Len(handled[c])
  <2>1. script[c] \in Seq(Message)
    BY Streams
  <2>2. Len(script[c]) \in 0 .. Len(script[c]) /\ First(script[c], Len(script[c])) = script[c]
    BY <2>1, FirstIs
  <2>3. r \in Seq(Action)
    BY <2>1, <2>2, RequestsType
  <2>4. Len(r) \in Nat
    BY <2>3
  <2>5. l + 1 \in DOMAIN handled'[c]
    <3>1. handled'[c] \in Seq(Handled)
      BY <1>3, <1>7, Appended
    <3> QED
      BY <1>3, <1>7, <3>1
  <2>6. handled'[c][l + 1] = a /\ Len(handled'[c]) = l + 1 /\ l \in Nat
    BY <1>3, <1>7
  <2> HIDE DEF r, l
  <2>7. 0 + Len(handled'[c]) <= Len(r) /\ \A k \in DOMAIN handled'[c] : handled'[c][k] = r[0 + k]
    BY <1>9 DEF Slice, r
  <2>8. l < Len(r)
    BY <2>4, <2>6, <2>7
  <2>9. a = r[0 + (l + 1)] /\ 0 + (l + 1) = l + 1
    BY <2>5, <2>6, <2>7
  <2> QED
    BY <2>8, <2>9 DEF r, l
<1>11. (main' = "exited") = (main = "exited")
  BY <1>1, <1>3
<1>12. Promise!Handle(c)
  BY <1>1, <1>3, <1>5, <1>6, <1>8, <1>10, <1>11
  DEF Promise!Handle, Promise!Answered, Requested, Statuses, Departed
<1> QED
  BY <1>12 DEF Promise!Next

\* An answer that is sent goes to the request that waits for it.
LEMMA ReplySimulates ==
  ASSUME TypeOK, Control, Queue, Answers, Reply
  PROVE  Promise!Next \/ UNCHANGED Promise!vars
<1>1. /\ main = "reply" /\ main' \in {"loop", "parse"} /\ clientSocket \in Client
      /\ UNCHANGED <<script, handled, initialized, conn, clientSocket, backlog>>
  BY ReplyMeans
<1>2. CASE UNCHANGED replies
  BY <1>1, <1>2, Quiet
<1>3. CASE conn[clientSocket] = "open"
           /\ replies' = [replies EXCEPT ![clientSocket] =
                Append(replies[clientSocket], [to |-> message.header.type, accepted |-> initialized])]
  <2>1. PICK c \in Client : c = clientSocket
    BY <1>1
  <2>2. Statuses[c] = "served" /\ c \notin Departed
    BY <1>3, <2>1, StatusIs DEF Statuses, Departed
  <2>3. Requested' = Requested /\ Departed' = Departed /\ Statuses' = Statuses
    BY <1>1 DEF Requested, Departed, Statuses, Status
  <2>4. Len(handled[c]) = Len(replies[c]) + 1 /\ Len(replies[c]) \in Nat
    BY <1>1, <1>3, <2>1, Histories DEF Answers, Due, Answering
  <2>5. Len(replies[c]) # Len(handled[c])
    BY <2>4
  <2>6. message.header.type = handled[c][Len(replies[c]) + 1].type /\ (initialized = Promise!Initialized)
    <3>1. message.header.type = handled[c][Len(replies[c]) + 1].type
      BY <1>1, <2>1, <2>4 DEF Answers, LastType
    <3>2. (initialized <=> Promise!Initialized) /\ initialized \in BOOLEAN
      BY DEF Answers, TypeOK
    <3> QED
      BY <3>1, <3>2 DEF Promise!Initialized
  <2>7. replies' = [replies EXCEPT ![c] = Append(@, [to |-> handled[c][Len(@) + 1].type, accepted |-> Promise!Initialized])]
    BY <1>3, <2>1, <2>6
  <2>8. (main' = "exited") = (main = "exited")
    BY <1>1
  <2>9. Promise!Answer(c)
    BY <1>1, <2>2, <2>3, <2>5, <2>7, <2>8 DEF Promise!Answer, Promise!Answered, Requested, Statuses, Departed
  <2> QED
    BY <2>9 DEF Promise!Next
<1> QED
  BY <1>2, <1>3, ReplyMeans

\* A client appears.
LEMMA ConnectSimulates ==
  ASSUME TypeOK, Control, Queue, NEW c \in Client, Connect(c)
  PROVE  Promise!Next
<1>1. /\ conn[c] = "new" /\ conn' = [conn EXCEPT ![c] = "open"] /\ backlog' = Append(backlog, c) /\ main # "exited"
      /\ UNCHANGED <<script, handled, replies, clientSocket, main>>
      /\ conn \in [Client -> {"new", "open", "gone"}] /\ backlog \in Seq(Client)
  BY DEF TypeOK, Control, Connect, serverVars, historyVars
<1>2. conn'[c] = "open" /\ \A d \in Client : d # c => conn'[d] = conn[d]
  BY <1>1
<1>3. \A d : d \in Range(backlog') <=> d \in Range(backlog) \/ d = c
  <2>1. /\ Len(backlog) + 1 \in DOMAIN backlog' /\ backlog'[Len(backlog) + 1] = c
        /\ \A i \in DOMAIN backlog : i \in DOMAIN backlog' /\ backlog'[i] = backlog[i]
        /\ \A i \in DOMAIN backlog' : i \in DOMAIN backlog \/ i = Len(backlog) + 1
    BY <1>1
  <2> QED
    BY <2>1, InRange
<1>4. Statuses[c] = "new" /\ clientSocket # c
  BY <1>1, StatusIs DEF Statuses
<1>5. Statuses' = [Statuses EXCEPT ![c] = "waiting"]
  <2>1. Status(c)' = "waiting"
    <3>1. conn'[c] # "new" /\ clientSocket' # c /\ c \in Range(backlog)'
      BY <1>1, <1>2, <1>3, <1>4
    <3> QED
      BY <3>1 DEF Status
  <2>2. ASSUME NEW d \in Client, d # c PROVE Status(d)' = Status(d)
    <3>1. conn'[d] = conn[d] /\ clientSocket' = clientSocket /\ (d \in Range(backlog') <=> d \in Range(backlog))
      BY <1>1, <1>2, <1>3, <2>2
    <3> QED
      BY <3>1 DEF Status
  <2> QED
    BY <2>1, <2>2 DEF Statuses
<1>6. Requested' = Requested /\ Departed' = Departed
  <2>1. \A d \in Client : conn'[d] = "gone" <=> conn[d] = "gone"
    BY <1>1, <1>2
  <2> QED
    BY <1>1, <2>1 DEF Requested, Departed
<1>7. Promise!Arrive(c)
  BY <1>1, <1>4, <1>5, <1>6 DEF Promise!Arrive, Requested, Statuses, Departed
<1> QED
  BY <1>7 DEF Promise!Next

\* A client leaves.
LEMMA LeaveSimulates ==
  ASSUME TypeOK, Control, Queue, NEW c \in Client, Leave(c)
  PROVE  Promise!Next
<1>1. /\ conn[c] = "open" /\ conn' = [conn EXCEPT ![c] = "gone"]
      /\ UNCHANGED <<script, handled, replies, clientSocket, main, backlog>>
      /\ conn \in [Client -> {"new", "open", "gone"}]
  BY DEF TypeOK, Leave, serverVars, historyVars
<1>2. conn'[c] = "gone" /\ \A d \in Client : d # c => conn'[d] = conn[d]
  BY <1>1
<1>3. Statuses[c] # "new" /\ c \notin Departed
  BY <1>1, StatusIs DEF Statuses, Departed
<1>4. Statuses' = Statuses
  <2> SUFFICES ASSUME NEW d \in Client PROVE Status(d)' = Status(d)
    BY DEF Statuses
  <2>1. conn'[d] = "new" <=> conn[d] = "new"
    BY <1>1, <1>2
  <2> QED
    BY <1>1, <2>1 DEF Status
<1>5. Requested' = Requested /\ Departed' = Departed \union {c}
  BY <1>1, <1>2 DEF Requested, Departed
<1>6. Promise!Leave(c)
  BY <1>1, <1>3, <1>4, <1>5 DEF Promise!Leave, Requested, Statuses, Departed
<1> QED
  BY <1>6 DEF Promise!Next

LEMMA SessionStep ==
  ASSUME Delivery, Delivery', Answers, [Next]_vars
  PROVE  [Promise!Next]_Promise!vars
<1> SUFFICES Promise!Next \/ UNCHANGED Promise!vars
  OBVIOUS
<1>1. TypeOK /\ TypeOK' /\ Control /\ Queue /\ Parsing'
  BY DEF Delivery
<1>2. CASE CloseBroken \/ ReadEnd
  BY <1>1, <1>2, EndSimulates
<1>3. CASE Accept
  BY <1>1, <1>3, AcceptSimulates
<1>4. CASE Stop
  BY <1>1, <1>4, StopSimulates
<1>5. CASE Reply
  BY <1>1, <1>5, ReplySimulates
<1>6. CASE MatchSync \/ ReadHeader \/ ReadPayload
  <2>1. main = "parse" /\ main' # "exited" /\ UNCHANGED <<script, replies, conn, clientSocket, backlog>>
    BY <1>1, <1>6, ParserLeaves DEF clientVars
  <2>2. CASE UNCHANGED handled
    BY <2>1, <2>2, Quiet
  <2>3. CASE \E m, rest : Dispatch(m, rest)
    BY <1>1, <1>6, <2>3, DispatchSimulates
  <2> QED
    BY <1>6, <2>2, <2>3, Dispatches
<1>7. CASE Read
  <2>1. UNCHANGED <<script, handled, replies, conn, clientSocket, backlog>> /\ main = "loop" /\ main' = "parse"
    BY <1>7 DEF Read, Looping, clientVars, historyVars
  <2> QED
    BY <2>1, Quiet
<1>8. CASE Interrupt
  BY <1>8, Quiet DEF Interrupt, serverVars, clientVars, historyVars
<1>9. ASSUME NEW c \in Client, Write(c) \/ Receive(c) PROVE UNCHANGED Promise!vars
  BY <1>9, Quiet DEF Write, Receive, serverVars, clientVars, historyVars
<1>10. ASSUME NEW c \in Client, Connect(c) \/ Leave(c) PROVE Promise!Next
  BY <1>1, <1>10, ConnectSimulates, LeaveSimulates
<1>11. CASE UNCHANGED vars
  BY <1>11, Quiet DEF vars, serverVars, clientVars, historyVars
<1> QED
  BY <1>2, <1>3, <1>4, <1>5, <1>6, <1>7, <1>8, <1>9, <1>10, <1>11 DEF Next, Server

LEMMA AnswersHold == Spec => []Answers
<1>1. Init => Answers
  <2> SUFFICES ASSUME Init PROVE Answers
    OBVIOUS
  <2>1. \A c \in Client : handled[c] = <<>> /\ replies[c] = <<>>
    BY DEF Init
  <2>2. main = "loop" /\ initialized = FALSE
    BY DEF Init
  <2> QED
    BY <2>1, <2>2 DEF Answers, Due, Answering, Promise!Initialized
<1>2. Delivery /\ Delivery' /\ Answers /\ [Next]_vars => Answers'
  <2> SUFFICES ASSUME Delivery, Delivery', Answers, [Next]_vars PROVE Answers'
    OBVIOUS
  <2>1. CASE Next
    BY <2>1, AnswersStep DEF Delivery
  <2>2. CASE UNCHANGED vars
    BY <2>2, AnswersFrame DEF vars, serverVars, parserVars, clientVars, historyVars
  <2> QED
    BY <2>1, <2>2
<1> QED
  BY <1>1, <1>2, DeliveryHolds, PTL DEF Spec

\* The byte machine implements the sessions its clients rely on, however many they are: one is
\* served at a time, its requests are acted on in order and each once, every answer goes to
\* the request before it, and no session ends while its client is there (Process, ProcessData, Send).
THEOREM ImplementsSession == Spec => KeepsPromise
<1>1. Init => Promise!Init
  BY SessionInit
<1>2. Delivery /\ Delivery' /\ Answers /\ [Next]_vars => [Promise!Next]_Promise!vars
  BY SessionStep
<1> QED
  BY <1>1, <1>2, DeliveryHolds, AnswersHold, PTL DEF Spec, KeepsPromise, Promise!Spec
=============================================================================
