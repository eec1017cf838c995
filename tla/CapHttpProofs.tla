---------------------------- MODULE CapHttpProofs ----------------------------
(***************************************************************************)
(* The properties of CapHttp, for any options, mount prefix, requests and  *)
(* challenges.                                                             *)
(***************************************************************************)
EXTENDS CapHttp, SequenceTheorems, WellFoundedInduction, TLAPS

-----------------------------------------------------------------------------
(* Sequences *)

\* The least-number principle.
LEMMA LeastNumber ==
    ASSUME NEW T \in SUBSET Nat, T # {}
    PROVE  \E m \in T : \A n \in T : m <= n
<1>1. IsWellFoundedOn(OpToRel(<, Nat), Nat)
  BY NatLessThanWellFounded, Zenon
<1>2. PICK m \in T : \A n \in T : ~(<<n, m>> \in OpToRel(<, Nat))
  BY <1>1, WFMin, Zenon
<1>3. \A n \in T : ~(n < m)
  BY <1>2 DEF OpToRel
<1> QED  BY <1>3

\* A non-empty set of places has a last one.
LEMMA MaxOfPlaces ==
    ASSUME NEW n \in Nat, NEW S \in SUBSET (1..n), S # {}
    PROVE  Max(S) \in S /\ \A i \in S : i <= Max(S)
<1> DEFINE T == {n - i : i \in S}
<1>0. \A i \in S : i \in Int /\ 1 <= i /\ i <= n
  OBVIOUS
<1>1. T \in SUBSET Nat /\ T # {}
  <2>1. ASSUME NEW i \in S PROVE n - i \in Nat
    BY <1>0
  <2>2. PICK i \in S : TRUE
    OBVIOUS
  <2>3. n - i \in T
    OBVIOUS
  <2> QED  BY <2>1, <2>3
<1>2. PICK m \in T : \A k \in T : m <= k
  <2> HIDE DEF T
  <2> QED  BY <1>1, LeastNumber
<1>3. PICK x \in S : m = n - x
  BY <1>2
<1>4. ASSUME NEW i \in S PROVE x >= i
  <2>1. n - i \in T
    OBVIOUS
  <2>2. n - x <= n - i
    BY <1>2, <1>3, <2>1
  <2> QED  BY <1>0, <2>2
<1>5. Max(S) \in S /\ \A i \in S : Max(S) >= i
  BY <1>4, Zenon DEF Max
<1> QED  BY <1>0, <1>5

\* A part of a text.
LEMMA PartOf ==
    ASSUME NEW s \in Seq(STRING), NEW m \in Int, NEW n \in Int,
           1 <= m, n <= Len(s)
    PROVE  /\ SubSeq(s, m, n) \in Seq(STRING)
           /\ Len(SubSeq(s, m, n)) = IF m <= n THEN n - m + 1 ELSE 0
           /\ \A i \in 1..(n - m + 1) : SubSeq(s, m, n)[i] = s[m + i - 1]
<1>1. \A i \in m..n : s[i] \in STRING
  BY ElementOfSeq
<1> QED  BY <1>1, SubSeqProperties

LEMMA SameStart ==
    ASSUME NEW s \in Seq(STRING), NEW t \in Seq(STRING), NEW m \in Int,
           m <= Len(s), m <= Len(t), \A i \in 1..m : s[i] = t[i]
    PROVE  SubSeq(s, 1, m) = SubSeq(t, 1, m)
<1>1. 1 \in Int /\ 1 <= 1 /\ m - 1 + 1 = m
  OBVIOUS
<1>2. /\ SubSeq(s, 1, m) \in Seq(STRING)
      /\ Len(SubSeq(s, 1, m)) = IF 1 <= m THEN m - 1 + 1 ELSE 0
      /\ \A i \in 1..(m - 1 + 1) : SubSeq(s, 1, m)[i] = s[1 + i - 1]
  BY <1>1, PartOf, Zenon
<1>3. /\ SubSeq(t, 1, m) \in Seq(STRING)
      /\ Len(SubSeq(t, 1, m)) = IF 1 <= m THEN m - 1 + 1 ELSE 0
      /\ \A i \in 1..(m - 1 + 1) : SubSeq(t, 1, m)[i] = t[1 + i - 1]
  BY <1>1, PartOf, Zenon
<1>4. PICK a \in Seq(STRING), b \in Seq(STRING) :
        a = SubSeq(s, 1, m) /\ b = SubSeq(t, 1, m)
  BY <1>2, <1>3, Zenon
<1>5. Len(a) = Len(b)
  BY <1>2, <1>3, <1>4, Zenon
<1>6. ASSUME NEW i \in 1..Len(a) PROVE a[i] = b[i]
  <2>1. Len(a) = IF 1 <= m THEN m - 1 + 1 ELSE 0
    BY <1>2, <1>4, Zenon
  <2>2. i \in 1..(m - 1 + 1) /\ i \in 1..m /\ 1 + i - 1 = i
    BY <2>1
  <2>3. a[i] = s[1 + i - 1] /\ b[i] = t[1 + i - 1]
    BY <1>2, <1>3, <1>4, <2>2, Zenon
  <2> QED  BY <2>2, <2>3
<1>7. a = b
  BY <1>5, <1>6, SeqEqual
<1> QED  BY <1>4, <1>7, Zenon

\* One piece.
LEMMA OneIs ==
    ASSUME NEW T, NEW x \in T
    PROVE  <<x>> \in Seq(T) /\ Len(<<x>>) = 1 /\ <<x>>[1] = x
OBVIOUS

LEMMA OneSeq ==
    ASSUME NEW s \in Seq(STRING), Len(s) = 1
    PROVE  s = <<s[1]>>
<1>1. s[1] \in STRING
  <2>1. 1 \in 1..Len(s)
    OBVIOUS
  <2> QED  BY <2>1, ElementOfSeq
<1>2. <<s[1]>> \in Seq(STRING) /\ Len(<<s[1]>>) = 1 /\ <<s[1]>>[1] = s[1]
  BY <1>1, OneIs
<1>3. ASSUME NEW t \in Seq(STRING), NEW u \in Seq(STRING), Len(t) = 1, Len(u) = 1,
             t[1] = u[1]
      PROVE  t = u
  <2>1. Len(t) = Len(u) /\ \A j \in 1..Len(t) : t[j] = u[j]
    BY <1>3
  <2> QED  BY <2>1, SeqEqual
<1> QED  BY <1>2, <1>3, Zenon

LEMMA OnePiece ==
    ASSUME NEW s \in Seq(STRING), NEW i \in 1..Len(s)
    PROVE  SubSeq(s, i, i) = <<s[i]>>
<1>1. /\ SubSeq(s, i, i) \in Seq(STRING)
      /\ Len(SubSeq(s, i, i)) = 1
      /\ SubSeq(s, i, i)[1] = s[i]
  <2>1. i \in Int /\ 1 <= i /\ i <= Len(s) /\ 1 \in 1..(i - i + 1) /\ i + 1 - 1 = i
    BY LenProperties
  <2> QED  BY <2>1, PartOf
<1> QED  BY <1>1, OneSeq, Zenon

\* The last piece that is not empty.
LEMMA LastSegmentFound ==
    ASSUME NEW path \in Seq(STRING), ~(ToSet(path) \subseteq {Empty})
    PROVE  /\ LastSegment(path) \in 1..Len(path)
           /\ path[LastSegment(path)] # Empty
           /\ \A i \in 1..Len(path) : path[i] # Empty => i <= LastSegment(path)
<1> DEFINE S == {i \in DOMAIN path : path[i] # Empty}
<1>1. Len(path) \in Nat /\ DOMAIN path = 1..Len(path)
  BY LenProperties
<1>2. S \in SUBSET (1..Len(path)) /\ S # {}
  BY <1>1 DEF ToSet
<1>3. LastSegment(path) = Max(S)
  BY DEF LastSegment
<1>4. Max(S) \in S /\ \A i \in S : i <= Max(S)
  <2> HIDE DEF S
  <2> QED  BY <1>1, <1>2, MaxOfPlaces
<1> QED  BY <1>1, <1>3, <1>4

LEMMA LastSegmentIs ==
    ASSUME NEW path \in Seq(STRING), NEW a \in 1..Len(path), path[a] # Empty,
           \A i \in 1..Len(path) : i > a => path[i] = Empty
    PROVE  LastSegment(path) = a /\ ~(ToSet(path) \subseteq {Empty})
<1>1. Len(path) \in Nat /\ DOMAIN path = 1..Len(path)
  BY LenProperties
<1>2. ~(ToSet(path) \subseteq {Empty})
  BY <1>1 DEF ToSet
<1>3. /\ LastSegment(path) \in 1..Len(path)
      /\ path[LastSegment(path)] # Empty
      /\ a <= LastSegment(path)
  BY <1>2, LastSegmentFound
<1> QED  BY <1>1, <1>2, <1>3

-----------------------------------------------------------------------------
(* Routing *)

\* A scope that ServeHTTP finds is the piece before the last segment.
LEMMA ServeHTTPScope ==
    ASSUME NEW r, NEW path \in Seq(STRING), ServeHTTPRoute(r, path).scope # NoScope
    PROVE  /\ LastSegment(path) \in 2..Len(path)
           /\ path[LastSegment(path)] # Empty
           /\ \A i \in 1..Len(path) : i > LastSegment(path) => path[i] = Empty
           /\ ServeHTTPRoute(r, path).scope = <<path[LastSegment(path) - 1]>>
<1>1. ~(ToSet(path) \subseteq {Empty})
  BY DEF ServeHTTPRoute, NoRoute
<1>2. /\ LastSegment(path) > 1
      /\ ServeHTTPRoute(r, path).scope = <<path[LastSegment(path) - 1]>>
  BY DEF ServeHTTPRoute, NoRoute
<1>3. /\ LastSegment(path) \in 1..Len(path)
      /\ path[LastSegment(path)] # Empty
      /\ \A i \in 1..Len(path) : path[i] # Empty => i <= LastSegment(path)
  BY <1>1, LastSegmentFound
<1>4. Len(path) \in Nat
  BY LenProperties
<1> QED  BY <1>2, <1>3, <1>4

\* What ServeHTTP makes of a path with an action at its end.
LEMMA ServeHTTPServes ==
    ASSUME NEW r, r.post, NEW path \in Seq(STRING), Len(path) > 0,
           path[Len(path)] \in Actions
    PROVE  ServeHTTPRoute(r, path) =
             [action |-> path[Len(path)],
              scope  |-> IF Len(path) > 1 /\ config.scopes # <<>>
                         THEN <<path[Len(path) - 1]>> ELSE NoScope]
<1>1. Len(path) \in 1..Len(path) /\ Len(path) \in Nat
  BY LenProperties
<1>2. path[Len(path)] # Empty
  BY DEF Actions, Empty
<1>3. \A i \in 1..Len(path) : i > Len(path) => path[i] = Empty
  BY <1>1
<1>4. PICK n \in 1..Len(path) : n = Len(path)
  BY <1>1
<1>5. LastSegment(path) = Len(path) /\ ~(ToSet(path) \subseteq {Empty})
  BY <1>2, <1>3, <1>4, LastSegmentIs
<1> QED  BY <1>5 DEF ServeHTTPRoute

\* The requests and the options that there are.
LEMMA Given ==
    ASSUME config \in Configs, NEW r \in Requests
    PROVE  /\ r.path \in Seq(STRING) /\ Len(r.path) \in Nat
           /\ config.prefix \in Seq(STRING) /\ Len(config.prefix) \in Nat
           /\ config.mount \in {"register", "strip", "whole"}
BY CapHttpAssumption, LenProperties

\* What Register serves has the prefix of n pieces, the scope if there is one,
\* and the action.
RegisterHit(r, n, len, scope) ==
    /\ r.post /\ n \in Nat /\ len \in Nat /\ len > n
    /\ \A i \in 1..n : r.path[i] = config.prefix[i]
    /\ r.path[len] \in Actions
    /\ r.encoded = (n + 2)..(len - 1)
    /\ scope \in Seq(STRING) /\ Len(scope) = len - 1 - n
    /\ \A i \in 1..(len - 1 - n) : scope[i] = r.path[n + i]
    /\ scope # <<>> => config.scopes # <<>> /\ scope # NoScope
    /\ RegisterRoute(r) = [action |-> r.path[len],
                           scope  |-> IF scope = <<>> THEN NoScope ELSE scope]

LEMMA RegisterServes ==
    ASSUME config \in Configs, NEW r \in Requests, RegisterRoute(r) # NoRoute
    PROVE  RegisterHit(r, Len(config.prefix), Len(r.path),
                       SubSeq(r.path, Len(config.prefix) + 1, Len(r.path) - 1))
<1> PICK n, len, scope : /\ n = Len(config.prefix) /\ len = Len(r.path)
                         /\ scope = SubSeq(r.path, n + 1, len - 1)
  OBVIOUS
<1>0. SUFFICES RegisterHit(r, n, len, scope)
  BY Zenon
<1>1. /\ r.post
      /\ IsPrefix(config.prefix, r.path)
      /\ len > n
      /\ r.path[len] \in Actions
      /\ r.encoded = (n + 2)..(len - 1)
      /\ \/ scope = <<>>
         \/ config.scopes # <<>> /\ scope \notin {<<Empty>>, <<Empty, Empty>>}
      /\ RegisterRoute(r) = [action |-> r.path[len],
                             scope  |-> IF scope = <<>> THEN NoScope ELSE scope]
  BY DEF RegisterRoute, Last
<1>2. /\ n \in Nat /\ len \in Nat
      /\ r.path \in Seq(STRING) /\ config.prefix \in Seq(STRING)
  BY Given
<1>3. ASSUME NEW i \in 1..n PROVE r.path[i] = config.prefix[i]
  <2>1. PICK p \in Seq(STRING), q \in Seq(STRING) : p = r.path /\ q = config.prefix
    BY <1>2
  <2>2. SubSeq(q, 1, n) = SubSeq(p, 1, n)
    BY <1>1, <2>1 DEF IsPrefix
  <2>3. SubSeq(q, 1, n)[i] = q[i]
    <3>1. 1 \in Int /\ n \in Int /\ 1 <= 1 /\ n <= Len(q) /\ i \in 1..(n - 1 + 1)
          /\ 1 + i - 1 = i
      BY <1>2, <2>1
    <3> QED  BY <3>1, PartOf
  <2>4. SubSeq(p, 1, n)[i] = p[i]
    <3>1. 1 \in Int /\ n \in Int /\ 1 <= 1 /\ n <= Len(p) /\ i \in 1..(n - 1 + 1)
          /\ 1 + i - 1 = i
      BY <1>1, <1>2, <2>1
    <3> QED  BY <3>1, PartOf
  <2> QED  BY <2>1, <2>2, <2>3, <2>4
<1>4. /\ scope \in Seq(STRING)
      /\ Len(scope) = len - 1 - n
      /\ \A i \in 1..(len - 1 - n) : scope[i] = r.path[n + i]
  <2>1. PICK p \in Seq(STRING) : p = r.path
    BY <1>2
  <2>2. n + 1 \in Int /\ len - 1 \in Int /\ 1 <= n + 1 /\ len - 1 <= Len(p)
    BY <1>2, <2>1
  <2>3. /\ SubSeq(p, n + 1, len - 1) \in Seq(STRING)
        /\ Len(SubSeq(p, n + 1, len - 1)) =
             IF n + 1 <= len - 1 THEN len - 1 - (n + 1) + 1 ELSE 0
        /\ \A i \in 1..(len - 1 - (n + 1) + 1) :
             SubSeq(p, n + 1, len - 1)[i] = p[n + 1 + i - 1]
    BY <2>2, PartOf
  <2>4. scope = SubSeq(p, n + 1, len - 1)
    BY <2>1
  <2>5. ASSUME NEW i \in 1..(len - 1 - n) PROVE scope[i] = r.path[n + i]
    <3>1. i \in 1..(len - 1 - (n + 1) + 1) /\ n + 1 + i - 1 = n + i
      BY <1>2
    <3> QED  BY <2>1, <2>3, <2>4, <3>1
  <2>6. Len(scope) = len - 1 - n
    <3>1. Len(scope) = IF n + 1 <= len - 1 THEN len - 1 - (n + 1) + 1 ELSE 0
      BY <2>3, <2>4
    <3>2. n \in Nat /\ len \in Nat /\ len > n
      BY <1>1, <1>2
    <3>3. CASE n + 1 <= len - 1
      <4>1. Len(scope) = len - 1 - (n + 1) + 1
        BY <3>1, <3>3, Zenon
      <4>2. len - 1 - (n + 1) + 1 = len - 1 - n
        BY <3>2
      <4> QED  BY <4>1, <4>2, Zenon
    <3>4. CASE ~(n + 1 <= len - 1)
      <4>1. Len(scope) = 0
        BY <3>1, <3>4, Zenon
      <4>2. len - 1 - n = 0
        BY <3>2, <3>4
      <4> QED  BY <4>1, <4>2, Zenon
    <3> QED  BY <3>3, <3>4, Zenon
  <2> QED  BY <2>3, <2>4, <2>5, <2>6
<1>5. scope # <<>> => config.scopes # <<>> /\ scope # NoScope
  BY <1>1 DEF NoScope
<1> QED  BY <1>1, <1>2, <1>3, <1>4, <1>5 DEF RegisterHit

\* A piece before the last segment is named.
LEMMA NamesPiece ==
    ASSUME NEW path \in Seq(STRING), LastSegment(path) \in 2..Len(path)
    PROVE  NamesScope(path, <<path[LastSegment(path) - 1]>>)
<1>1. PICK a \in 2..Len(path) : a = LastSegment(path)
  OBVIOUS
<1>2. a - 1 \in 1..Len(path) /\ a > 1
  BY LenProperties
<1>3. SubSeq(path, a - 1, a - 1) = <<path[a - 1]>>
  BY <1>2, OnePiece
<1>4. Len(<<path[a - 1]>>) = 1
  OBVIOUS
<1> QED  BY <1>1, <1>2, <1>3, <1>4 DEF NamesScope

LEMMA WholeScope ==
    ASSUME NEW r, NEW path \in Seq(STRING),
           ServeHTTPRoute(r, path).scope # NoScope
    PROVE  NamesScope(path, ServeHTTPRoute(r, path).scope)
<1>1. /\ LastSegment(path) \in 2..Len(path)
      /\ ServeHTTPRoute(r, path).scope = <<path[LastSegment(path) - 1]>>
  BY ServeHTTPScope, Zenon
<1>2. NamesScope(path, <<path[LastSegment(path) - 1]>>)
  BY <1>1, NamesPiece, Zenon
<1> QED  BY <1>1, <1>2, Zenon

LEMMA RegisterScope ==
    ASSUME config \in Configs, NEW r \in Requests,
           RegisterRoute(r).scope # NoScope
    PROVE  NamesScope(r.path, RegisterRoute(r).scope)
<1>1. RegisterRoute(r) # NoRoute
  BY DEF NoRoute
<1>2. PICK n, len, scope : /\ n = Len(config.prefix) /\ len = Len(r.path)
                           /\ scope = SubSeq(r.path, n + 1, len - 1)
  OBVIOUS
<1>3. /\ n \in Nat /\ len \in Nat /\ len > n
      /\ r.path[len] \in Actions
      /\ Len(scope) = len - 1 - n
      /\ RegisterRoute(r).scope = scope
  <2>1. RegisterHit(r, n, len, scope)
    BY <1>1, <1>2, RegisterServes, Zenon
  <2>2. scope # <<>>
    BY <2>1 DEF RegisterHit
  <2> QED  BY <2>1, <2>2 DEF RegisterHit
<1>4. PICK p \in Seq(STRING) : p = r.path
  BY Given
<1>5. LastSegment(p) = len
  <2>1. len \in 1..Len(p) /\ p[len] # Empty
    <3>1. len \in 1..Len(p)
      BY <1>2, <1>3, <1>4
    <3>2. p[len] \in Actions
      BY <1>3, <1>4
    <3> QED  BY <3>1, <3>2 DEF Actions, Empty
  <2>2. \A i \in 1..Len(p) : i > len => p[i] = Empty
    BY <1>2, <1>3, <1>4
  <2> QED  BY <2>1, <2>2, LastSegmentIs
<1>6. PICK k : k = Len(scope)
  OBVIOUS
<1>7. len > k /\ len - k = n + 1
  BY <1>3, <1>6
<1>8. SubSeq(p, len - k, len - 1) = scope
  BY <1>2, <1>4, <1>7
<1> QED  BY <1>3, <1>4, <1>5, <1>6, <1>7, <1>8 DEF NamesScope

\* What is behind the prefix: one piece, and the pieces after the prefix.
Joined(q, path, n, h) ==
    /\ q \in Seq(STRING) /\ Len(q) = Len(path) - n + 1
    /\ q[1] = h[1]
    /\ \A i \in 2..Len(q) : q[i] = path[n + i - 1]

LEMMA Rejoined ==
    ASSUME NEW path \in Seq(STRING), NEW n \in 1..Len(path),
           NEW h \in Seq(STRING), Len(h) = 1
    PROVE  Joined(h \o SubSeq(path, n + 1, Len(path)), path, n, h)
<1> PICK q : q = h \o SubSeq(path, n + 1, Len(path))
  OBVIOUS
<1>0. SUFFICES Joined(q, path, n, h)
  BY Zenon
<1>1. PICK len \in Nat : len = Len(path)
  BY LenProperties
<1>2. PICK t \in Seq(STRING) :
        /\ t = SubSeq(path, n + 1, len)
        /\ Len(t) = IF n + 1 <= len THEN len - (n + 1) + 1 ELSE 0
        /\ \A i \in 1..(len - (n + 1) + 1) : t[i] = path[n + 1 + i - 1]
  <2>1. n + 1 \in Int /\ len \in Int /\ 1 <= n + 1 /\ len <= Len(path)
    BY <1>1
  <2>2. PICK m \in Int : m = n + 1 /\ 1 <= m
    BY <2>1
  <2>3. /\ SubSeq(path, m, len) \in Seq(STRING)
        /\ Len(SubSeq(path, m, len)) = IF m <= len THEN len - m + 1 ELSE 0
        /\ \A i \in 1..(len - m + 1) : SubSeq(path, m, len)[i] = path[m + i - 1]
    BY <2>1, <2>2, PartOf, ZenonT(60)
  <2> QED  BY <2>2, <2>3, Zenon
<1>3. Len(t) = len - n
  BY <1>1, <1>2
<1>4. /\ h \o t \in Seq(STRING) /\ Len(h \o t) = Len(h) + Len(t)
      /\ \A i \in 1..(Len(h) + Len(t)) :
           (h \o t)[i] = IF i <= Len(h) THEN h[i] ELSE t[i - Len(h)]
  BY ConcatProperties
<1>5. q = h \o t
  BY <1>1, <1>2
<1>6. Len(q) = len - n + 1 /\ q \in Seq(STRING)
  <2>1. Len(q) = Len(h) + Len(t) /\ q \in Seq(STRING)
    BY <1>4, <1>5, Zenon
  <2>2. Len(h) + Len(t) = len - n + 1
    BY <1>1, <1>3
  <2> QED  BY <2>1, <2>2, Zenon
<1>7. q[1] = h[1]
  <2>1. 1 \in 1..(Len(h) + Len(t)) /\ 1 <= Len(h)
    BY <1>1, <1>3
  <2> QED  BY <1>4, <1>5, <2>1
<1>8. ASSUME NEW i \in 2..Len(q) PROVE q[i] = path[n + i - 1]
  <2>1. i \in 1..(Len(h) + Len(t)) /\ ~(i <= Len(h)) /\ i - Len(h) = i - 1
    BY <1>1, <1>3, <1>6
  <2>2. q[i] = t[i - 1]
    BY <1>4, <1>5, <2>1
  <2>3. i - 1 \in 1..(len - (n + 1) + 1) /\ n + 1 + (i - 1) - 1 = n + i - 1
    BY <1>1, <1>6
  <2>4. t[i - 1] = path[n + 1 + (i - 1) - 1]
    BY <1>2, <2>3
  <2> QED  BY <2>2, <2>3, <2>4
<1> QED  BY <1>1, <1>6, <1>7, <1>8 DEF Joined

LEMMA StripScope ==
    ASSUME config \in Configs, NEW r \in Requests,
           StrippedRoute(r).scope # NoScope
    PROVE  NamesScope(r.path, StrippedRoute(r).scope)
<1>1. PICK p \in Seq(STRING), n \in Nat : p = r.path /\ n = Len(config.prefix)
  BY Given
<1>2. CASE n = 0
  <2>1. StrippedRoute(r) = ServeHTTPRoute(r, p)
    BY <1>1, <1>2 DEF StrippedRoute
  <2>2. ServeHTTPRoute(r, p).scope # NoScope
    BY <2>1
  <2> QED  BY <1>1, <2>1, <2>2, WholeScope, Zenon
<1>3. CASE n # 0
  <2>1. PICK h : h = Behind(config.prefix[n], p[n])
    OBVIOUS
  <2>2. PICK q : q = h \o SubSeq(p, n + 1, Len(p))
    OBVIOUS
  <2>3. Len(p) >= n /\ h # <<>> /\ StrippedRoute(r) = ServeHTTPRoute(r, q)
    BY <1>1, <1>3, <2>1, <2>2 DEF StrippedRoute, NoRoute
  <2>4. n \in 1..Len(p) /\ n \in DOMAIN config.prefix /\ n \in DOMAIN r.path
    BY <1>1, <1>3, <2>3, Given, LenProperties
  <2>5. h \in Seq(STRING) /\ Len(h) = 1
    <3>1. h \in Seq(STRING) /\ Len(h) <= 1
      BY <1>1, <2>1, <2>4, CapHttpAssumption
    <3>2. Len(h) \in Nat
      BY <3>1, LenProperties
    <3>3. Len(h) # 0
      BY <2>3, <3>1, EmptySeq
    <3>4. ASSUME NEW k \in Nat, k <= 1, k # 0 PROVE k = 1
      BY <3>4
    <3> QED  BY <3>1, <3>2, <3>3, <3>4, Zenon
  <2>6. /\ q \in Seq(STRING) /\ Len(q) = Len(p) - n + 1
        /\ q[1] = h[1]
        /\ \A i \in 2..Len(q) : q[i] = p[n + i - 1]
    <3>1. Joined(q, p, n, h)
      BY <2>2, <2>4, <2>5, Rejoined, Zenon
    <3> QED  BY <3>1 DEF Joined
  <2>7. PICK b \in 2..Len(q) :
          /\ q[b] # Empty
          /\ \A i \in 1..Len(q) : i > b => q[i] = Empty
          /\ StrippedRoute(r).scope = <<q[b - 1]>>
    <3>1. ServeHTTPRoute(r, q).scope # NoScope
      BY <2>3
    <3>2. /\ LastSegment(q) \in 2..Len(q)
          /\ q[LastSegment(q)] # Empty
          /\ \A i \in 1..Len(q) : i > LastSegment(q) => q[i] = Empty
          /\ ServeHTTPRoute(r, q).scope = <<q[LastSegment(q) - 1]>>
      BY <2>6, <3>1, ServeHTTPScope, Zenon
    <3> QED  BY <2>3, <3>2, Zenon
  <2>8. PICK a \in Nat : a = n + b - 1
    BY <2>6, LenProperties
  <2>9. a \in 2..Len(p) /\ a \in 1..Len(p)
    BY <2>4, <2>6, <2>8, LenProperties
  <2>10. LastSegment(p) = a
    <3>1. p[a] # Empty
      BY <2>6, <2>7, <2>8
    <3>2. ASSUME NEW i \in 1..Len(p), i > a PROVE p[i] = Empty
      <4>1. PICK j \in Int : j = i - n + 1
        OBVIOUS
      <4>2. j \in 2..Len(q) /\ j \in 1..Len(q) /\ j > b /\ n + j - 1 = i
        BY <2>4, <2>6, <2>8, <3>2, <4>1, LenProperties
      <4>3. q[j] = p[n + j - 1] /\ q[j] = Empty
        BY <2>6, <2>7, <4>2
      <4> QED  BY <4>2, <4>3
    <3> QED  BY <2>9, <3>1, <3>2, LastSegmentIs
  <2>11. CASE b = 2
    <3>1. a = n + 1 /\ a - 1 = n /\ a > 1
      BY <2>4, <2>8, <2>11
    <3>2. StrippedRoute(r).scope = <<h[1]>>
      BY <2>6, <2>7, <2>11
    <3>3. h = <<h[1]>>
      BY <2>5, OneSeq
    <3>4. config.prefix[n] \in ToSet(config.prefix)
      BY <2>4 DEF ToSet
    <3>5. Behind(config.prefix[n], p[a - 1]) = StrippedRoute(r).scope
      BY <2>1, <3>1, <3>2, <3>3, Zenon
    <3> QED  BY <1>1, <2>10, <3>1, <3>4, <3>5 DEF NamesScope
  <2>12. CASE b # 2
    <3>1. b - 1 \in 2..Len(q) /\ n + (b - 1) - 1 = a - 1
      BY <2>4, <2>6, <2>8, <2>12, LenProperties
    <3>2. q[b - 1] = p[n + (b - 1) - 1]
      BY <2>6, <3>1
    <3>3. StrippedRoute(r).scope = <<p[LastSegment(p) - 1]>>
      BY <2>7, <2>10, <3>1, <3>2
    <3> QED  BY <1>1, <2>9, <2>10, <3>3, NamesPiece
  <2> QED  BY <2>11, <2>12
<1> QED  BY <1>2, <1>3

\* However the handler is mounted, a path names the scope it is served for.
LEMMA RouteScope ==
    ASSUME config \in Configs, NEW r \in Requests, Route(r).scope # NoScope
    PROVE  NamesScope(r.path, Route(r).scope)
<1>1. CASE config.mount = "register"
  BY <1>1, RegisterScope DEF Route
<1>2. CASE config.mount = "strip"
  BY <1>2, StripScope DEF Route
<1>3. CASE config.mount = "whole"
  <2>1. PICK p \in Seq(STRING) : p = r.path
    BY Given
  <2>2. Route(r) = ServeHTTPRoute(r, p)
    BY <1>3, <2>1 DEF Route
  <2>3. ServeHTTPRoute(r, p).scope # NoScope
    BY <2>2
  <2> QED  BY <2>1, <2>2, <2>3, WholeScope, Zenon
<1> QED  BY <1>1, <1>2, <1>3, Given

\* A scope that an allowlist of names lets through is one piece, and there is
\* one only if the options have scopes.
LEMMA AllowedHit ==
    ASSUME NamesOnly, NEW r, NEW n, NEW len, NEW scope,
           RegisterHit(r, n, len, scope), ScopeOk(RegisterRoute(r).scope)
    PROVE  /\ n \in Nat /\ r.post /\ r.path[len] \in Actions
           /\ r.encoded = (n + 2)..(len - 1)
           /\ \/ /\ len = n + 1
                 /\ RegisterRoute(r) = [action |-> r.path[len], scope |-> NoScope]
              \/ /\ len = n + 2
                 /\ config.scopes # <<>>
                 /\ RegisterRoute(r) =
                      [action |-> r.path[len], scope |-> <<r.path[n + 1]>>]
<1>1. /\ n \in Nat /\ len \in Nat /\ len > n
      /\ r.post /\ r.path[len] \in Actions /\ r.encoded = (n + 2)..(len - 1)
      /\ scope \in Seq(STRING) /\ Len(scope) = len - 1 - n
      /\ scope # <<>> => config.scopes # <<>> /\ scope # NoScope
      /\ RegisterRoute(r) = [action |-> r.path[len],
                             scope  |-> IF scope = <<>> THEN NoScope ELSE scope]
  BY Zenon DEF RegisterHit
<1>2. \A i \in 1..(len - 1 - n) : scope[i] = r.path[n + i]
  BY Zenon DEF RegisterHit
<1>3. CASE scope = <<>>
  <2>1. Len(scope) = 0
    BY <1>3
  <2>2. len = n + 1
    <3>1. len - 1 - n = 0
      BY <1>1, <2>1, Zenon
    <3> QED  BY <1>1, <3>1
  <2> QED  BY <1>1, <1>3, <2>2, Zenon
<1>4. CASE scope # <<>>
  <2>1. RegisterRoute(r) = [action |-> r.path[len], scope |-> scope]
    BY <1>1, <1>4, Zenon
  <2>2. RegisterRoute(r).scope = scope
    BY <2>1
  <2>3. config.scopes # <<>> /\ scope \in config.scopes[1]
    BY <1>1, <1>4, <2>2 DEF ScopeOk, NamesOnly
  <2>4. Len(scope) = 1
    BY <2>3 DEF NamesOnly
  <2>5. len = n + 2
    <3>1. len - 1 - n = 1
      BY <1>1, <2>4, Zenon
    <3> QED  BY <1>1, <3>1
  <2>6. scope = <<r.path[n + 1]>>
    <3>1. 1 \in 1..(len - 1 - n)
      BY <1>1, <2>5
    <3>2. scope[1] = r.path[n + 1]
      BY <1>2, <3>1
    <3>3. scope = <<scope[1]>>
      BY <1>1, <2>4, OneSeq
    <3> QED  BY <3>2, <3>3, Zenon
  <2> QED  BY <1>1, <2>1, <2>3, <2>5, <2>6, Zenon
<1> QED  BY <1>3, <1>4

\* The handler behind StripPrefix gets a path of an empty piece and what is
\* after the prefix.
LEMMA StrippedIs ==
    ASSUME config \in Configs, NEW r \in Requests, RegisterRoute(r) # NoRoute,
           NEW n, n = Len(config.prefix), n # 0
    PROVE  \E q \in Seq(STRING) :
             /\ Len(q) = Len(r.path) - n + 1
             /\ q[1] = Empty
             /\ \A i \in 2..Len(q) : q[i] = r.path[n + i - 1]
             /\ StrippedRoute(r) = ServeHTTPRoute(r, q)
<1>1. PICK len, scope : /\ len = Len(r.path)
                        /\ scope = SubSeq(r.path, n + 1, len - 1)
  OBVIOUS
<1>2. RegisterHit(r, n, len, scope)
  BY <1>1, RegisterServes, Zenon
<1>3. /\ n \in Nat /\ len \in Nat /\ len > n
      /\ \A i \in 1..n : r.path[i] = config.prefix[i]
      /\ r.encoded = (n + 2)..(len - 1)
  BY <1>2, Zenon DEF RegisterHit
<1>4. PICK p \in Seq(STRING), f \in Seq(STRING) : p = r.path /\ f = config.prefix
  BY Given
<1>5. n \in 1..n /\ n \in 1..Len(p) /\ n \in DOMAIN f /\ n - 1 \in Int
      /\ n - 1 <= Len(p) /\ n - 1 <= Len(f) /\ Len(p) >= n
  BY <1>1, <1>3, <1>4, LenProperties
<1>6. Behind(f[n], p[n]) = <<Empty>>
  <2>1. p[n] = f[n]
    BY <1>3, <1>4, <1>5
  <2>2. Behind(f[n], f[n]) = <<Empty>>
    BY <1>4, <1>5, CapHttpAssumption
  <2> QED  BY <2>1, <2>2, Zenon
<1>7. SubSeq(p, 1, n - 1) = SubSeq(f, 1, n - 1)
  <2>1. ASSUME NEW i \in 1..(n - 1) PROVE p[i] = f[i]
    <3>1. i \in 1..n
      BY <1>3
    <3> QED  BY <1>3, <1>4, <3>1
  <2> QED  BY <1>5, <2>1, SameStart
<1>8. r.encoded \cap (2..n) = {}
  BY <1>3
<1>9. PICK q : q = <<Empty>> \o SubSeq(p, n + 1, Len(p))
  OBVIOUS
<1>10. StrippedRoute(r) = ServeHTTPRoute(r, q)
  <2>1. PICK g : g = <<Empty>>
    OBVIOUS
  <2>2. g # <<>>
    BY <2>1
  <2>3. Behind(f[n], p[n]) = g
    BY <1>6, <2>1, Zenon
  <2>4. q = g \o SubSeq(p, n + 1, Len(p))
    BY <1>9, <2>1, Zenon
  <2>5. StrippedRoute(r) = ServeHTTPRoute(r, Behind(f[n], p[n])
                                               \o SubSeq(p, n + 1, Len(p)))
    <3>1. /\ Len(p) >= n
          /\ SubSeq(p, 1, n - 1) = SubSeq(f, 1, n - 1)
          /\ Behind(f[n], p[n]) # <<>>
          /\ r.encoded \cap (2..n) = {}
      BY <1>5, <1>7, <1>8, <2>2, <2>3, Zenon
    <3>2. StrippedRoute(r) =
            IF n = 0 THEN ServeHTTPRoute(r, p)
            ELSE IF /\ Len(p) >= n
                    /\ SubSeq(p, 1, n - 1) = SubSeq(f, 1, n - 1)
                    /\ Behind(f[n], p[n]) # <<>>
                    /\ r.encoded \cap (2..n) = {}
                 THEN ServeHTTPRoute(r, Behind(f[n], p[n])
                                          \o SubSeq(p, n + 1, Len(p)))
            ELSE NoRoute
      BY <1>4 DEF StrippedRoute
    <3> QED  BY <3>1, <3>2, Zenon
  <2> QED  BY <2>3, <2>4, <2>5, Zenon
<1>11. Joined(q, p, n, <<Empty>>)
  <2>1. <<Empty>> \in Seq(STRING) /\ Len(<<Empty>>) = 1
    <3>1. n \in DOMAIN p
      BY <1>5, LenProperties
    <3>2. Behind(f[n], p[n]) \in Seq(STRING)
      BY <1>4, <1>5, <3>1, CapHttpAssumption
    <3>3. <<Empty>> \in Seq(STRING)
      BY <1>6, <3>2, Zenon
    <3>4. Len(<<Empty>>) = 1
      OBVIOUS
    <3> QED  BY <3>3, <3>4
  <2> QED  BY <1>5, <1>9, <2>1, Rejoined, Zenon
<1>12. /\ q \in Seq(STRING) /\ Len(q) = Len(p) - n + 1
       /\ q[1] = <<Empty>>[1]
       /\ \A i \in 2..Len(q) : q[i] = p[n + i - 1]
  BY <1>11, Zenon DEF Joined
<1>13. <<Empty>>[1] = Empty
  OBVIOUS
<1> QED  BY <1>4, <1>10, <1>12, <1>13, Zenon

\* With an allowlist of names, the two ways to mount the handler agree.
LEMMA RoutesAgree == config \in Configs => MountsAgree
<1> SUFFICES ASSUME config \in Configs, NamesOnly, NEW r \in Requests,
                    RegisterRoute(r) # NoRoute, ScopeOk(RegisterRoute(r).scope)
             PROVE  /\ StrippedRoute(r) = RegisterRoute(r)
                    /\ RegisterRoute(r).scope # NoScope =>
                         ServeHTTPRoute(r, r.path) = RegisterRoute(r)
  BY DEF MountsAgree
<1>1. PICK n, len, scope : /\ n = Len(config.prefix) /\ len = Len(r.path)
                           /\ scope = SubSeq(r.path, n + 1, len - 1)
  OBVIOUS
<1>2. RegisterHit(r, n, len, scope)
  BY <1>1, RegisterServes, Zenon
<1>3. /\ n \in Nat /\ r.post /\ r.path[len] \in Actions
      /\ \/ /\ len = n + 1
            /\ RegisterRoute(r) = [action |-> r.path[len], scope |-> NoScope]
         \/ /\ len = n + 2
            /\ config.scopes # <<>>
            /\ RegisterRoute(r) =
                 [action |-> r.path[len], scope |-> <<r.path[n + 1]>>]
  BY <1>2, AllowedHit, Zenon
<1>4. PICK p \in Seq(STRING) : p = r.path
  BY Given
<1>5. ServeHTTPRoute(r, p) =
        [action |-> p[len],
         scope  |-> IF len > 1 /\ config.scopes # <<>>
                    THEN <<p[len - 1]>> ELSE NoScope]
  <2>1. len > 0 /\ len = Len(p) /\ p[len] \in Actions /\ r.post
    BY <1>1, <1>3, <1>4
  <2> QED  BY <2>1, ServeHTTPServes
<1>6. CASE n = 0
  <2>1. StrippedRoute(r) = ServeHTTPRoute(r, p)
    BY <1>1, <1>4, <1>6 DEF StrippedRoute
  <2>2. CASE len = n + 1
    <3>1. RegisterRoute(r) = [action |-> r.path[len], scope |-> NoScope]
      BY <1>3, <2>2
    <3>2. RegisterRoute(r).scope = NoScope
      BY <3>1
    <3>3. ~(len > 1)
      BY <1>6, <2>2
    <3> QED  BY <1>4, <1>5, <2>1, <3>1, <3>2, <3>3, Zenon
  <2>3. CASE len = n + 2
    <3>1. /\ RegisterRoute(r) = [action |-> r.path[len], scope |-> <<r.path[n + 1]>>]
          /\ config.scopes # <<>>
      BY <1>3, <2>3
    <3>2. len > 1 /\ len - 1 = n + 1
      BY <1>6, <2>3
    <3> QED  BY <1>4, <1>5, <2>1, <3>1, <3>2, Zenon
  <2> QED  BY <1>3, <2>2, <2>3
<1>7. CASE n # 0
  <2>1. PICK q \in Seq(STRING) :
          /\ Len(q) = Len(p) - n + 1
          /\ q[1] = Empty
          /\ \A i \in 2..Len(q) : q[i] = p[n + i - 1]
          /\ StrippedRoute(r) = ServeHTTPRoute(r, q)
    BY <1>1, <1>4, <1>7, StrippedIs, Zenon
  <2>2. Len(q) = len - n + 1
    BY <1>1, <1>4, <2>1
  <2>3. ASSUME Len(q) \in 2..Len(q), q[Len(q)] = p[len]
        PROVE  ServeHTTPRoute(r, q) =
                 [action |-> p[len],
                  scope  |-> IF config.scopes # <<>>
                             THEN <<q[Len(q) - 1]>> ELSE NoScope]
    <3>1. Len(q) > 0 /\ Len(q) > 1 /\ q[Len(q)] \in Actions
      BY <1>3, <1>4, <2>3
    <3> QED  BY <1>3, <2>3, <3>1, ServeHTTPServes
  <2>4. CASE len = n + 1
    <3>1. RegisterRoute(r) = [action |-> p[len], scope |-> NoScope]
      BY <1>3, <1>4, <2>4
    <3>2. RegisterRoute(r).scope = NoScope
      BY <3>1
    <3>3. Len(q) = 2 /\ 2 \in 2..Len(q) /\ n + 2 - 1 = len
      BY <1>3, <2>2, <2>4
    <3>4. q[2] = p[len] /\ <<q[1]>> = NoScope
      BY <2>1, <3>3 DEF NoScope
    <3>5. ServeHTTPRoute(r, q) =
            [action |-> p[len],
             scope  |-> IF config.scopes # <<>> THEN <<q[1]>> ELSE NoScope]
      BY <2>3, <3>3, <3>4
    <3> QED  BY <2>1, <3>1, <3>2, <3>4, <3>5, Zenon
  <2>5. CASE len = n + 2
    <3>1. /\ RegisterRoute(r) = [action |-> p[len], scope |-> <<p[n + 1]>>]
          /\ config.scopes # <<>>
      BY <1>3, <1>4, <2>5
    <3>2. Len(q) = 3 /\ 2 \in 2..Len(q) /\ 3 \in 2..Len(q)
          /\ n + 2 - 1 = n + 1 /\ n + 3 - 1 = len /\ len > 1 /\ len - 1 = n + 1
      BY <1>3, <2>2, <2>5
    <3>3. q[3] = p[len] /\ q[2] = p[n + 1]
      <4>1. q[2] = p[n + 2 - 1] /\ q[3] = p[n + 3 - 1]
        BY <2>1, <3>2
      <4> QED  BY <3>2, <4>1, Zenon
    <3>4. ServeHTTPRoute(r, q) =
            [action |-> p[len],
             scope  |-> IF config.scopes # <<>> THEN <<q[2]>> ELSE NoScope]
      BY <2>3, <3>2, <3>3
    <3>5. ServeHTTPRoute(r, p) = RegisterRoute(r)
      BY <1>5, <3>1, <3>2, Zenon
    <3> QED  BY <1>4, <2>1, <3>1, <3>3, <3>4, <3>5, Zenon
  <2> QED  BY <1>3, <2>4, <2>5
<1> QED  BY <1>6, <1>7

-----------------------------------------------------------------------------
(* The inductive invariant: what a client holds was served for its scope.    *)

\* The route that gave x named its scope, which the options allow.
Named(x) ==
    config.requireScope =>
        /\ x.scope # NoScope
        /\ config.scopes[1] = {} \/ x.scope \in config.scopes[1]
        /\ NamesScope(x.path, x.scope)

HttpInv ==
    /\ config \in Configs
    /\ DOMAIN issued = Challenges /\ DOMAIN tokens = Challenges
    /\ \A c \in Challenges : issued[c] # <<>> => Named(issued[c][1])
    /\ \A c \in Challenges : tokens[c] # <<>> =>
          /\ issued[c] # <<>>
          /\ tokens[c][1].scope = issued[c][1].scope
          /\ Named(tokens[c][1])

LEMMA HttpInit == Init => HttpInv
BY DEF Init, HttpInv

\* Only the options say what is named.
LEMMA NamedAlike ==
    ASSUME config' = config, NEW x
    PROVE  Named(x)' <=> Named(x)
BY DEF Named, NamesScope

\* A served request of RequireScope names an allowed scope.
LEMMA ServedIsNamed ==
    ASSUME config \in Configs, NEW r \in Requests, ScopeOk(Route(r).scope),
           NEW x, x.scope = Route(r).scope, x.path = r.path
    PROVE  Named(x)
<1>1. SUFFICES ASSUME config.requireScope
               PROVE  /\ x.scope # NoScope
                      /\ config.scopes[1] = {} \/ x.scope \in config.scopes[1]
                      /\ NamesScope(x.path, x.scope)
  BY DEF Named
<1>2. /\ Route(r).scope # NoScope
      /\ config.scopes[1] = {} \/ Route(r).scope \in config.scopes[1]
  BY <1>1 DEF ScopeOk
<1>3. NamesScope(r.path, Route(r).scope)
  BY <1>2, RouteScope
<1> QED  BY <1>2, <1>3

\* A new challenge keeps it.
LEMMA ChallengeKeeps ==
    ASSUME HttpInv, NEW r \in Requests, Challenge(r, Route(r))
    PROVE  HttpInv'
<1>1. config' = config /\ tokens' = tokens /\ config \in Configs
      /\ ScopeOk(Route(r).scope)
  BY DEF Challenge, Serves, HttpInv
<1>2. ASSUME NEW x PROVE Named(x)' <=> Named(x)
  BY <1>1, NamedAlike
<1>3. CASE UNCHANGED issued
  BY <1>1, <1>3 DEF HttpInv, Named, NamesScope
<1>4. ASSUME NEW c \in Challenges, NEW signed \in BOOLEAN, issued[c] = <<>>,
             issued' = [issued EXCEPT ![c] =
                 <<[scope |-> Route(r).scope, path |-> r.path, signed |-> signed]>>]
      PROVE  HttpInv'
  <2>1. PICK x : /\ x = [scope |-> Route(r).scope, path |-> r.path, signed |-> signed]
                 /\ issued' = [issued EXCEPT ![c] = <<x>>]
    BY <1>4
  <2>2. Named(x)
    <3>1. x.scope = Route(r).scope /\ x.path = r.path
      BY <2>1
    <3> QED  BY <1>1, <3>1, ServedIsNamed
  <2>3. /\ DOMAIN issued' = Challenges
        /\ issued'[c] = <<x>>
        /\ \A d \in Challenges : d # c => issued'[d] = issued[d]
    BY <2>1 DEF HttpInv
  <2>4. tokens[c] = <<>>
    BY <1>4 DEF HttpInv
  <2>5. ASSUME NEW d \in Challenges, issued'[d] # <<>>
        PROVE  Named(issued'[d][1])
    BY <2>2, <2>3, <2>5 DEF HttpInv
  <2>6. ASSUME NEW d \in Challenges, tokens[d] # <<>>
        PROVE  /\ issued'[d] # <<>>
               /\ tokens[d][1].scope = issued'[d][1].scope
               /\ Named(tokens[d][1])
    BY <2>3, <2>4, <2>6 DEF HttpInv
  <2>7. ASSUME NEW d \in Challenges, issued'[d] # <<>>
        PROVE  Named(issued[d][1])'
    BY <1>1, <2>5, <2>7 DEF Named, NamesScope
  <2>8. ASSUME NEW d \in Challenges, tokens'[d] # <<>>
        PROVE  Named(tokens[d][1])'
    BY <1>1, <2>6, <2>8 DEF Named, NamesScope
  <2> QED  BY <1>1, <2>3, <2>6, <2>7, <2>8 DEF HttpInv
<1> QED  BY <1>3, <1>4 DEF Challenge

\* A redemption keeps it, whatever it gives.
LEMMA RedeemKeeps ==
    ASSUME HttpInv, NEW r \in Requests, NEW c \in Challenges, NEW work \in Work,
           Serves(Route(r), "redeem"), issued[c] # <<>>, Fits(Route(r), c),
           IssueToken(r, Route(r), c, work), UNCHANGED <<config, issued>>
    PROVE  HttpInv'
<1>1. /\ config' = config /\ issued' = issued /\ config \in Configs
      /\ ScopeOk(Route(r).scope)
      /\ ScopeFits(issued[c][1].scope, Route(r).scope)
  BY DEF Serves, Fits, RedeemOptions, HttpInv
<1>2. CASE UNCHANGED tokens
  BY <1>1, <1>2 DEF HttpInv, Named, NamesScope
<1>3. ASSUME tokens' = [tokens EXCEPT ![c] =
                 <<[scope |-> issued[c][1].scope, path |-> r.path]>>]
      PROVE  HttpInv'
  <2>1. PICK x : /\ x = [scope |-> issued[c][1].scope, path |-> r.path]
                 /\ tokens' = [tokens EXCEPT ![c] = <<x>>]
    BY <1>3
  <2>2. x.scope = issued[c][1].scope /\ x.path = r.path
    BY <2>1
  <2>3. Named(x)
    <3>1. CASE config.requireScope
      <4>1. Route(r).scope # NoScope
        BY <1>1, <3>1 DEF ScopeOk
      <4>2. x.scope = Route(r).scope
        BY <1>1, <2>2, <4>1 DEF ScopeFits
      <4> QED  BY <1>1, <2>2, <4>2, ServedIsNamed
    <3>2. CASE ~config.requireScope
      BY <3>2 DEF Named
    <3> QED  BY <3>1, <3>2
  <2>4. /\ DOMAIN tokens' = Challenges
        /\ tokens'[c] = <<x>>
        /\ \A d \in Challenges : d # c => tokens'[d] = tokens[d]
    BY <2>1 DEF HttpInv
  <2>5. ASSUME NEW d \in Challenges, tokens'[d] # <<>>
        PROVE  /\ issued[d] # <<>>
               /\ tokens'[d][1].scope = issued[d][1].scope
               /\ Named(tokens'[d][1])
    <3>1. CASE d = c
      BY <2>2, <2>3, <2>4, <3>1
    <3>2. CASE d # c
      BY <2>4, <2>5, <3>2 DEF HttpInv
    <3> QED  BY <3>1, <3>2
  <2>6. ASSUME NEW d \in Challenges, tokens'[d] # <<>>
        PROVE  Named(tokens[d][1])'
    BY <1>1, <2>5, <2>6 DEF Named, NamesScope
  <2>7. ASSUME NEW d \in Challenges, issued'[d] # <<>>
        PROVE  Named(issued[d][1])'
    BY <1>1, <2>7 DEF Named, NamesScope, HttpInv
  <2> QED  BY <1>1, <2>4, <2>5, <2>6, <2>7 DEF HttpInv
<1> QED  BY <1>2, <1>3 DEF IssueToken

LEMMA ValidateKeeps ==
    ASSUME HttpInv, NEW c \in Challenges, Validate(c)
    PROVE  HttpInv'
<1>1. /\ config' = config /\ issued' = issued
      /\ tokens' = [tokens EXCEPT ![c] = <<>>]
  BY DEF Validate
<1>2. /\ DOMAIN tokens' = Challenges
      /\ tokens'[c] = <<>>
      /\ \A d \in Challenges : d # c => tokens'[d] = tokens[d]
  BY <1>1 DEF HttpInv
<1>3. ASSUME NEW d \in Challenges, tokens'[d] # <<>>
      PROVE  tokens'[d] = tokens[d]
  BY <1>2, <1>3
<1> QED  BY <1>1, <1>2, <1>3 DEF HttpInv, Named, NamesScope

\* The other steps leave what clients hold alone.
LEMMA HttpSame ==
    ASSUME HttpInv, UNCHANGED <<config, issued, tokens>>
    PROVE  HttpInv'
BY DEF HttpInv, Named, NamesScope

LEMMA HttpStep == HttpInv /\ [Next]_vars => HttpInv'
<1> SUFFICES ASSUME HttpInv, [Next]_vars PROVE HttpInv'
  OBVIOUS
<1>1. CASE UNCHANGED vars
  BY <1>1, HttpSame DEF vars
<1>2. ASSUME NEW r \in Requests, Refuse(Route(r)) PROVE HttpInv'
  BY <1>2, HttpSame DEF Refuse
<1>3. ASSUME NEW r \in Requests, Challenge(r, Route(r)) PROVE HttpInv'
  BY <1>3, ChallengeKeeps
<1>4. ASSUME NEW r \in Requests, RedeemBadBody(Route(r)) PROVE HttpInv'
  BY <1>4, HttpSame DEF RedeemBadBody
<1>5. ASSUME NEW r \in Requests, NEW c \in Challenges, NEW work \in Work,
             RedeemRefused(Route(r), c, work)
      PROVE  HttpInv'
  BY <1>5, HttpSame DEF RedeemRefused
<1>6. ASSUME NEW r \in Requests, NEW c \in Challenges, NEW work \in Work,
             RedeemStoreFails(Route(r), c, work)
      PROVE  HttpInv'
  BY <1>6, HttpSame DEF RedeemStoreFails
<1>7. ASSUME NEW r \in Requests, NEW c \in Challenges, NEW work \in Work,
             Take(r, Route(r), c, work)
      PROVE  HttpInv'
  <2>1. CASE UNCHANGED tokens
    BY <1>7, <2>1, HttpSame DEF Take
  <2>2. CASE ~UNCHANGED tokens
    <3>1. /\ Serves(Route(r), "redeem") /\ issued[c] # <<>> /\ Fits(Route(r), c)
          /\ IssueToken(r, Route(r), c, work) /\ UNCHANGED <<config, issued>>
      BY <1>7, <2>2 DEF Take
    <3> QED  BY <3>1, RedeemKeeps
  <2> QED  BY <2>1, <2>2
<1>8. ASSUME NEW r \in Requests, NEW c \in Challenges, NEW work \in Work,
             Claim(r, Route(r), c, work)
      PROVE  HttpInv'
  <2>1. CASE UNCHANGED tokens
    BY <1>8, <2>1, HttpSame DEF Claim
  <2>2. CASE ~UNCHANGED tokens
    <3>1. /\ Serves(Route(r), "redeem") /\ issued[c] # <<>>
          /\ issued[c][1].signed /\ ReachesStore(Route(r), c, work)
          /\ IssueToken(r, Route(r), c, work) /\ UNCHANGED <<config, issued>>
      BY <1>8, <2>2 DEF Claim
    <3>2. Fits(Route(r), c)
      BY <3>1 DEF ReachesStore
    <3> QED  BY <3>1, <3>2, RedeemKeeps
  <2> QED  BY <2>1, <2>2
<1>9. ASSUME NEW c \in Challenges, Expire(c) PROVE HttpInv'
  BY <1>9, HttpSame DEF Expire
<1>10. ASSUME NEW c \in Challenges, Validate(c) PROVE HttpInv'
  BY <1>10, ValidateKeeps
<1> QED
  BY <1>1, <1>2, <1>3, <1>4, <1>5, <1>6, <1>7, <1>8, <1>9, <1>10, Zenon DEF Next

\* What clients hold was served for its scope, in every reachable state.
THEOREM HttpInvariant == Spec => []HttpInv
BY HttpInit, HttpStep, PTL DEF Spec

-----------------------------------------------------------------------------
(* The properties of CapHttp *)

\* With RequireScope, the requests behind a token named its scope, for any
\* options, allowlist, paths and mount (Handler.scope, Handler.Redeem).
THEOREM TokensNameScope == Spec => []RoutesNameScope
<1>1. HttpInv => RoutesNameScope
  <2> SUFFICES ASSUME HttpInv, config.requireScope, NEW c \in Challenges,
                      tokens[c] # <<>>
               PROVE  /\ tokens[c][1].scope # NoScope
                      /\ \/ config.scopes[1] = {}
                         \/ tokens[c][1].scope \in config.scopes[1]
                      /\ NamesScope(issued[c][1].path, tokens[c][1].scope)
                      /\ NamesScope(tokens[c][1].path, tokens[c][1].scope)
    BY DEF RoutesNameScope
  <2>1. /\ issued[c] # <<>> /\ tokens[c][1].scope = issued[c][1].scope
        /\ Named(tokens[c][1]) /\ Named(issued[c][1])
    BY DEF HttpInv
  <2> QED  BY <2>1 DEF Named
<1> QED  BY HttpInvariant, <1>1, PTL

\* With an allowlist of names, ServeHTTP behind StripPrefix serves what Register
\* serves, for any prefix, options and path, with whatever slashes of it
\* escaped (Handler.Register, Handler.ServeHTTP).
THEOREM BothMountsAgree == Spec => []MountsAgree
<1>1. HttpInv => MountsAgree
  BY RoutesAgree DEF HttpInv
<1> QED  BY HttpInvariant, <1>1, PTL

\* What makes RejectionIsFinal inductive: a rejection is about a challenge.
FinalInv ==
    /\ DOMAIN age = Challenges
    /\ last.status = "rejected" => last.chal \in Challenges
    /\ RejectionIsFinal

\* A rejection of right work is final, whatever the store and the issuing of
\* the token do (redeemStored, redeemSigned, storeErr, Handler.Redeem).
THEOREM RejectedIsFinal == Spec => []RejectionIsFinal
<1>1. Init => FinalInv
  BY DEF Init, FinalInv, RejectionIsFinal, Nothing
<1>2. FinalInv /\ [Next]_vars => FinalInv'
  <2> SUFFICES ASSUME FinalInv, [Next]_vars PROVE FinalInv'
    OBVIOUS
  <2>1. CASE UNCHANGED vars
    BY <2>1 DEF vars, FinalInv, RejectionIsFinal
  <2>2. ASSUME last'.status # "rejected", age' = age PROVE FinalInv'
    BY <2>2 DEF FinalInv, RejectionIsFinal
  <2>3. ASSUME NEW r \in Requests, NEW c \in Challenges, NEW work \in Work,
               NEW status, AnswerRedeem(Route(r), c, work, status), age' = age,
               \/ status # "rejected" \/ c \in spent' \/ work # "right"
               \/ age[c] # "live" \/ ~Fits(Route(r), c)
        PROVE  FinalInv'
    <3>1. /\ issued[c] = issued[c]
          /\ last'.status = status /\ last'.chal = c /\ last'.work = work
          /\ last'.fits = ScopeFits(issued[c][1].scope, Route(r).scope)
      BY <2>3 DEF AnswerRedeem
    <3>2. Fits(Route(r), c) <=> ScopeFits(issued[c][1].scope, Route(r).scope)
      BY DEF Fits, RedeemOptions
    <3> QED  BY <2>3, <3>1, <3>2 DEF FinalInv, RejectionIsFinal
  <2>4. ASSUME NEW r \in Requests,
               \/ Refuse(Route(r)) \/ Challenge(r, Route(r))
               \/ RedeemBadBody(Route(r))
        PROVE  FinalInv'
    <3>1. last'.status # "rejected" /\ age' = age
      BY <2>4 DEF Refuse, Challenge, RedeemBadBody, Answer
    <3> QED  BY <2>2, <3>1
  <2>5. ASSUME NEW r \in Requests, NEW c \in Challenges, NEW work \in Work,
               RedeemRefused(Route(r), c, work)
        PROVE  FinalInv'
    <3>1. work # "right" \/ age[c] # "live" \/ ~Fits(Route(r), c)
      BY <2>5 DEF RedeemRefused, ReachesStore
    <3>2. AnswerRedeem(Route(r), c, work, ErrorStatus(Fail)) /\ age' = age
      BY <2>5 DEF RedeemRefused
    <3> QED  BY <2>3, <3>1, <3>2
  <2>6. ASSUME NEW r \in Requests, NEW c \in Challenges, NEW work \in Work,
               RedeemStoreFails(Route(r), c, work)
        PROVE  FinalInv'
    <3>1. last'.status = ErrorStatus(StoreErr) /\ age' = age
      BY <2>6 DEF RedeemStoreFails, AnswerRedeem
    <3>2. ErrorStatus(StoreErr) = "failed"
      BY DEF ErrorStatus, StoreErr, Error
    <3> QED  BY <2>2, <3>1, <3>2
  <2>7. ASSUME NEW r \in Requests, NEW c \in Challenges, NEW work \in Work,
               Take(r, Route(r), c, work) \/ Claim(r, Route(r), c, work)
        PROVE  FinalInv'
    <3>1. c \in spent' /\ age' = age
      BY <2>7 DEF Take, Claim
    <3>2. \E status : AnswerRedeem(Route(r), c, work, status)
      <4>1. IssueToken(r, Route(r), c, work)
              => \E status : AnswerRedeem(Route(r), c, work, status)
        BY Zenon DEF IssueToken
      <4> QED  BY <2>7, <4>1, Zenon DEF Take, Claim
    <3> QED  BY <2>3, <3>1, <3>2
  <2>8. ASSUME NEW c \in Challenges, Expire(c) PROVE FinalInv'
    <3>1. /\ last' = last /\ spent' = spent /\ DOMAIN age' = Challenges
          /\ \A d \in Challenges : age'[d] = age[d] \/ age'[d] # "live"
      BY <2>8 DEF Expire, FinalInv
    <3> QED  BY <3>1 DEF FinalInv, RejectionIsFinal
  <2>9. ASSUME NEW c \in Challenges, Validate(c) PROVE FinalInv'
    <3>1. last'.status # "rejected" /\ age' = age
      BY <2>9 DEF Validate, Nothing
    <3> QED  BY <2>2, <3>1
  <2> QED  BY <2>1, <2>4, <2>5, <2>6, <2>7, <2>8, <2>9, Zenon DEF Next
<1>3. FinalInv => RejectionIsFinal
  BY DEF FinalInv
<1> QED  BY <1>1, <1>2, <1>3, PTL DEF Spec
=============================================================================
