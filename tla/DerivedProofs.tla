---------------------------- MODULE DerivedProofs ----------------------------
(***************************************************************************)
(* Server and client compute the same, for any number of goroutines and    *)
(* keypairs, scripts, tokens and programs: the minter cache of Rsw fits    *)
(* the options and its trapdoor gives what squaring gives, StringTable     *)
(* keeps the meaning of a script, the salts and targets of Prng are the    *)
(* widget's, and InstrProgram's server expects what the script reports.    *)
(***************************************************************************)
EXTENDS Derived, SequenceTheorems, FiniteSetTheorems, WellFoundedInduction, TLAPS

-----------------------------------------------------------------------------
(* The minter cache *)

\* The cached minter is for the options in force too.
MinterInv ==
    /\ DOMAIN using = Workers
    /\ minters # <<>> => minters[1].n = key[1].n /\ minters[1].t = count
    /\ R!MinterFitsOptions

LEMMA MinterOfKey ==
    ASSUME NEW k, NEW t, NEW raw, NEW m, m = R!NewRSWMinter(k, t, raw)
    PROVE  m.n = k.n /\ m.t = t
BY DEF R!NewRSWMinter

LEMMA MinterStep ==
    ASSUME MinterInv, [R!Next]_(R!vars) PROVE MinterInv'
<1>1. ASSUME NEW raw, NEW t, R!New(raw, t) PROVE MinterInv'
  BY <1>1 DEF R!New, MinterInv, R!MinterFitsOptions
<1>2. ASSUME NEW w \in Workers, R!GetMinter(w) PROVE MinterInv'
  <2>1. /\ key' = key /\ count' = count /\ minters' # <<>>
        /\ using' = [using EXCEPT ![w] = minters']
        /\ minters'[1].n = key[1].n /\ minters'[1].t = count
    <3>1. CASE minters # <<>>
      BY <1>2, <3>1 DEF R!GetMinter, MinterInv
    <3>2. CASE minters = <<>>
      <4>1. PICK raw \in Bases : minters' = <<R!NewRSWMinter(key[1], count, raw)>>
        BY <1>2, <3>2 DEF R!GetMinter
      <4>2. PICK k, m : k = key[1] /\ m = R!NewRSWMinter(k, count, raw)
        OBVIOUS
      <4>3. m.n = k.n /\ m.t = count
        BY <4>2, MinterOfKey
      <4>4. minters' = <<m>>
        BY <4>1, <4>2
      <4> QED  BY <1>2, <3>2, <4>2, <4>3, <4>4 DEF R!GetMinter
    <3> QED  BY <3>1, <3>2
  <2> QED  BY <2>1 DEF MinterInv, R!MinterFitsOptions
<1>3. ASSUME NEW w \in Workers, R!Mint(w) PROVE MinterInv'
  BY <1>3 DEF R!Mint, MinterInv, R!MinterFitsOptions
<1>4. CASE R!Leave
  BY <1>4 DEF R!Leave, MinterInv, R!MinterFitsOptions
<1>5. CASE R!Reset
  BY <1>5 DEF R!Reset, MinterInv, R!MinterFitsOptions
<1>6. CASE UNCHANGED R!vars
  BY <1>6 DEF R!vars, MinterInv, R!MinterFitsOptions
<1> QED  BY <1>1, <1>2, <1>3, <1>4, <1>5, <1>6 DEF R!Next

\* A goroutine mints for the options of its Cap, for any number of goroutines
\* and keypairs and however often Reset empties the cache or New replaces it
\* (rswMinter in cap.go; New starts with an empty cache).
THEOREM MintersFit == Spec => []MinterFitsOptions
<1>1. Init => MinterInv
  BY DEF Init, R!Init, MinterInv, R!MinterFitsOptions
<1>2. MinterInv /\ [Next]_derivedVars => MinterInv'
  BY MinterStep DEF Next, derivedVars, rswVars, R!vars
<1>3. MinterInv => MinterFitsOptions
  BY DEF MinterInv, MinterFitsOptions
<1> QED  BY <1>1, <1>2, <1>3, PTL DEF Spec

-----------------------------------------------------------------------------
(* Collecting the literals of a script *)

\* Induction over the natural numbers, as the least-number principle.
LEMMA LeastNumber ==
    ASSUME NEW U \in SUBSET Nat, U # {}
    PROVE  \E m \in U : \A n \in U : m <= n
<1>1. IsWellFoundedOn(OpToRel(<, Nat), Nat)
  BY NatLessThanWellFounded, Zenon
<1>2. PICK m \in U : \A n \in U : ~(<<n, m>> \in OpToRel(<, Nat))
  BY <1>1, WFMin, Zenon
<1>3. \A n \in U : ~(n < m)
  BY <1>2 DEF OpToRel
<1> QED  BY <1>3

\* What Collected adds at piece k to the table that it has.
Added(s, k, table) ==
    IF \/ s[k].kind # "literal"
       \/ T!Contains(table, s[k].value)
    THEN table
    ELSE Append(table, s[k].value)

\* g is the function that Collected computes, up to n.
Collects(s, n, g) ==
    g = [k \in 0..n |-> IF k = 0 THEN <<>> ELSE Added(s, k, g[k - 1])]

LEMMA CollectsExtends ==
    ASSUME NEW s, NEW m \in Nat \ {0}, NEW g, Collects(s, m - 1, g)
    PROVE  \E h : Collects(s, m, h)
<1> DEFINE h == [k \in 0..m |-> IF k = m THEN Added(s, k, g[k - 1]) ELSE g[k]]
<1>1. ASSUME NEW k \in 0..m
      PROVE  h[k] = IF k = 0 THEN <<>> ELSE Added(s, k, h[k - 1])
  <2>1. k # 0 => h[k - 1] = g[k - 1]
    OBVIOUS
  <2>2. CASE k = m
    BY <2>1, <2>2
  <2>3. CASE k # m
    <3>1. k \in 0..(m - 1)
      BY <2>3
    <3>2. g[k] = IF k = 0 THEN <<>> ELSE Added(s, k, g[k - 1])
      BY <3>1 DEF Collects
    <3> QED  BY <2>1, <2>3, <3>2
  <2> QED  BY <2>2, <2>3
<1>2. h = [k \in 0..m |-> h[k]]
  OBVIOUS
<1> HIDE DEF h
<1>3. h = [k \in 0..m |-> IF k = 0 THEN <<>> ELSE Added(s, k, h[k - 1])]
  BY <1>1, <1>2
<1> QED  BY <1>3 DEF Collects

LEMMA CollectsExists ==
    ASSUME NEW s, NEW n \in Nat
    PROVE  \E g : Collects(s, n, g)
<1> DEFINE U == {m \in Nat : ~ \E g : Collects(s, m, g)}
<1> SUFFICES ASSUME U # {} PROVE FALSE
  OBVIOUS
<1>1. PICK m \in U : \A k \in U : m <= k
  BY LeastNumber
<1>2. CASE m = 0
  <2> DEFINE g == [k \in 0..0 |-> <<>>]
  <2>1. g = [k \in 0..0 |-> IF k = 0 THEN <<>> ELSE Added(s, k, g[k - 1])]
    OBVIOUS
  <2> HIDE DEF g
  <2>2. Collects(s, 0, g)
    BY <2>1 DEF Collects
  <2> QED  BY <1>2, <2>2
<1>3. CASE m # 0
  <2>1. m \in Nat \ {0} /\ m - 1 \in Nat /\ m - 1 \notin U
    BY <1>1, <1>3
  <2>2. PICK g : Collects(s, m - 1, g)
    BY <2>1
  <2> QED  BY <2>1, <2>2, CollectsExtends
<1> QED  BY <1>2, <1>3

LEMMA CollectedUnfolds ==
    ASSUME NEW s, NEW n \in Nat, n = Len(s)
    PROVE  \E g : Collects(s, n, g) /\ T!Collected(s) = g[n]
<1> DEFINE step == CHOOSE g : g = [k \in 0..Len(s) |->
                     IF k = 0 THEN <<>>
                     ELSE IF \/ s[k].kind # "literal"
                             \/ T!Contains(g[k - 1], s[k].value)
                          THEN g[k - 1]
                     ELSE Append(g[k - 1], s[k].value)]
<1>1. \E g : g = [k \in 0..Len(s) |->
                    IF k = 0 THEN <<>>
                    ELSE IF \/ s[k].kind # "literal"
                            \/ T!Contains(g[k - 1], s[k].value)
                         THEN g[k - 1]
                    ELSE Append(g[k - 1], s[k].value)]
  BY CollectsExists DEF Collects, Added
<1>2. step = [k \in 0..Len(s) |->
                IF k = 0 THEN <<>>
                ELSE IF \/ s[k].kind # "literal"
                        \/ T!Contains(step[k - 1], s[k].value)
                     THEN step[k - 1]
                ELSE Append(step[k - 1], s[k].value)]
  BY <1>1
<1>3. T!Collected(s) = step[Len(s)]
  BY DEF T!Collected
<1> HIDE DEF step
<1>4. Collects(s, n, step)
  BY <1>2 DEF Collects, Added
<1> QED  BY <1>3, <1>4

\* The table has the value of every literal up to k.
Holds(s, k, table) ==
    \A m \in 1..k : s[m].kind = "literal" => T!Contains(table, s[m].value)

LEMMA AddedHolds ==
    ASSUME NEW S, NEW table \in Seq(S), NEW s, NEW k \in Nat \ {0}, s[k].value \in S,
           Holds(s, k - 1, table), NEW new, new = Added(s, k, table)
    PROVE  new \in Seq(S) /\ Holds(s, k, new)
<1>1. CASE s[k].kind # "literal" \/ T!Contains(table, s[k].value)
  <2>1. new = table
    BY <1>1 DEF Added
  <2>2. ASSUME NEW m \in 1..k, s[m].kind = "literal"
        PROVE  T!Contains(table, s[m].value)
    <3>1. m = k \/ m \in 1..(k - 1)
      OBVIOUS
    <3> QED  BY <1>1, <2>2, <3>1 DEF Holds
  <2> QED  BY <2>1, <2>2 DEF Holds
<1>2. CASE s[k].kind = "literal" /\ ~T!Contains(table, s[k].value)
  <2>1. PICK v \in S : v = s[k].value
    OBVIOUS
  <2>2. new = Append(table, v)
    BY <1>2, <2>1 DEF Added
  <2>3. /\ new \in Seq(S) /\ Len(new) = Len(table) + 1 /\ Len(table) \in Nat
        /\ new[Len(table) + 1] = v
        /\ \A j \in 1..Len(table) : new[j] = table[j]
    BY <2>2, AppendProperties, LenProperties
  <2>4. ASSUME NEW m \in 1..k, s[m].kind = "literal"
        PROVE  T!Contains(new, s[m].value)
    <3>1. CASE m = k
      <4>1. Len(table) + 1 \in 1..Len(new) /\ new[Len(table) + 1] = s[m].value
        BY <2>1, <2>3, <3>1
      <4> QED  BY <4>1 DEF T!Contains
    <3>2. CASE m # k
      <4>1. m \in 1..(k - 1)
        BY <3>2
      <4>2. T!Contains(table, s[m].value)
        BY <2>4, <4>1 DEF Holds
      <4>3. PICK j \in 1..Len(table) : table[j] = s[m].value
        BY <4>2 DEF T!Contains
      <4>4. j \in 1..Len(new) /\ new[j] = s[m].value
        BY <2>3, <4>3
      <4> QED  BY <4>4 DEF T!Contains
    <3> QED  BY <3>1, <3>2
  <2> QED  BY <2>3, <2>4 DEF Holds
<1> QED  BY <1>1, <1>2

\* Every literal of a script has its value in the table.
LEMMA CollectedHolds ==
    ASSUME NEW s, NEW n \in Nat, n = Len(s),
           NEW S, S = {s[m].value : m \in 1..n}, NEW table, table = T!Collected(s)
    PROVE  table \in Seq(S) /\ Holds(s, n, table)
<1>1. PICK g : Collects(s, n, g) /\ table = g[n]
  BY CollectedUnfolds
<1>2. ASSUME NEW k \in 0..n
      PROVE  g[k] = IF k = 0 THEN <<>> ELSE Added(s, k, g[k - 1])
  BY <1>1 DEF Collects
<1> DEFINE U == {k \in 0..n : ~(g[k] \in Seq(S) /\ Holds(s, k, g[k]))}
<1>3. SUFFICES ASSUME U # {} PROVE FALSE
  <2>1. n \in 0..n
    OBVIOUS
  <2> QED  BY <1>1, <2>1
<1>4. PICK k \in U : \A j \in U : k <= j
  <2>1. U \in SUBSET Nat
    OBVIOUS
  <2> HIDE DEF U
  <2> QED  BY <1>3, <2>1, LeastNumber
<1>5. CASE k = 0
  <2>1. g[0] = <<>>
    BY <1>2
  <2>2. g[0] \in Seq(S)
    BY <2>1
  <2>3. Holds(s, 0, g[0])
    <3>1. \A m \in 1..0 : FALSE
      OBVIOUS
    <3> QED  BY <3>1, Zenon DEF Holds
  <2> QED  BY <1>4, <1>5, <2>2, <2>3
<1>6. CASE k # 0
  <2>1. k \in Nat \ {0} /\ k \in 1..n /\ k - 1 \in 0..n /\ k - 1 \notin U
    <3>1. k \in 0..n
      BY <1>4
    <3>2. k \in Nat \ {0} /\ k \in 1..n /\ k - 1 \in 0..n /\ ~(k <= k - 1)
      BY <1>6, <3>1
    <3> HIDE DEF U
    <3>3. k - 1 \notin U
      BY <1>4, <3>2
    <3> QED  BY <3>2, <3>3
  <2>2. PICK old, new : old = g[k - 1] /\ new = g[k]
    OBVIOUS
  <2>3. /\ old \in Seq(S) /\ Holds(s, k - 1, old)
        /\ new = Added(s, k, old) /\ s[k].value \in S
    BY <1>2, <2>1, <2>2
  <2>4. new \in Seq(S) /\ Holds(s, k, new)
    BY <2>1, <2>3, AddedHolds
  <2> QED  BY <1>4, <2>2, <2>4
<1> QED  BY <1>5, <1>6

-----------------------------------------------------------------------------
(* Shuffling and writing *)

\* The table has the values of all literals whatever the shuffle did so far,
\* and nothing moves in it once the script is written.
TableInv ==
    /\ Len(values) \in Nat
    /\ DOMAIN values = 1..Len(values)
    /\ i \in Int /\ i <= Len(values)
    /\ out # <<>> => i <= 1
    /\ \A k \in DOMAIN script : script[k].kind = "literal" =>
         \E j \in DOMAIN values : values[j] = script[k].value
    /\ values = [j \in 1..Len(values) |-> values[j]]
    /\ T!SameScript

LEMMA TableInit ==
    ASSUME T!Init PROVE TableInv
<1>1. PICK n \in Nat : script \in [1..n -> T!Pieces]
  <2>1. script \in UNION {[1..m -> T!Pieces] : m \in 0..MaxPieces}
    BY DEF T!Init, T!Scripts, T!BoundedSeq, T!SeqOf
  <2>2. PICK m \in 0..MaxPieces : script \in [1..m -> T!Pieces]
    BY <2>1
  <2>3. m \in Nat
    BY <2>2
  <2> QED  BY <2>2, <2>3
<1>2. Len(script) = n /\ DOMAIN script = 1..n
  BY <1>1
<1>3. PICK S, s, table : /\ s = script /\ S = {s[m].value : m \in 1..n}
                         /\ table = T!Collected(s)
  OBVIOUS
<1>4. table \in Seq(S) /\ Holds(s, n, table)
  BY <1>2, <1>3, CollectedHolds
<1>5. values = table /\ i = Len(table) /\ out = <<>>
  BY <1>3 DEF T!Init
<1>6. /\ Len(table) \in Nat /\ DOMAIN table = 1..Len(table)
      /\ table = [j \in 1..Len(table) |-> table[j]]
  <2>1. Len(table) \in Nat /\ table \in [1..Len(table) -> S] /\ DOMAIN table = 1..Len(table)
    BY <1>4, LenProperties
  <2> QED  BY <2>1
<1>7. ASSUME NEW k \in DOMAIN script, script[k].kind = "literal"
      PROVE  \E j \in DOMAIN values : values[j] = script[k].value
  <2>1. T!Contains(table, s[k].value)
    BY <1>2, <1>3, <1>4, <1>7 DEF Holds
  <2> QED  BY <1>3, <1>5, <1>6, <2>1 DEF T!Contains
<1> QED  BY <1>5, <1>6, <1>7 DEF TableInv, T!SameScript

LEMMA TableStep ==
    ASSUME TableInv, [T!Next]_(T!vars) PROVE TableInv'
<1>1. CASE T!Shuffle
  <2>1. PICK n \in Nat : n = Len(values)
    BY DEF TableInv
  <2>2. PICK a, b : /\ a = i /\ b \in 1..i /\ i > 1 /\ i' = i - 1
                    /\ values' = [values EXCEPT ![a] = values[b], ![b] = values[a]]
                    /\ UNCHANGED <<script, index, out>>
    BY <1>1 DEF T!Shuffle
  <2>3. a \in 1..n /\ b \in 1..n /\ i' \in Int /\ i' <= n /\ out = <<>>
    BY <2>1, <2>2 DEF TableInv
  <2>4. DOMAIN values = 1..n /\ values = [j \in 1..n |-> values[j]]
    BY <2>1 DEF TableInv
  <2>5. values' = [j \in 1..n |-> IF j = b THEN values[a]
                                  ELSE IF j = a THEN values[b] ELSE values[j]]
    BY <2>2, <2>3, <2>4
  <2>6. Len(values') = n /\ DOMAIN values' = 1..n
    BY <2>5
  <2>7. values' = [j \in 1..Len(values') |-> values'[j]]
    BY <2>5, <2>6
  <2>8. ASSUME NEW k \in DOMAIN script, script[k].kind = "literal"
        PROVE  \E j \in 1..n : values'[j] = script[k].value
    <3>1. PICK j \in 1..n : values[j] = script[k].value
      BY <2>4, <2>8 DEF TableInv
    <3>2. \E m \in 1..n : values'[m] = values[j]
      <4>1. CASE j = a
        BY <2>3, <2>5, <4>1
      <4>2. CASE j = b
        <5>1. values'[a] = values[b]
          BY <2>3, <2>5
        <5> QED  BY <2>3, <4>2, <5>1
      <4>3. CASE j # a /\ j # b
        BY <2>5, <3>1, <4>3
      <4> QED  BY <4>1, <4>2, <4>3
    <3> QED  BY <3>1, <3>2
  <2>9. T!SameScript'
    BY <2>2, <2>3 DEF T!SameScript
  <2> QED  BY <2>2, <2>3, <2>6, <2>7, <2>8, <2>9 DEF TableInv
<1>2. CASE T!Write
  <2>1. /\ i <= 1 /\ UNCHANGED <<script, values, i>>
        /\ index' = T!IndexOf(values)
        /\ out' = [k \in DOMAIN script |->
                     IF script[k].kind = "literal"
                     THEN T!Ref(index'[script[k].value]) ELSE script[k]]
    BY <1>2 DEF T!Write, T!Reindexed
  <2>2. ASSUME NEW k \in DOMAIN script, script[k].kind = "literal"
        PROVE  out'[k].kind = "ref" /\ values[out'[k].value] = script[k].value
    <3>1. PICK v : v = script[k].value
      OBVIOUS
    <3>2. PICK j \in DOMAIN values : values[j] = v
      BY <2>2, <3>1 DEF TableInv
    <3>3. v \in T!ToSet(values)
      BY <3>2 DEF T!ToSet
    <3>4. index'[v] = CHOOSE m \in DOMAIN values : values[m] = v
      BY <2>1, <3>3 DEF T!IndexOf
    <3>5. values[index'[v]] = v
      BY <3>2, <3>4
    <3>6. out'[k] = T!Ref(index'[v])
      BY <2>1, <2>2, <3>1
    <3> QED  BY <3>1, <3>5, <3>6 DEF T!Ref
  <2>3. T!SameScript'
    BY <2>1, <2>2 DEF T!SameScript
  <2> QED  BY <2>1, <2>3 DEF TableInv
<1>3. CASE UNCHANGED T!vars
  BY <1>3 DEF T!vars, TableInv, T!SameScript
<1> QED  BY <1>1, <1>2, <1>3 DEF T!Next, T!Done

\* The script that obfuscateStrings writes means what the script it was given
\* means, for scripts of any length and any random shuffle.
THEOREM ScriptKept == Spec => []SameScript
<1> DEFINE Inv == part = "table" => TableInv
<1>1. Init => Inv
  BY TableInit DEF Init
<1>2. Inv /\ [Next]_derivedVars => Inv'
  BY TableStep DEF Next, derivedVars, tableVars, T!vars
<1>3. Inv => SameScript
  BY DEF TableInv, SameScript
<1> QED  BY <1>1, <1>2, <1>3, PTL DEF Spec

-----------------------------------------------------------------------------
(* Resuming a hash *)

\* h is the function that Fnv1a32Resume computes, up to n.
Hashes(state, input, n, h) ==
    h = [k \in 0..n |-> IF k = 0 THEN state ELSE P!Mix(h[k - 1], input[k])]

LEMMA HashesExtends ==
    ASSUME NEW state, NEW input, NEW m \in Nat \ {0}, NEW g,
           Hashes(state, input, m - 1, g)
    PROVE  \E h : Hashes(state, input, m, h)
<1> DEFINE h == [k \in 0..m |-> IF k = m THEN P!Mix(g[k - 1], input[k]) ELSE g[k]]
<1>1. ASSUME NEW k \in 0..m
      PROVE  h[k] = IF k = 0 THEN state ELSE P!Mix(h[k - 1], input[k])
  <2>1. k # 0 => h[k - 1] = g[k - 1]
    OBVIOUS
  <2>2. CASE k = m
    BY <2>1, <2>2
  <2>3. CASE k # m
    <3>1. k \in 0..(m - 1)
      BY <2>3
    <3>2. g[k] = IF k = 0 THEN state ELSE P!Mix(g[k - 1], input[k])
      BY <3>1 DEF Hashes
    <3> QED  BY <2>1, <2>3, <3>2
  <2> QED  BY <2>2, <2>3
<1>2. h = [k \in 0..m |-> h[k]]
  OBVIOUS
<1> HIDE DEF h
<1>3. h = [k \in 0..m |-> IF k = 0 THEN state ELSE P!Mix(h[k - 1], input[k])]
  BY <1>1, <1>2
<1> QED  BY <1>3 DEF Hashes

LEMMA HashesExists ==
    ASSUME NEW state, NEW input, NEW n \in Nat
    PROVE  \E h : Hashes(state, input, n, h)
<1> DEFINE U == {m \in Nat : ~ \E h : Hashes(state, input, m, h)}
<1> SUFFICES ASSUME U # {} PROVE FALSE
  OBVIOUS
<1>1. PICK m \in U : \A k \in U : m <= k
  BY LeastNumber
<1>2. CASE m = 0
  <2> DEFINE h == [k \in 0..0 |-> state]
  <2>1. h = [k \in 0..0 |-> IF k = 0 THEN state ELSE P!Mix(h[k - 1], input[k])]
    OBVIOUS
  <2> HIDE DEF h
  <2>2. Hashes(state, input, 0, h)
    BY <2>1 DEF Hashes
  <2> QED  BY <1>2, <2>2
<1>3. CASE m # 0
  <2>1. m \in Nat \ {0} /\ m - 1 \in Nat /\ m - 1 \notin U
    BY <1>1, <1>3
  <2>2. PICK h : Hashes(state, input, m - 1, h)
    BY <2>1
  <2> QED  BY <2>1, <2>2, HashesExtends
<1> QED  BY <1>2, <1>3

LEMMA ResumeUnfolds ==
    ASSUME NEW state, NEW input, NEW n \in Nat, n = Len(input)
    PROVE  \E h : Hashes(state, input, n, h) /\ P!Fnv1a32Resume(state, input) = h[n]
<1> DEFINE h == CHOOSE g : g = [k \in 0..Len(input) |->
                  IF k = 0 THEN state ELSE P!Mix(g[k - 1], input[k])]
<1>1. \E g : g = [k \in 0..Len(input) |->
                    IF k = 0 THEN state ELSE P!Mix(g[k - 1], input[k])]
  <2>1. \E g : Hashes(state, input, Len(input), g)
    BY HashesExists
  <2> QED  BY <2>1, Zenon DEF Hashes
<1>2. h = [k \in 0..Len(input) |->
             IF k = 0 THEN state ELSE P!Mix(h[k - 1], input[k])]
  BY <1>1
<1>3. P!Fnv1a32Resume(state, input) = h[Len(input)]
  BY DEF P!Fnv1a32Resume
<1> HIDE DEF h
<1>4. Hashes(state, input, n, h) /\ P!Fnv1a32Resume(state, input) = h[n]
  BY <1>2, <1>3 DEF Hashes
<1> QED  BY <1>4

\* The hash of one text resumed with another is the hash of both.
LEMMA ResumeConcat ==
    ASSUME NEW S, NEW a \in Seq(S), NEW b \in Seq(S), NEW state
    PROVE  P!Fnv1a32Resume(P!Fnv1a32Resume(state, a), b) =
           P!Fnv1a32Resume(state, a \o b)
<1>1. PICK m \in Nat, n \in Nat : m = Len(a) /\ n = Len(b)
  BY LenProperties
<1>2. PICK c : c = a \o b
  OBVIOUS
<1>3. Len(c) = m + n /\ m + n \in Nat
      /\ \A k \in 1..(m + n) : c[k] = IF k <= m THEN a[k] ELSE b[k - m]
  BY <1>1, <1>2, ConcatProperties
<1>4. PICK f : Hashes(state, a, m, f) /\ P!Fnv1a32Resume(state, a) = f[m]
  BY <1>1, ResumeUnfolds
<1>5. PICK g : Hashes(f[m], b, n, g) /\ P!Fnv1a32Resume(f[m], b) = g[n]
  BY <1>1, ResumeUnfolds
<1>6. PICK h : Hashes(state, c, m + n, h) /\ P!Fnv1a32Resume(state, c) = h[m + n]
  BY <1>3, ResumeUnfolds
<1> DEFINE U == {k \in 0..(m + n) : h[k] # IF k <= m THEN f[k] ELSE g[k - m]}
<1>7. ASSUME U # {} PROVE FALSE
  <2>1. PICK k \in U : \A j \in U : k <= j
    <3>1. U \in SUBSET Nat
      OBVIOUS
    <3> HIDE DEF U
    <3> QED  BY <1>7, <3>1, LeastNumber
  <2>2. k \in 0..(m + n) /\ h[k] # IF k <= m THEN f[k] ELSE g[k - m]
    BY <2>1
  <2>3. h[k] = IF k = 0 THEN state ELSE P!Mix(h[k - 1], c[k])
    BY <1>6, <2>2 DEF Hashes
  <2>4. CASE k = 0
    <3>1. f[0] = state
      BY <1>4 DEF Hashes
    <3> QED  BY <2>2, <2>3, <2>4, <3>1
  <2>5. CASE k # 0
    <3>1. k \in 1..(m + n) /\ k - 1 \in 0..(m + n) /\ ~(k <= k - 1)
      BY <2>2, <2>5
    <3>2. k - 1 \notin U
      <4> HIDE DEF U
      <4> QED  BY <2>1, <3>1
    <3>3. h[k - 1] = IF k - 1 <= m THEN f[k - 1] ELSE g[k - 1 - m]
      BY <3>1, <3>2
    <3>4. CASE k <= m
      <4>1. k \in 0..m /\ k - 1 <= m /\ c[k] = a[k]
        BY <1>3, <3>1, <3>4
      <4>2. f[k] = P!Mix(f[k - 1], a[k])
        BY <1>4, <2>5, <4>1 DEF Hashes
      <4> QED  BY <2>2, <2>3, <2>5, <3>3, <3>4, <4>1, <4>2
    <3>5. CASE k = m + 1
      <4>1. k - m = 1 /\ 1 \in 0..n /\ 0 \in 0..n /\ k - 1 = m /\ ~(k <= m)
        BY <3>1, <3>5
      <4>3. c[k] = b[k - m]
        BY <1>3, <3>1, <4>1
      <4>2. g[1] = P!Mix(g[1 - 1], b[1]) /\ 1 - 1 = 0 /\ g[0] = f[m]
        BY <1>5, <4>1 DEF Hashes
      <4> QED  BY <2>2, <2>3, <2>5, <3>3, <4>1, <4>2, <4>3
    <3>6. CASE k > m + 1
      <4>1. /\ k - m \in 0..n /\ k - m # 0 /\ k - 1 - m = (k - m) - 1
            /\ ~(k - 1 <= m) /\ ~(k <= m) /\ c[k] = b[k - m]
        BY <1>3, <3>1, <3>6
      <4>2. g[k - m] = P!Mix(g[(k - m) - 1], b[k - m])
        BY <1>5, <4>1 DEF Hashes
      <4> QED  BY <2>2, <2>3, <2>5, <3>3, <4>1, <4>2
    <3> QED  BY <3>1, <3>4, <3>5, <3>6
  <2> QED  BY <2>4, <2>5
<1>8. m + n \in 0..(m + n) /\ m + n \notin U
  BY <1>3, <1>7
<1>9. h[m + n] = IF m + n <= m THEN f[m + n] ELSE g[m + n - m]
  BY <1>8
<1>10. CASE n = 0
  <2>1. g[0] = f[m]
    BY <1>5, <1>10 DEF Hashes
  <2> QED  BY <1>2, <1>4, <1>5, <1>6, <1>9, <1>10, <2>1
<1>11. CASE n # 0
  <2>1. ~(m + n <= m) /\ m + n - m = n
    BY <1>11
  <2> QED  BY <1>2, <1>4, <1>5, <1>6, <1>9, <2>1
<1> QED  BY <1>10, <1>11

LEMMA TokenIsSeq ==
    Spec => [](part = "prng" => token \in Seq(Units))
<1> DEFINE Inv == part = "prng" => token \in Seq(Units)
<1>1. Init => Inv
  BY DEF Init, P!Init
<1>2. Inv /\ [Next]_derivedVars => Inv'
  <2> SUFFICES ASSUME Inv, [Next]_derivedVars, part' = "prng"
               PROVE  token' \in Seq(Units)
    OBVIOUS
  <2>1. part = "prng" /\ token \in Seq(Units)
    BY DEF Next, derivedVars
  <2>2. CASE P!Extend
    BY <2>1, <2>2, AppendProperties DEF P!Extend
  <2>3. CASE token' = token
    BY <2>1, <2>3
  <2> QED  BY <2>1, <2>2, <2>3 DEF Next, derivedVars, P!Next, P!Full
<1> QED  BY <1>1, <1>2, PTL DEF Spec

\* The server resumes the hash of the token with the index and the letter d
\* (format1Pair); the widget hashes the whole text (PRNG). For every token,
\* index and length and any bit operator in the hash they derive the same.
THEOREM PuzzlesDerivedAlike == Spec => []ServerMatchesWidget
<1>1. ASSUME token \in Seq(Units) PROVE P!ServerMatchesWidget
  <2> SUFFICES ASSUME NEW j \in 1..MaxIndex, NEW n \in 1..MaxDigits
               PROVE  P!Format1Pair(token, j, n, n) =
                        [salt   |-> P!PRNG(token \o P!Sprint(j), n),
                         target |-> P!PRNG(token \o P!Sprint(j) \o <<UnitD>>, n)]
    BY DEF P!ServerMatchesWidget
  <2>1. PICK S : S = Units \cup {P!Sprint(j)[k] : k \in DOMAIN P!Sprint(j)}
                       \cup {UnitD}
    OBVIOUS
  <2>2. PICK a, b, d : a = token /\ b = P!Sprint(j) /\ d = <<UnitD>>
    OBVIOUS
  <2>3. a \in Seq(S)
    <3>1. Units \subseteq S
      BY <2>1
    <3> QED  BY <1>1, <2>2, <3>1
  <2>4. b \in Seq(S)
    <3>1. PICK w : w = IF j < 10 THEN 1 ELSE IF j < 100 THEN 2
                     ELSE IF j < 1000 THEN 3 ELSE 4
      OBVIOUS
    <3>2. w \in Nat
      BY <3>1
    <3>3. b = [k \in 1..w |-> 48 + ((j \div 10 ^ (w - k)) % 10)]
      BY <2>2, <3>1 DEF P!Sprint
    <3>4. DOMAIN b = 1..w /\ b = [k \in 1..w |-> b[k]]
      BY <3>3
    <3>5. \A k \in 1..w : b[k] \in S
      BY <2>1, <2>2, <3>4
    <3> QED  BY <3>2, <3>4, <3>5
  <2>5. d \in Seq(S)
    BY <2>1, <2>2
  <2>6. PICK x, y : /\ x = P!Fnv1a32Resume(P!Fnv1a32(a), b)
                    /\ y = P!Fnv1a32Resume(x, d)
    OBVIOUS
  <2>7. x = P!Fnv1a32(a \o b)
    BY <2>3, <2>4, <2>6, ResumeConcat DEF P!Fnv1a32
  <2>8. y = P!Fnv1a32((a \o b) \o d)
    <3>1. a \o b \in Seq(S)
      BY <2>3, <2>4, ConcatProperties
    <3> QED  BY <2>5, <2>6, <2>7, <3>1, ResumeConcat DEF P!Fnv1a32
  <2> QED  BY <2>2, <2>6, <2>7, <2>8 DEF P!Format1Pair, P!TargetState, P!PRNG
<1>2. (part = "prng" => token \in Seq(Units)) => ServerMatchesWidget
  BY <1>1 DEF ServerMatchesWidget
<1> QED  BY <1>2, TokenIsSeq, PTL

-----------------------------------------------------------------------------
(* The stream of digits *)

\* Where the loop of prngFromHash begins.
Start(state) == [state |-> state, out |-> <<>>]

\* g is the function that PrngFromHash computes, up to n.
Rounds(state, length, n, g) ==
    g = [k \in 0..n |-> IF k = 0 THEN Start(state) ELSE P!Round(g[k - 1], length)]

LEMMA RoundsExtends ==
    ASSUME NEW state, NEW length, NEW m \in Nat \ {0}, NEW g,
           Rounds(state, length, m - 1, g)
    PROVE  \E h : Rounds(state, length, m, h)
<1> DEFINE h == [k \in 0..m |-> IF k = m THEN P!Round(g[k - 1], length) ELSE g[k]]
<1>1. ASSUME NEW k \in 0..m
      PROVE  h[k] = IF k = 0 THEN Start(state) ELSE P!Round(h[k - 1], length)
  <2>1. k # 0 => h[k - 1] = g[k - 1]
    OBVIOUS
  <2>2. CASE k = m
    BY <2>1, <2>2
  <2>3. CASE k # m
    <3>1. k \in 0..(m - 1)
      BY <2>3
    <3>2. g[k] = IF k = 0 THEN Start(state) ELSE P!Round(g[k - 1], length)
      BY <3>1 DEF Rounds
    <3> QED  BY <2>1, <2>3, <3>2
  <2> QED  BY <2>2, <2>3
<1>2. h = [k \in 0..m |-> h[k]]
  OBVIOUS
<1> HIDE DEF h
<1>3. h = [k \in 0..m |-> IF k = 0 THEN Start(state) ELSE P!Round(h[k - 1], length)]
  BY <1>1, <1>2
<1> QED  BY <1>3 DEF Rounds

LEMMA RoundsExists ==
    ASSUME NEW state, NEW length, NEW n \in Nat
    PROVE  \E g : Rounds(state, length, n, g)
<1> DEFINE U == {m \in Nat : ~ \E g : Rounds(state, length, m, g)}
<1> SUFFICES ASSUME U # {} PROVE FALSE
  OBVIOUS
<1>1. PICK m \in U : \A k \in U : m <= k
  BY LeastNumber
<1>2. CASE m = 0
  <2> DEFINE g == [k \in 0..0 |-> Start(state)]
  <2>1. g = [k \in 0..0 |->
               IF k = 0 THEN Start(state) ELSE P!Round(g[k - 1], length)]
    OBVIOUS
  <2> HIDE DEF g
  <2>2. Rounds(state, length, 0, g)
    BY <2>1 DEF Rounds
  <2> QED  BY <1>2, <2>2
<1>3. CASE m # 0
  <2>1. m \in Nat \ {0} /\ m - 1 \in Nat /\ m - 1 \notin U
    BY <1>1, <1>3
  <2>2. PICK g : Rounds(state, length, m - 1, g)
    BY <2>1
  <2> QED  BY <2>1, <2>2, RoundsExtends
<1> QED  BY <1>2, <1>3

LEMMA PrngUnfolds ==
    ASSUME NEW state, NEW length \in Nat
    PROVE  \E g : /\ Rounds(state, length, length, g)
                  /\ P!PrngFromHash(state, length) = SubSeq(g[length].out, 1, length)
<1> DEFINE h == CHOOSE g : g = [k \in 0..length |->
                  IF k = 0 THEN [state |-> state, out |-> <<>>]
                  ELSE P!Round(g[k - 1], length)]
<1>1. \E g : g = [k \in 0..length |->
                    IF k = 0 THEN [state |-> state, out |-> <<>>]
                    ELSE P!Round(g[k - 1], length)]
  <2>1. \E g : Rounds(state, length, length, g)
    BY RoundsExists
  <2> QED  BY <2>1, Zenon DEF Rounds, Start
<1>2. h = [k \in 0..length |->
             IF k = 0 THEN [state |-> state, out |-> <<>>]
             ELSE P!Round(h[k - 1], length)]
  BY <1>1
<1>3. P!PrngFromHash(state, length) = SubSeq(h[length].out, 1, length)
  BY DEF P!PrngFromHash, P!FirstDigits
<1> HIDE DEF h
<1>4. Rounds(state, length, length, h)
  BY <1>2, Zenon DEF Rounds, Start
<1> QED  BY <1>3, <1>4

\* The digits of the word that a round appends are in S.
DigitsIn(S, s) == \A k \in 1..(Width \div 4) : P!Hex(P!NextWord(s.state))[k] \in S

LEMMA RoundAdds ==
    ASSUME NEW S, NEW s, s.out \in Seq(S), DigitsIn(S, s), NEW length \in Nat,
           NEW r, r = P!Round(s, length)
    PROVE  /\ r.out \in Seq(S)
           /\ Len(r.out) >= length \/ Len(r.out) >= Len(s.out) + 1
           /\ Len(r.out) >= Len(s.out)
           /\ \A j \in 1..Len(s.out) : r.out[j] = s.out[j]
<1>1. PICK D, hex : D = Width \div 4 /\ hex = P!Hex(P!NextWord(s.state))
  OBVIOUS
<1>2. D \in Nat /\ D >= 1
  BY <1>1, DerivedAssumption DEF P!DigitsFit
<1>3. hex = [k \in 1..D |-> hex[k]]
  BY <1>1 DEF P!Hex
<1>4. \A k \in 1..D : hex[k] \in S
  BY <1>1 DEF DigitsIn
<1>5. hex \in Seq(S) /\ Len(hex) = D
  BY <1>2, <1>3, <1>4
<1>6. Len(s.out) \in Nat
  BY LenProperties
<1>7. CASE Len(s.out) >= length
  <2>1. r = s
    BY <1>7, Zenon DEF P!Round
  <2> QED  BY <1>6, <1>7, <2>1
<1>8. CASE ~(Len(s.out) >= length)
  <2>1. r.out = s.out \o hex
    BY <1>1, <1>8 DEF P!Round
  <2>2. /\ s.out \o hex \in Seq(S)
        /\ Len(s.out \o hex) = Len(s.out) + Len(hex)
        /\ \A k \in 1..(Len(s.out) + Len(hex)) : (s.out \o hex)[k] =
             IF k <= Len(s.out) THEN s.out[k] ELSE hex[k - Len(s.out)]
    BY <1>5, ConcatProperties
  <2> QED  BY <1>2, <1>5, <1>6, <2>1, <2>2
<1> QED  BY <1>7, <1>8

\* After k rounds for n digits (a) and for one more (b): the texts agree as far
\* as that of a goes, and all is equal while a is not done.
Agree(S, n, k, a, b) ==
    /\ a.out \in Seq(S)
    /\ b.out \in Seq(S)
    /\ k <= Len(a.out)
    /\ Len(a.out) <= Len(b.out)
    /\ \A j \in 1..Len(a.out) : b.out[j] = a.out[j]
    /\ Len(a.out) < n => a = b

LEMMA RoundsAgree ==
    ASSUME NEW S, NEW n \in Nat, NEW k \in Nat, k + 1 <= n, NEW a, NEW b,
           Agree(S, n, k, a, b), DigitsIn(S, a), DigitsIn(S, b),
           NEW c, c = P!Round(a, n), NEW d, d = P!Round(b, n + 1)
    PROVE  Agree(S, n, k + 1, c, d)
<1>1. /\ a.out \in Seq(S) /\ b.out \in Seq(S)
      /\ Len(a.out) \in Nat /\ Len(b.out) \in Nat
      /\ k <= Len(a.out) /\ Len(a.out) <= Len(b.out)
      /\ \A j \in 1..Len(a.out) : b.out[j] = a.out[j]
  BY LenProperties DEF Agree
<1>2. /\ c.out \in Seq(S)
      /\ Len(c.out) >= n \/ Len(c.out) >= Len(a.out) + 1
      /\ Len(c.out) >= Len(a.out)
  BY <1>1, RoundAdds
<1>3. /\ d.out \in Seq(S)
      /\ Len(d.out) >= Len(b.out)
      /\ \A j \in 1..Len(b.out) : d.out[j] = b.out[j]
  <2>1. n + 1 \in Nat
    OBVIOUS
  <2> QED  BY <1>1, <2>1, RoundAdds
<1>4. Len(c.out) \in Nat /\ Len(d.out) \in Nat
  BY <1>2, <1>3, LenProperties
<1>5. k + 1 <= Len(c.out)
  BY <1>1, <1>2, <1>4
<1>6. CASE Len(a.out) < n
  <2>1. a = b
    BY <1>6 DEF Agree
  <2>2. ~(Len(a.out) >= n) /\ ~(Len(b.out) >= n + 1)
    BY <1>1, <1>6, <2>1
  <2>3. c = d
    BY <2>1, <2>2, Zenon DEF P!Round
  <2> QED  BY <1>2, <1>3, <1>4, <1>5, <2>3 DEF Agree
<1>7. CASE ~(Len(a.out) < n)
  <2>1. c = a
    <3>1. Len(a.out) >= n
      BY <1>1, <1>7
    <3> QED  BY <3>1, Zenon DEF P!Round
  <2> QED  BY <1>1, <1>2, <1>3, <1>4, <1>5, <1>7, <2>1 DEF Agree
<1> QED  BY <1>6, <1>7

\* The target of one more digit begins with the target.
LEMMA LongerBegins ==
    ASSUME NEW state, NEW n \in Nat
    PROVE  P!IsPrefix(P!PrngFromHash(state, n), P!PrngFromHash(state, n + 1))
<1>1. PICK A : /\ Rounds(state, n, n, A)
               /\ P!PrngFromHash(state, n) = SubSeq(A[n].out, 1, n)
  BY PrngUnfolds
<1>2. PICK B : /\ Rounds(state, n + 1, n + 1, B)
               /\ P!PrngFromHash(state, n + 1) = SubSeq(B[n + 1].out, 1, n + 1)
  <2>1. n + 1 \in Nat
    OBVIOUS
  <2> QED  BY <2>1, PrngUnfolds
<1>3. PICK S : \A k \in 0..n : DigitsIn(S, A[k]) /\ DigitsIn(S, B[k])
  <2> DEFINE W == {A[k] : k \in 0..n} \cup {B[k] : k \in 0..n}
             S == {P!Hex(P!NextWord(w.state))[j] : w \in W, j \in 1..(Width \div 4)}
  <2>1. \A w \in W : DigitsIn(S, w)
    BY DEF DigitsIn
  <2>2. \A k \in 0..n : A[k] \in W /\ B[k] \in W
    OBVIOUS
  <2> HIDE DEF S, W
  <2> QED  BY <2>1, <2>2
<1> DEFINE U == {k \in 0..n : ~Agree(S, n, k, A[k], B[k])}
<1>4. ASSUME U # {} PROVE FALSE
  <2>1. PICK k \in U : \A j \in U : k <= j
    <3>1. U \in SUBSET Nat
      OBVIOUS
    <3> HIDE DEF U
    <3> QED  BY <1>4, <3>1, LeastNumber
  <2>2. k \in 0..n /\ ~Agree(S, n, k, A[k], B[k])
    BY <2>1
  <2>3. CASE k = 0
    <3>1. A[0] = Start(state) /\ B[0] = Start(state)
      BY <1>1, <1>2 DEF Rounds
    <3>2. PICK a : a = Start(state)
      OBVIOUS
    <3>3. a.out \in Seq(S) /\ Len(a.out) = 0
      BY <3>2 DEF Start
    <3>4. Agree(S, n, 0, a, a)
      BY <3>3 DEF Agree
    <3> QED  BY <2>2, <2>3, <3>1, <3>2, <3>4
  <2>4. CASE k # 0
    <3>1. k - 1 \in 0..n /\ k - 1 \in Nat /\ (k - 1) + 1 = k /\ ~(k <= k - 1)
      BY <2>2, <2>4
    <3>2. k - 1 \notin U
      <4> HIDE DEF U
      <4> QED  BY <2>1, <3>1
    <3>3. Agree(S, n, k - 1, A[k - 1], B[k - 1])
      BY <3>1, <3>2
    <3>4. A[k] = P!Round(A[k - 1], n) /\ B[k] = P!Round(B[k - 1], n + 1)
      BY <1>1, <1>2, <2>2, <2>4 DEF Rounds
    <3>5. DigitsIn(S, A[k - 1]) /\ DigitsIn(S, B[k - 1])
      BY <1>3, <3>1
    <3>6. Agree(S, n, (k - 1) + 1, A[k], B[k])
      BY <2>2, <3>1, <3>3, <3>4, <3>5, RoundsAgree
    <3> QED  BY <2>2, <3>1, <3>6
  <2> QED  BY <2>3, <2>4
<1>5. n \in 0..n /\ n \notin U
  BY <1>4
<1>6. PICK a, b, c : a = A[n].out /\ b = B[n].out /\ c = B[n + 1].out
  OBVIOUS
<1>7. /\ a \in Seq(S) /\ b \in Seq(S) /\ n <= Len(a) /\ Len(a) <= Len(b)
      /\ \A j \in 1..Len(a) : b[j] = a[j]
  BY <1>5, <1>6 DEF Agree
<1>8. /\ c \in Seq(S)
      /\ Len(c) >= n + 1 \/ Len(c) >= Len(b) + 1
      /\ Len(c) >= Len(b)
      /\ \A j \in 1..Len(b) : c[j] = b[j]
  <2>1. n + 1 \in 0..(n + 1) /\ n + 1 # 0 /\ (n + 1) - 1 = n /\ n + 1 \in Nat
    OBVIOUS
  <2>2. B[n + 1] = P!Round(B[n], n + 1)
    BY <1>2, <2>1 DEF Rounds
  <2>3. DigitsIn(S, B[n])
    BY <1>3, <1>5
  <2>4. PICK s, r : s = B[n] /\ r = B[n + 1]
    OBVIOUS
  <2> QED  BY <1>6, <1>7, <2>1, <2>2, <2>3, <2>4, RoundAdds
<1>9. /\ Len(a) \in Nat /\ Len(b) \in Nat /\ Len(c) \in Nat
      /\ n + 1 <= Len(c)
      /\ \A j \in 1..n : c[j] = a[j]
  BY <1>7, <1>8, LenProperties
<1>10. PICK x, y : x = SubSeq(a, 1, n) /\ y = SubSeq(c, 1, n + 1)
  OBVIOUS
<1>11. /\ x \in Seq(S) /\ Len(x) = n
       /\ \A j \in 1..n : x[j] = a[j]
  BY <1>7, <1>9, <1>10, ElementOfSeq, SubSeqProperties
<1>12. /\ y \in Seq(S) /\ Len(y) = n + 1
       /\ \A j \in 1..(n + 1) : y[j] = c[j]
  BY <1>8, <1>9, <1>10, ElementOfSeq, SubSeqProperties
<1>13. SubSeq(x, 1, n) = SubSeq(y, 1, n)
  <2>1. PICK u, v : u = SubSeq(x, 1, n) /\ v = SubSeq(y, 1, n)
    OBVIOUS
  <2>2. u \in Seq(S) /\ Len(u) = n /\ \A j \in 1..n : u[j] = x[j]
    BY <1>11, <2>1, ElementOfSeq, SubSeqProperties
  <2>3. v \in Seq(S) /\ Len(v) = n /\ \A j \in 1..n : v[j] = y[j]
    BY <1>12, <2>1, ElementOfSeq, SubSeqProperties
  <2>4. ASSUME NEW j \in 1..n PROVE u[j] = v[j]
    <3>1. j \in 1..(n + 1)
      OBVIOUS
    <3>2. u[j] = x[j] /\ x[j] = a[j] /\ v[j] = y[j] /\ y[j] = c[j] /\ c[j] = a[j]
      BY <1>9, <1>11, <1>12, <2>2, <2>3, <3>1
    <3> QED  BY <3>2
  <2> QED  BY <2>1, <2>2, <2>3, <2>4, SeqEqual
<1>14. P!IsPrefix(x, y)
  BY <1>11, <1>12, <1>13 DEF P!IsPrefix
<1> QED  BY <1>1, <1>2, <1>6, <1>10, <1>14

\* A longer target begins with the shorter one (prngFromHash), for every token,
\* puzzle and length and whatever the words are: to ask for more digits is to
\* ask for more work.
THEOREM LongerTargetsHarder == Spec => []LongerIsHarder
<1>1. P!LongerIsHarder
  BY LongerBegins DEF P!LongerIsHarder
<1>2. LongerIsHarder
  BY <1>1 DEF LongerIsHarder
<1> QED  BY <1>2, PTL

-----------------------------------------------------------------------------
(* Words *)

LEMMA WordsFit ==
    /\ Half \in Nat \ {0}
    /\ \A a, b \in 0..(2 * Half - 1) :
         /\ AndOp(a, b) \in 0..(2 * Half - 1)
         /\ OrOp(a, b) \in 0..(2 * Half - 1)
         /\ XorOp(a, b) \in 0..(2 * Half - 1)
         /\ AndOp(a, 1) = a % 2
         /\ AndOp(a, Half - 1) < Half
<1>1. Half \in Nat \ {0}
  BY DerivedAssumption DEF I!Fitting
<1> QED  BY <1>1, DerivedAssumption, Zenon DEF I!BitsFit

LEMMA DivMod ==
    ASSUME NEW m \in Nat, m > 0, NEW v \in Int
    PROVE  v = m * (v \div m) + (v % m)
BY Z3

LEMMA BitsTyped ==
    ASSUME NEW a \in Int PROVE I!Bits(a) \in 0..(2 * Half - 1)
<1>1. PICK m \in Nat : m = 2 * Half /\ m > 0
  BY WordsFit
<1>2. a % m \in 0..(m - 1)
  BY <1>1
<1> QED  BY <1>1, <1>2 DEF I!Bits

LEMMA WordTyped ==
    ASSUME NEW u \in 0..(2 * Half - 1) PROVE I!Word(u) \in Int
BY WordsFit DEF I!Word

LEMMA OpsTyped ==
    ASSUME NEW a \in Int, NEW b \in Int
    PROVE  /\ I!BAnd(a, b) \in Int
           /\ I!BOr(a, b) \in Int
           /\ I!BXor(a, b) \in Int
           /\ I!BNot(a) \in Int
<1>1. PICK x \in 0..(2 * Half - 1), y \in 0..(2 * Half - 1) :
         x = I!Bits(a) /\ y = I!Bits(b)
  BY BitsTyped
<1>2. PICK c, o, e : c = AndOp(x, y) /\ o = OrOp(x, y) /\ e = XorOp(x, y)
  OBVIOUS
<1>3. /\ c \in 0..(2 * Half - 1)
      /\ o \in 0..(2 * Half - 1)
      /\ e \in 0..(2 * Half - 1)
  BY <1>2, WordsFit
<1>4. I!Word(c) \in Int /\ I!Word(o) \in Int /\ I!Word(e) \in Int
  BY <1>3, WordTyped
<1>5. /\ I!BAnd(a, b) = I!Word(c)
      /\ I!BOr(a, b) = I!Word(o)
      /\ I!BXor(a, b) = I!Word(e)
  BY <1>1, <1>2, Zenon DEF I!BAnd, I!BOr, I!BXor
<1>6. I!BNot(a) \in Int
  BY DEF I!BNot
<1> QED  BY <1>4, <1>5, <1>6

\* (v & 1) == 0 asks for the parity of v, of either sign.
LEMMA ParityAgrees ==
    ASSUME NEW v \in Int PROVE I!BAnd(v, 1) = 0 <=> v % 2 = 0
<1>1. PICK x \in 0..(2 * Half - 1) : x = I!Bits(v)
  BY BitsTyped
<1>2. I!Bits(1) = 1
  <2>1. PICK m \in Nat : m = 2 * Half /\ m > 1
    BY WordsFit
  <2>2. 1 % m = 1
    BY <2>1
  <2> QED  BY <2>1, <2>2 DEF I!Bits
<1>3. x % 2 = v % 2
  <2>1. PICK m \in Nat : m = 2 * Half /\ m > 0
    BY WordsFit
  <2>2. PICK q \in Int : q = v \div m
    BY <2>1
  <2>3. v = m * q + x
    <3>1. x = v % m
      BY <1>1, <2>1 DEF I!Bits
    <3>2. v = m * (v \div m) + (v % m)
      BY <2>1, DivMod
    <3> QED  BY <2>2, <3>1, <3>2
  <2>4. PICK e \in Int : e = Half * q
    BY WordsFit
  <2>5. m * q = 2 * e
    BY <2>1, <2>4, WordsFit
  <2> QED  BY <2>3, <2>5
<1>4. AndOp(x, 1) = x % 2
  BY WordsFit
<1>5. I!BAnd(v, 1) = I!Word(x % 2)
  BY <1>1, <1>2, <1>4 DEF I!BAnd
<1>6. I!Word(x % 2) = 0 <=> x % 2 = 0
  BY WordsFit DEF I!Word
<1> QED  BY <1>3, <1>5, <1>6

\* The last step cannot tell the remainders apart: its operand is no negative.
LEMMA SaltedAlike ==
    ASSUME NEW v \in Int, NEW salt \in Int
    PROVE  /\ I!Salted(v, salt) = I!SaltedInScript(v, salt)
           /\ I!Salted(v, salt) \in Int
<1>1. PICK e \in Int : e = I!BXor(v, salt)
  BY OpsTyped
<1>2. PICK x \in 0..(2 * Half - 1) : x = I!Bits(e)
  BY <1>1, BitsTyped
<1>3. I!Bits(Half - 1) = Half - 1
  <2>1. PICK m \in Nat : m = 2 * Half /\ m > 0
    BY WordsFit
  <2>2. Half - 1 \in 0..(m - 1)
    BY <2>1, WordsFit
  <2>3. (Half - 1) % m = Half - 1
    BY <2>1, <2>2
  <2> QED  BY <2>1, <2>3 DEF I!Bits
<1>4. PICK c : c = AndOp(x, Half - 1)
  OBVIOUS
<1>5. c \in Nat /\ c < Half
  <2>1. Half - 1 \in 0..(2 * Half - 1)
    BY WordsFit
  <2> QED  BY <1>4, <2>1, WordsFit
<1>6. I!BAnd(e, Half - 1) = c
  BY <1>2, <1>3, <1>4, <1>5 DEF I!BAnd, I!Word
<1>7. Spread \in Nat \ {0} /\ Offset \in Nat
  BY DerivedAssumption DEF I!Fitting
<1>8. c >= 0 /\ (c % Spread) + Offset \in Int
  BY <1>5, <1>7
<1>9. /\ I!Salted(v, salt) = I!Rem(c, Spread) + Offset
      /\ I!SaltedInScript(v, salt) = (c % Spread) + Offset
  BY <1>1, <1>6 DEF I!Salted, I!SaltedInScript
<1>10. I!Rem(c, Spread) = c % Spread
  BY <1>8 DEF I!Rem
<1> QED  BY <1>8, <1>9, <1>10

-----------------------------------------------------------------------------
(* Chains of nodes *)

\* A step of domSumMock for the server, of the script's loop for the client.
StepOf(side, s) == IF side = "server" THEN I!ChainStep(s) ELSE I!AppendNode(s)

\* g is the function that BuildChain or AppendChain computes, up to n.
Iterates(side, start, n, g) ==
    g = [k \in 0..n |-> IF k = 0 THEN start ELSE StepOf(side, g[k - 1])]

LEMMA IteratesExtends ==
    ASSUME NEW side, NEW start, NEW m \in Nat \ {0}, NEW g,
           Iterates(side, start, m - 1, g)
    PROVE  \E h : Iterates(side, start, m, h)
<1> DEFINE h == [k \in 0..m |-> IF k = m THEN StepOf(side, g[k - 1]) ELSE g[k]]
<1>1. ASSUME NEW k \in 0..m
      PROVE  h[k] = IF k = 0 THEN start ELSE StepOf(side, h[k - 1])
  <2>1. k # 0 => h[k - 1] = g[k - 1]
    OBVIOUS
  <2>2. CASE k = m
    BY <2>1, <2>2
  <2>3. CASE k # m
    <3>1. k \in 0..(m - 1)
      BY <2>3
    <3>2. g[k] = IF k = 0 THEN start ELSE StepOf(side, g[k - 1])
      BY <3>1 DEF Iterates
    <3> QED  BY <2>1, <2>3, <3>2
  <2> QED  BY <2>2, <2>3
<1>2. h = [k \in 0..m |-> h[k]]
  OBVIOUS
<1> HIDE DEF h
<1>3. h = [k \in 0..m |-> IF k = 0 THEN start ELSE StepOf(side, h[k - 1])]
  BY <1>1, <1>2
<1> QED  BY <1>3 DEF Iterates

LEMMA IteratesExists ==
    ASSUME NEW side, NEW start, NEW n \in Nat
    PROVE  \E g : Iterates(side, start, n, g)
<1> DEFINE U == {m \in Nat : ~ \E g : Iterates(side, start, m, g)}
<1> SUFFICES ASSUME U # {} PROVE FALSE
  OBVIOUS
<1>1. PICK m \in U : \A k \in U : m <= k
  BY LeastNumber
<1>2. CASE m = 0
  <2> DEFINE g == [k \in 0..0 |-> start]
  <2>1. g = [k \in 0..0 |-> IF k = 0 THEN start ELSE StepOf(side, g[k - 1])]
    OBVIOUS
  <2> HIDE DEF g
  <2>2. Iterates(side, start, 0, g)
    BY <2>1 DEF Iterates
  <2> QED  BY <1>2, <2>2
<1>3. CASE m # 0
  <2>1. m \in Nat \ {0} /\ m - 1 \in Nat /\ m - 1 \notin U
    BY <1>1, <1>3
  <2>2. PICK g : Iterates(side, start, m - 1, g)
    BY <2>1
  <2> QED  BY <2>1, <2>2, IteratesExtends
<1> QED  BY <1>2, <1>3

LEMMA BuildChainUnfolds ==
    ASSUME NEW sum, NEW v, Chain \in Nat
    PROVE  \E g : /\ Iterates("server", [sum |-> sum, v |-> v], Chain, g)
                  /\ I!BuildChain(sum, v) = g[Chain].sum
<1> DEFINE h == CHOOSE g : g = [k \in 0..Chain |->
                  IF k = 0 THEN [sum |-> sum, v |-> v] ELSE I!ChainStep(g[k - 1])]
<1>1. \E g : g = [k \in 0..Chain |->
                    IF k = 0 THEN [sum |-> sum, v |-> v] ELSE I!ChainStep(g[k - 1])]
  <2>1. \E g : Iterates("server", [sum |-> sum, v |-> v], Chain, g)
    BY IteratesExists
  <2> QED  BY <2>1, Zenon DEF Iterates, StepOf
<1>2. h = [k \in 0..Chain |->
             IF k = 0 THEN [sum |-> sum, v |-> v] ELSE I!ChainStep(h[k - 1])]
  BY <1>1
<1>3. I!BuildChain(sum, v) = h[Chain].sum
  BY DEF I!BuildChain
<1> HIDE DEF h
<1>4. Iterates("server", [sum |-> sum, v |-> v], Chain, h)
  BY <1>2, Zenon DEF Iterates, StepOf
<1> QED  BY <1>3, <1>4

LEMMA AppendChainUnfolds ==
    ASSUME NEW dom, NEW v, Chain \in Nat,
           NEW start, start = [nodes |-> dom.nodes, p |-> dom.p, v |-> v]
    PROVE  \E g : /\ Iterates("client", start, Chain, g)
                  /\ I!AppendChain(dom, v) = [nodes |-> g[Chain].nodes, p |-> g[Chain].p]
<1> DEFINE h == CHOOSE g : g = [k \in 0..Chain |->
                  IF k = 0 THEN [nodes |-> dom.nodes, p |-> dom.p, v |-> v]
                  ELSE I!AppendNode(g[k - 1])]
<1>0. "client" # "server"
  OBVIOUS
<1>1. \E g : g = [k \in 0..Chain |->
                    IF k = 0 THEN [nodes |-> dom.nodes, p |-> dom.p, v |-> v]
                    ELSE I!AppendNode(g[k - 1])]
  <2>1. \E g : Iterates("client", start, Chain, g)
    BY IteratesExists
  <2> QED  BY <1>0, <2>1, Zenon DEF Iterates, StepOf
<1>2. h = [k \in 0..Chain |->
             IF k = 0 THEN [nodes |-> dom.nodes, p |-> dom.p, v |-> v]
             ELSE I!AppendNode(h[k - 1])]
  BY <1>1
<1>3. I!AppendChain(dom, v) = [nodes |-> h[Chain].nodes, p |-> h[Chain].p]
  BY DEF I!AppendChain
<1> HIDE DEF h
<1>4. Iterates("client", start, Chain, h)
  BY <1>0, <1>2, Zenon DEF Iterates, StepOf
<1> QED  BY <1>3, <1>4

-----------------------------------------------------------------------------
(* The walk up *)

\* What A builds: every node hangs below an older one, or below the root.
Tree(nodes) ==
    /\ nodes \in Seq([parent : Nat, text : Int])
    /\ \A k \in 1..Len(nodes) : nodes[k].parent < k

\* up is the function that B's walk computes, for the first n nodes.
Sums(nodes, n, up) ==
    up = [k \in 0..n |-> IF k = 0 THEN 0 ELSE nodes[k].text + up[nodes[k].parent]]

LEMMA SumsExtend ==
    ASSUME NEW nodes, Tree(nodes), NEW m \in Nat \ {0}, m <= Len(nodes),
           NEW up, Sums(nodes, m - 1, up)
    PROVE  \E h : Sums(nodes, m, h)
<1> DEFINE h == [k \in 0..m |-> IF k = m THEN nodes[k].text + up[nodes[k].parent]
                                ELSE up[k]]
<1>1. ASSUME NEW k \in 0..m
      PROVE  h[k] = IF k = 0 THEN 0 ELSE nodes[k].text + h[nodes[k].parent]
  <2>1. CASE k = 0
    <3>1. k \in 0..(m - 1) /\ k # m
      BY <2>1
    <3> QED  BY <2>1, <3>1 DEF Sums
  <2>2. CASE k # 0
    <3>1. PICK q \in 0..(m - 1) : q = nodes[k].parent /\ q < k
      <4>1. k \in 1..Len(nodes) /\ k <= m
        BY <2>2, LenProperties DEF Tree
      <4>2. nodes[k] \in [parent : Nat, text : Int]
        BY <4>1, ElementOfSeq DEF Tree
      <4>3. nodes[k].parent \in Nat /\ nodes[k].parent < k
        BY <4>1, <4>2 DEF Tree
      <4> QED  BY <4>1, <4>3
    <3>2. h[q] = up[q]
      BY <3>1
    <3>3. CASE k = m
      BY <2>2, <3>1, <3>2, <3>3
    <3>4. CASE k # m
      <4>1. k \in 0..(m - 1)
        BY <3>4
      <4>2. up[k] = nodes[k].text + up[nodes[k].parent]
        BY <2>2, <4>1 DEF Sums
      <4> QED  BY <2>2, <3>1, <3>2, <3>4, <4>2
    <3> QED  BY <3>3, <3>4
  <2> QED  BY <2>1, <2>2
<1>2. h = [k \in 0..m |-> h[k]]
  OBVIOUS
<1> HIDE DEF h
<1>3. h = [k \in 0..m |-> IF k = 0 THEN 0 ELSE nodes[k].text + h[nodes[k].parent]]
  BY <1>1, <1>2
<1> QED  BY <1>3 DEF Sums

LEMMA SumsExist ==
    ASSUME NEW nodes, Tree(nodes), NEW n \in Nat, n = Len(nodes)
    PROVE  \E up : Sums(nodes, n, up)
<1> DEFINE U == {m \in Nat : m <= n /\ ~ \E up : Sums(nodes, m, up)}
<1> SUFFICES ASSUME U # {} PROVE FALSE
  OBVIOUS
<1>1. PICK m \in U : \A k \in U : m <= k
  BY LeastNumber
<1>2. CASE m = 0
  <2> DEFINE g == [k \in 0..0 |-> 0]
  <2>1. g = [k \in 0..0 |-> IF k = 0 THEN 0 ELSE nodes[k].text + g[nodes[k].parent]]
    OBVIOUS
  <2> HIDE DEF g
  <2>2. Sums(nodes, 0, g)
    BY <2>1 DEF Sums
  <2> QED  BY <1>2, <2>2
<1>3. CASE m # 0
  <2>1. m \in Nat \ {0} /\ m <= n /\ m - 1 \in Nat /\ m - 1 <= n /\ m - 1 \notin U
    BY <1>1, <1>3
  <2>2. PICK up : Sums(nodes, m - 1, up)
    BY <2>1
  <2> QED  BY <1>1, <2>1, <2>2, SumsExtend
<1> QED  BY <1>2, <1>3

\* The texts from p up to the root add up to total.
SumTo(nodes, p, total) == \A up : Sums(nodes, Len(nodes), up) => up[p] = total

\* The sum of the server and the nodes of the script, k steps into a chain.
Alike(s, c) ==
    /\ s.sum \in Int
    /\ s.v \in Int
    /\ c.v = s.v
    /\ Tree(c.nodes)
    /\ c.p \in 0..Len(c.nodes)
    /\ SumTo(c.nodes, c.p, s.sum)

Node(p, v) == [parent |-> p, text |-> v]

\* A new node disturbs no sum, and its own is that of its parent and its text.
LEMMA SumAppended ==
    ASSUME NEW nodes, Tree(nodes), NEW p \in 0..Len(nodes), NEW v \in Int,
           NEW total \in Int, SumTo(nodes, p, total),
           NEW more, more = Append(nodes, Node(p, v))
    PROVE  /\ Tree(more)
           /\ Len(more) = Len(nodes) + 1
           /\ SumTo(more, p, total)
           /\ SumTo(more, Len(nodes) + 1, total + v)
<1>1. PICK m \in Nat : m = Len(nodes)
  BY LenProperties DEF Tree
<1>2. PICK r : r = Node(p, v)
  OBVIOUS
<1>3. r \in [parent : Nat, text : Int] /\ r.parent = p /\ r.text = v
  BY <1>1, <1>2 DEF Node
<1>4. /\ more \in Seq([parent : Nat, text : Int]) /\ Len(more) = m + 1
      /\ more[m + 1] = r /\ \A k \in 1..m : more[k] = nodes[k]
  BY <1>1, <1>2, <1>3, AppendProperties DEF Tree
<1>5. ASSUME NEW k \in 1..m PROVE nodes[k].parent \in Nat /\ nodes[k].parent < k
  <2>1. nodes \in Seq([parent : Nat, text : Int]) /\ nodes[k].parent < k
    BY <1>1 DEF Tree
  <2>2. nodes[k] \in [parent : Nat, text : Int]
    BY <1>1, <2>1, ElementOfSeq
  <2> QED  BY <2>1, <2>2
<1>6. Tree(more)
  <2>1. ASSUME NEW k \in 1..(m + 1) PROVE more[k].parent < k
    <3>1. CASE k = m + 1
      BY <1>1, <1>3, <1>4, <3>1
    <3>2. CASE k # m + 1
      BY <1>4, <1>5, <3>2
    <3> QED  BY <3>1, <3>2
  <2> QED  BY <1>4, <2>1 DEF Tree
<1>7. ASSUME NEW up, Sums(more, m + 1, up)
      PROVE  up[p] = total /\ up[m + 1] = total + v
  <2> DEFINE low == [k \in 0..m |-> up[k]]
  <2>1. ASSUME NEW k \in 0..(m + 1)
        PROVE  up[k] = IF k = 0 THEN 0 ELSE more[k].text + up[more[k].parent]
    BY <1>7 DEF Sums
  <2>2. ASSUME NEW k \in 0..m
        PROVE  low[k] = IF k = 0 THEN 0 ELSE nodes[k].text + low[nodes[k].parent]
    <3>1. CASE k = 0
      BY <2>1, <3>1
    <3>2. CASE k # 0
      <4>1. k \in 1..m /\ k \in 0..(m + 1)
        BY <3>2
      <4>2. up[k] = nodes[k].text + up[nodes[k].parent]
        BY <1>4, <2>1, <3>2, <4>1
      <4>3. nodes[k].parent \in 0..m
        BY <1>5, <4>1
      <4> QED  BY <3>2, <4>2, <4>3
    <3> QED  BY <3>1, <3>2
  <2>3. low = [k \in 0..m |-> low[k]]
    OBVIOUS
  <2>4. low[p] = up[p]
    BY <1>1
  <2> HIDE DEF low
  <2>5. Sums(nodes, m, low)
    <3>1. low = [k \in 0..m |-> IF k = 0 THEN 0 ELSE nodes[k].text + low[nodes[k].parent]]
      BY <2>2, <2>3
    <3> QED  BY <3>1 DEF Sums
  <2>6. up[p] = total
    BY <1>1, <2>4, <2>5 DEF SumTo
  <2>7. m + 1 \in 0..(m + 1) /\ m + 1 # 0
    OBVIOUS
  <2>8. up[m + 1] = r.text + up[r.parent]
    BY <1>4, <2>1, <2>7
  <2>9. up[m + 1] = v + up[p]
    BY <1>3, <2>8
  <2> QED  BY <2>6, <2>9
<1>8. SumTo(more, p, total) /\ SumTo(more, m + 1, total + v)
  BY <1>4, <1>7 DEF SumTo
<1> QED  BY <1>1, <1>4, <1>6, <1>8

\* One node on either side.
LEMMA NodeAlike ==
    ASSUME NEW s, NEW c, Alike(s, c),
           NEW t, t = I!ChainStep(s), NEW d, d = I!AppendNode(c)
    PROVE  Alike(t, d)
<1>1. PICK m \in Nat : m = Len(c.nodes)
  BY LenProperties DEF Alike, Tree
<1>2. PICK more : more = Append(c.nodes, Node(c.p, c.v))
  OBVIOUS
<1>3. /\ Tree(more) /\ Len(more) = m + 1
      /\ SumTo(more, c.p, s.sum)
      /\ SumTo(more, m + 1, s.sum + s.v)
  <2>1. PICK nodes, p, v, total :
          nodes = c.nodes /\ p = c.p /\ v = c.v /\ total = s.sum
    OBVIOUS
  <2>2. /\ Tree(nodes) /\ p \in 0..Len(nodes) /\ v \in Int /\ total \in Int
        /\ SumTo(nodes, p, total) /\ more = Append(nodes, Node(p, v))
    BY <1>2, <2>1 DEF Alike
  <2>3. /\ Tree(more) /\ Len(more) = Len(nodes) + 1
        /\ SumTo(more, p, total) /\ SumTo(more, Len(nodes) + 1, total + v)
    BY <2>2, SumAppended
  <2>4. v = s.v
    BY <2>1 DEF Alike
  <2> QED  BY <1>1, <2>1, <2>3, <2>4
<1>4. d.nodes = more /\ d.v = I!Halved(c.v)
      /\ d.p = IF I!BAnd(c.v, 1) = 0 THEN m + 1 ELSE c.p
  BY <1>1, <1>2 DEF I!AppendNode, Node
<1>5. /\ t.v = I!Halved(s.v)
      /\ t.sum = IF I!Odd(s.v) THEN s.sum ELSE s.sum + s.v
  BY DEF I!ChainStep, I!Shift
<1>6. s.v \in Int /\ s.sum \in Int /\ c.v = s.v /\ c.p \in 0..m
  BY <1>1 DEF Alike
<1>7. I!BAnd(c.v, 1) = 0 <=> ~I!Odd(s.v)
  <2>1. I!BAnd(c.v, 1) = 0 <=> c.v % 2 = 0
    BY <1>6, ParityAgrees
  <2> QED  BY <1>6, <2>1 DEF I!Odd
<1>8. I!Halved(s.v) \in Int
  BY <1>6 DEF I!Halved
<1>9. CASE I!Odd(s.v)
  <2>1. t.sum = s.sum /\ d.p = c.p
    BY <1>4, <1>5, <1>7, <1>9
  <2> QED  BY <1>3, <1>4, <1>5, <1>6, <1>8, <2>1 DEF Alike
<1>10. CASE ~I!Odd(s.v)
  <2>1. t.sum = s.sum + s.v /\ d.p = m + 1
    BY <1>4, <1>5, <1>7, <1>10
  <2> QED  BY <1>3, <1>4, <1>5, <1>6, <1>8, <2>1 DEF Alike
<1> QED  BY <1>9, <1>10

\* The nodes of the script and the sum of the server, between two chains.
DomSum(dom, sum) ==
    /\ sum \in Int
    /\ Tree(dom.nodes)
    /\ dom.p \in 0..Len(dom.nodes)
    /\ SumTo(dom.nodes, dom.p, sum)

\* A chain on either side.
LEMMA ChainAlike ==
    ASSUME NEW dom, NEW sum, DomSum(dom, sum), NEW v \in Int
    PROVE  DomSum(I!AppendChain(dom, v), I!BuildChain(sum, v))
<1>1. Chain \in Nat
  BY DerivedAssumption DEF I!Fitting
<1>2. PICK a, b : /\ a = [sum |-> sum, v |-> v]
                  /\ b = [nodes |-> dom.nodes, p |-> dom.p, v |-> v]
  OBVIOUS
<1>3. PICK A : /\ Iterates("server", a, Chain, A)
               /\ I!BuildChain(sum, v) = A[Chain].sum
  BY <1>1, <1>2, BuildChainUnfolds
<1>4. PICK B : /\ Iterates("client", b, Chain, B)
               /\ I!AppendChain(dom, v) = [nodes |-> B[Chain].nodes, p |-> B[Chain].p]
  BY <1>1, <1>2, AppendChainUnfolds
<1> DEFINE U == {k \in 0..Chain : ~Alike(A[k], B[k])}
<1>5. ASSUME U # {} PROVE FALSE
  <2>1. PICK k \in U : \A j \in U : k <= j
    <3>1. U \in SUBSET Nat
      BY <1>1
    <3> HIDE DEF U
    <3> QED  BY <1>5, <3>1, LeastNumber
  <2>2. k \in 0..Chain /\ ~Alike(A[k], B[k])
    BY <2>1
  <2>3. CASE k = 0
    <3>1. A[0] = a /\ B[0] = b
      BY <1>1, <1>3, <1>4 DEF Iterates
    <3>2. /\ a.sum = sum /\ a.v = v
          /\ b.nodes = dom.nodes /\ b.p = dom.p /\ b.v = v
      BY <1>2
    <3>3. Alike(a, b)
      BY <3>2 DEF Alike, DomSum
    <3> QED  BY <2>2, <2>3, <3>1, <3>3
  <2>4. CASE k # 0
    <3>1. k - 1 \in 0..Chain /\ ~(k <= k - 1)
      BY <1>1, <2>2, <2>4
    <3>2. k - 1 \notin U
      <4> HIDE DEF U
      <4> QED  BY <2>1, <3>1
    <3>3. PICK s, c, t, d : s = A[k - 1] /\ c = B[k - 1] /\ t = A[k] /\ d = B[k]
      OBVIOUS
    <3>4. Alike(s, c)
      BY <3>1, <3>2, <3>3
    <3>5. t = I!ChainStep(s)
      BY <1>3, <2>2, <2>4, <3>3 DEF Iterates, StepOf
    <3>6. d = I!AppendNode(c)
      BY <1>4, <2>2, <2>4, <3>3 DEF Iterates, StepOf
    <3>7. Alike(t, d)
      BY <3>4, <3>5, <3>6, NodeAlike
    <3> QED  BY <2>2, <3>3, <3>7
  <2> QED  BY <2>3, <2>4
<1>6. Alike(A[Chain], B[Chain])
  <2>1. Chain \in 0..Chain
    BY <1>1
  <2> QED  BY <1>5, <2>1
<1>7. PICK s, c : s = A[Chain] /\ c = B[Chain]
  OBVIOUS
<1>8. PICK new : new = [nodes |-> c.nodes, p |-> c.p]
  OBVIOUS
<1>9. new.nodes = c.nodes /\ new.p = c.p
  BY <1>8
<1>10. DomSum(new, s.sum)
  BY <1>6, <1>7, <1>9 DEF Alike, DomSum
<1> QED  BY <1>3, <1>4, <1>7, <1>8, <1>10

\* What B finds in a tree is the sum that goes with it.
LEMMA WalkUnfolds ==
    ASSUME NEW nodes, Tree(nodes), NEW p, NEW total, SumTo(nodes, p, total),
           NEW walk, walk = CHOOSE up : up = [n \in 0..Len(nodes) |->
                       IF n = 0 THEN 0 ELSE nodes[n].text + up[nodes[n].parent]]
    PROVE  walk[p] = total
<1>1. PICK n \in Nat : n = Len(nodes)
  BY LenProperties DEF Tree
<1>2. \E up : up = [k \in 0..Len(nodes) |->
                IF k = 0 THEN 0 ELSE nodes[k].text + up[nodes[k].parent]]
  BY <1>1, SumsExist DEF Sums
<1>3. walk = [k \in 0..Len(nodes) |->
                IF k = 0 THEN 0 ELSE nodes[k].text + walk[nodes[k].parent]]
  BY <1>2
<1>4. Sums(nodes, Len(nodes), walk)
  BY <1>3 DEF Sums
<1> QED  BY <1>4 DEF SumTo

LEMMA RemTyped ==
    ASSUME NEW a \in Int, NEW m \in Nat \ {0} PROVE I!Rem(a, m) \in Int
<1>1. a % m \in Int /\ (-a) % m \in Int
  OBVIOUS
<1> QED  BY <1>1 DEF I!Rem

\* The DOM helper finds what domSumMock computes.
LEMMA DomAgrees ==
    ASSUME NEW x \in Int, NEW y \in Int, NEW z \in Int
    PROVE  /\ I!DomHelper(x, y, z) = I!DomSumMock(x, y, z)
           /\ I!DomSumMock(x, y, z) \in Int
<1>1. PICK root : root = [nodes |-> <<>>, p |-> 0]
  OBVIOUS
<1>2. DomSum(root, 0)
  <2>1. PICK nodes : nodes = <<>>
    OBVIOUS
  <2>2. Tree(nodes) /\ Len(nodes) = 0
    BY <2>1 DEF Tree
  <2>3. SumTo(nodes, 0, 0)
    BY <2>2 DEF SumTo, Sums
  <2>4. root.nodes = nodes /\ root.p = 0
    BY <1>1, <2>1
  <2> QED  BY <2>2, <2>3, <2>4 DEF DomSum
<1>3. PICK a, b, c : /\ a = I!AppendChain(root, x)
                     /\ b = I!AppendChain(a, y)
                     /\ c = I!AppendChain(b, z)
  OBVIOUS
<1>4. PICK f, g, h : /\ f = I!BuildChain(0, x)
                     /\ g = I!BuildChain(f, y)
                     /\ h = I!BuildChain(g, z)
  OBVIOUS
<1>5. DomSum(a, f)
  BY <1>2, <1>3, <1>4, ChainAlike
<1>6. DomSum(b, g)
  BY <1>3, <1>4, <1>5, ChainAlike
<1>7. DomSum(c, h)
  BY <1>3, <1>4, <1>6, ChainAlike
<1>8. I!DomSumMock(x, y, z) = I!Rem(h, SumModulus)
  BY <1>4, Zenon DEF I!DomSumMock
<1>9. PICK walk : walk = CHOOSE up : up = [n \in 0..Len(c.nodes) |->
                    IF n = 0 THEN 0 ELSE c.nodes[n].text + up[c.nodes[n].parent]]
  OBVIOUS
<1>10. I!DomHelper(x, y, z) = I!Rem(walk[c.p], SumModulus)
  BY <1>1, <1>3, <1>9, Zenon DEF I!DomHelper
<1>11. walk[c.p] = h
  <2>1. PICK nodes, p : nodes = c.nodes /\ p = c.p
    OBVIOUS
  <2>2. Tree(nodes) /\ SumTo(nodes, p, h)
    BY <1>7, <2>1 DEF DomSum
  <2>3. walk = CHOOSE up : up = [n \in 0..Len(nodes) |->
                 IF n = 0 THEN 0 ELSE nodes[n].text + up[nodes[n].parent]]
    BY <1>9, <2>1, Zenon
  <2>4. walk[p] = h
    BY <2>2, <2>3, WalkUnfolds
  <2> QED  BY <2>1, <2>4
<1>12. I!Rem(h, SumModulus) \in Int
  <2>1. SumModulus \in Nat \ {0}
    BY DerivedAssumption DEF I!Fitting
  <2> QED  BY <1>7, <2>1, RemTyped DEF DomSum
<1> QED  BY <1>8, <1>10, <1>11, <1>12

-----------------------------------------------------------------------------
(* The program *)

LEMMA StepsAgree ==
    ASSUME NEW op \in 0..5, NEW d \in Int, NEW s1 \in Int, NEW s2 \in Int,
           NEW s3 \in Int
    PROVE  /\ I!ServerStep(op, d, s1, s2, s3) = I!ScriptStep(op, d, s1, s2, s3)
           /\ I!ServerStep(op, d, s1, s2, s3) \in Int
<1>1. CASE op = 0
  <2>1. PICK a \in Int : a = I!BAnd(d, s1)
    BY OpsTyped
  <2>2. I!BNot(a) \in Int
    BY DEF I!BNot
  <2> QED  BY <1>1, <2>1, <2>2 DEF I!ServerStep, I!ScriptStep
<1>2. CASE op = 1
  <2>1. PICK a \in Int : a = I!BXor(d, s1)
    BY OpsTyped
  <2> QED  BY <1>2, <2>1 DEF I!ServerStep, I!ScriptStep
<1>3. CASE op = 2
  <2>1. PICK a \in Int : a = I!BOr(d, s1)
    BY OpsTyped
  <2> QED  BY <1>3, <2>1 DEF I!ServerStep, I!ScriptStep
<1>4. CASE op = 3
  <2>1. PICK a \in Int : a = I!BAnd(d, s1)
    BY OpsTyped
  <2> QED  BY <1>4, <2>1 DEF I!ServerStep, I!ScriptStep
<1>5. CASE op = 4
  <2>1. PICK a \in Int, b \in Int : a = I!BXor(s2, s1) /\ b = I!BXor(d, s2)
    BY OpsTyped
  <2>2. I!FnHelper(s1, s2, d) = I!BOr(a, b)
    BY <2>1 DEF I!FnHelper
  <2>3. I!BOr(a, b) \in Int
    BY OpsTyped
  <2> QED  BY <1>5, <2>1, <2>2, <2>3 DEF I!ServerStep, I!ScriptStep
<1>6. CASE op = 5
  BY <1>6, DomAgrees DEF I!ServerStep, I!ScriptStep
<1> QED  BY <1>1, <1>2, <1>3, <1>4, <1>5, <1>6

\* Both sides hold the same integers.
ProgramInv == server \in [Names -> Int] /\ client = server

LEMMA ProgramInit ==
    ASSUME I!Init PROVE ProgramInv
<1>1. PICK init \in [Names -> InitVals], mask \in Keys, first \in Names :
        /\ server = [init EXCEPT ![first] = I!BXor(@, mask)]
        /\ client = [init EXCEPT ![first] = I!BXor(@, mask)]
  BY DEF I!Init
<1>2. InitVals \cup Keys \subseteq Int
  <2>1. InitVals \cup Keys \subseteq 0..(Half - 1)
    BY DerivedAssumption DEF I!Fitting
  <2> QED  BY <2>1, WordsFit
<1>3. init \in [Names -> Int] /\ mask \in Int
  BY <1>2
<1>4. I!BXor(init[first], mask) \in Int
  BY <1>3, OpsTyped
<1> QED  BY <1>1, <1>3, <1>4 DEF ProgramInv

LEMMA ProgramStep ==
    ASSUME ProgramInv, [I!Next]_(I!vars) PROVE ProgramInv'
<1>1. ASSUME NEW op \in 0..5, NEW d \in Names, NEW s1 \in Names, NEW s2 \in Names,
             NEW s3 \in Names, I!Instruction(op, d, s1, s2, s3)
      PROVE  ProgramInv'
  <2>1. /\ server[d] \in Int /\ server[s1] \in Int
        /\ server[s2] \in Int /\ server[s3] \in Int
        /\ client = server
    BY DEF ProgramInv
  <2>2. PICK e : e = I!ServerStep(op, server[d], server[s1], server[s2], server[s3])
    OBVIOUS
  <2>3. /\ e = I!ScriptStep(op, server[d], server[s1], server[s2], server[s3])
        /\ e \in Int
    <3>1. PICK a \in Int, x \in Int, y \in Int, z \in Int :
            a = server[d] /\ x = server[s1] /\ y = server[s2] /\ z = server[s3]
      BY <2>1
    <3>2. /\ I!ServerStep(op, a, x, y, z) = I!ScriptStep(op, a, x, y, z)
          /\ I!ServerStep(op, a, x, y, z) \in Int
      BY StepsAgree
    <3> QED  BY <2>2, <3>1, <3>2
  <2>4. server' = [server EXCEPT ![d] = e] /\ client' = [client EXCEPT ![d] = e]
    BY <1>1, <2>1, <2>2, <2>3 DEF I!Instruction
  <2> QED  BY <2>3, <2>4 DEF ProgramInv
<1>2. ASSUME NEW n \in Names, NEW salt \in Salts, I!Salt(n, salt) PROVE ProgramInv'
  <2>1. server[n] \in Int /\ client = server
    BY DEF ProgramInv
  <2>2. salt \in Int
    <3>1. Salts \subseteq 0..(Half - 1)
      BY DerivedAssumption DEF I!Fitting
    <3> QED  BY <3>1, WordsFit
  <2>3. PICK e : e = I!Salted(server[n], salt)
    OBVIOUS
  <2>4. e = I!SaltedInScript(server[n], salt) /\ e \in Int
    BY <2>1, <2>2, <2>3, SaltedAlike
  <2>5. server' = [server EXCEPT ![n] = e] /\ client' = [client EXCEPT ![n] = e]
    BY <1>2, <2>1, <2>3, <2>4 DEF I!Salt
  <2> QED  BY <2>4, <2>5 DEF ProgramInv
<1>3. CASE UNCHANGED I!vars
  BY <1>3 DEF I!vars, ProgramInv
<1> QED  BY <1>1, <1>2, <1>3 DEF I!Next, I!Done

\* The server expects what the script reports (GenerateInstrumentation), for
\* words of any width, chains of any length and any sequence of instructions:
\* the sum that buildChain keeps is the one the script's walk up the DOM finds.
THEOREM ProgramsAgree == Spec => []ScriptAgrees
<1> DEFINE Inv == part = "program" => ProgramInv
<1>1. Init => Inv
  BY ProgramInit DEF Init
<1>2. Inv /\ [Next]_derivedVars => Inv'
  BY ProgramStep DEF Next, derivedVars, programVars, I!vars
<1>3. Inv => ScriptAgrees
  BY DEF ProgramInv, ScriptAgrees, I!ScriptAgrees
<1> QED  BY <1>1, <1>2, <1>3, PTL DEF Spec

-----------------------------------------------------------------------------
(* Induction and recursion *)

\* Induction, for a set of numbers.
LEMMA Inductive ==
    ASSUME NEW U \in SUBSET Nat, 0 \in U, \A k \in U : k + 1 \in U
    PROVE  U = Nat
<1> DEFINE rest == Nat \ U
<1> SUFFICES ASSUME rest # {} PROVE FALSE
  OBVIOUS
<1>1. PICK m \in rest : \A n \in rest : m <= n
  BY LeastNumber
<1>2. m \in Nat \ {0} /\ m - 1 \in Nat /\ (m - 1) + 1 = m /\ ~(m <= m - 1)
  BY <1>1
<1>3. m - 1 \in U
  BY <1>1, <1>2
<1> QED  BY <1>1, <1>2, <1>3

\* f is the function that F makes from a, up to n.
Makes(F, a, n, f) ==
    f = [k \in 0..n |-> IF k = 0 THEN a ELSE F[k - 1][f[k - 1]]]

LEMMA MakesMore ==
    ASSUME NEW F, NEW a, NEW n \in Nat, NEW f, Makes(F, a, n, f)
    PROVE  \E h : Makes(F, a, n + 1, h)
<1> DEFINE h == [k \in 0..(n + 1) |-> IF k = n + 1 THEN F[k - 1][f[k - 1]] ELSE f[k]]
<1>1. ASSUME NEW k \in 0..(n + 1)
      PROVE  h[k] = IF k = 0 THEN a ELSE F[k - 1][h[k - 1]]
  <2>1. k # 0 => h[k - 1] = f[k - 1]
    OBVIOUS
  <2>2. CASE k = n + 1
    BY <2>1, <2>2
  <2>3. CASE k # n + 1
    <3>1. k \in 0..n
      BY <2>3
    <3> QED  BY <2>1, <2>3, <3>1 DEF Makes
  <2> QED  BY <2>2, <2>3
<1>2. h = [k \in 0..(n + 1) |-> h[k]]
  OBVIOUS
<1> HIDE DEF h
<1>3. h = [k \in 0..(n + 1) |-> IF k = 0 THEN a ELSE F[k - 1][h[k - 1]]]
  BY <1>1, <1>2
<1> QED  BY <1>3 DEF Makes

LEMMA MakesOne ==
    ASSUME NEW F, NEW a, NEW n \in Nat
    PROVE  \E f : Makes(F, a, n, f)
<1> DEFINE U == {k \in Nat : \E f : Makes(F, a, k, f)}
<1>1. 0 \in U
  <2> DEFINE f == [k \in 0..0 |-> a]
  <2>1. f = [k \in 0..0 |-> IF k = 0 THEN a ELSE F[k - 1][f[k - 1]]]
    OBVIOUS
  <2> HIDE DEF f
  <2>2. Makes(F, a, 0, f)
    BY <2>1 DEF Makes
  <2> QED  BY <2>2
<1>2. \A k \in U : k + 1 \in U
  BY MakesMore
<1>3. U \in SUBSET Nat
  OBVIOUS
<1> HIDE DEF U
<1>4. n \in U
  BY <1>1, <1>2, <1>3, Inductive
<1> QED  BY <1>4 DEF U

\* Up to n, f and h start at the same place and take the same steps.
Parallel(f, h, n) ==
    /\ f[0] = h[0]
    /\ \A k \in 0..n : k # 0 /\ f[k - 1] = h[k - 1] => f[k] = h[k]

LEMMA GoAlike ==
    ASSUME NEW n \in Nat, NEW f, NEW h, Parallel(f, h, n)
    PROVE  \A k \in 0..n : f[k] = h[k]
<1> USE DEF Parallel
<1> DEFINE U == {k \in Nat : k <= n => f[k] = h[k]}
<1>1. 0 \in U
  OBVIOUS
<1>2. ASSUME NEW k \in U PROVE k + 1 \in U
  <2>1. CASE k + 1 <= n
    <3>1. k + 1 \in 0..n /\ k + 1 # 0 /\ (k + 1) - 1 = k /\ f[k] = h[k]
      BY <2>1
    <3> QED  BY <3>1
  <2>2. CASE ~(k + 1 <= n)
    BY <2>2
  <2> QED  BY <2>1, <2>2
<1>3. U \in SUBSET Nat
  OBVIOUS
<1> HIDE DEF U
<1>4. U = Nat
  BY <1>1, <1>2, <1>3, Inductive
<1> QED  BY <1>4 DEF U

\* f follows the steps F from a on.
StepsOf(S) == [Nat -> [S -> S]]
Follows(f, S, a, F) ==
    /\ f \in [Nat -> S]
    /\ f[0] = a
    /\ \A k \in Nat : f[k + 1] = F[k][f[k]]

\* Definition by recursion: one function for all numbers.
LEMMA Recursion ==
    ASSUME NEW S, NEW a \in S, NEW F \in StepsOf(S)
    PROVE  \E f : Follows(f, S, a, F)
<1>0. F \in [Nat -> [S -> S]]
  BY DEF StepsOf
<1> DEFINE g == [n \in Nat |-> CHOOSE h : Makes(F, a, n, h)]
           f == [n \in Nat |-> g[n][n]]
<1>1. \A n \in Nat : Makes(F, a, n, g[n])
  BY MakesOne
<1> HIDE DEF g
<1>2. ASSUME NEW n \in Nat PROVE f[n + 1] = F[n][f[n]]
  <2>1. n + 1 \in Nat /\ n + 1 \in 0..(n + 1) /\ n + 1 # 0 /\ (n + 1) - 1 = n
    OBVIOUS
  <2>2. PICK x, y : x = g[n] /\ y = g[n + 1]
    OBVIOUS
  <2>3. Makes(F, a, n, x) /\ Makes(F, a, n + 1, y)
    BY <1>1, <2>1, <2>2
  <2>4. x[0] = y[0]
    BY <2>1, <2>3 DEF Makes
  <2>5. \A k \in 0..n : k # 0 /\ x[k - 1] = y[k - 1] => x[k] = y[k]
    <3> TAKE k \in 0..n
    <3> HAVE k # 0 /\ x[k - 1] = y[k - 1]
    <3>1. k \in 0..(n + 1)
      OBVIOUS
    <3>2. x[k] = F[k - 1][x[k - 1]]
      BY <2>3 DEF Makes
    <3>3. y[k] = F[k - 1][y[k - 1]]
      BY <2>1, <2>3, <3>1 DEF Makes
    <3> QED  BY <3>2, <3>3
  <2>6. \A k \in 0..n : x[k] = y[k]
    <3>1. Parallel(x, y, n)
      BY <2>4, <2>5 DEF Parallel
    <3> QED  BY <3>1, GoAlike
  <2>7. y[n + 1] = F[n][y[n]]
    BY <2>1, <2>3 DEF Makes
  <2>8. x[n] = y[n]
    BY <2>6
  <2> QED  BY <2>1, <2>2, <2>7, <2>8
<1>3. f[0] = a
  <2>1. Makes(F, a, 0, g[0])
    BY <1>1
  <2> QED  BY <2>1 DEF Makes
<1>4. f = [n \in Nat |-> f[n]]
  OBVIOUS
<1> HIDE DEF f
<1>5. \A n \in Nat : f[n] \in S
  <2> DEFINE U == {n \in Nat : f[n] \in S}
  <2>1. 0 \in U
    BY <1>3
  <2>2. ASSUME NEW n \in U PROVE n + 1 \in U
    BY <1>0, <1>2
  <2>3. U \in SUBSET Nat
    OBVIOUS
  <2> HIDE DEF U
  <2>4. U = Nat
    BY <2>1, <2>2, <2>3, Inductive
  <2> QED  BY <2>4 DEF U
<1>6. f \in [Nat -> S]
  BY <1>4, <1>5
<1> QED  BY <1>2, <1>3, <1>6 DEF Follows

-----------------------------------------------------------------------------
(* Remainders *)

LEMMA Remainder ==
    ASSUME NEW m \in Nat \ {0}, NEW v \in Int
    PROVE  \E a \in Int, r \in 0..(m - 1) : r = v % m /\ v = m * a + r
<1>1. m \in Nat /\ m > 0
  OBVIOUS
<1>2. PICK a \in Int : a = v \div m
  BY <1>1
<1>3. PICK r \in 0..(m - 1) : r = v % m
  BY <1>1
<1>4. v = m * (v \div m) + (v % m)
  BY <1>1, DivMod
<1> QED  BY <1>2, <1>3, <1>4

\* There is one remainder.
LEMMA RemainderUnique ==
    ASSUME NEW m \in Nat \ {0}, NEW a \in Int, NEW b \in Int,
           NEW r \in 0..(m - 1), NEW s \in 0..(m - 1), m * a + r = m * b + s
    PROVE  r = s
<1>1. PICK d \in Int : d = a - b
  OBVIOUS
<1>2. m * d = s - r
  <2>1. m * (a - b) = m * a - m * b
    OBVIOUS
  <2> QED  BY <1>1, <2>1
<1>3. CASE d >= 1
  <2>1. m * d >= m
    BY <1>3
  <2> QED  BY <1>2, <2>1
<1>4. CASE d <= -1
  <2>1. m * d <= -m
    BY <1>4
  <2> QED  BY <1>2, <2>1
<1>5. CASE d = 0
  BY <1>2, <1>5
<1> QED  BY <1>3, <1>4, <1>5

LEMMA RemainderIs ==
    ASSUME NEW m \in Nat \ {0}, NEW v \in Int, NEW a \in Int, NEW r \in 0..(m - 1),
           v = m * a + r
    PROVE  v % m = r
<1>1. PICK q \in Int, s \in 0..(m - 1) : s = v % m /\ v = m * q + s
  BY Remainder
<1>2. m * q + s = m * a + r
  BY <1>1
<1> QED  BY <1>1, <1>2, RemainderUnique

\* Multiples of the modulus do not count.
LEMMA ModPlus ==
    ASSUME NEW m \in Nat \ {0}, NEW v \in Int, NEW a \in Int
    PROVE  (m * a + v) % m = v % m
<1>1. PICK q \in Int, r \in 0..(m - 1) : r = v % m /\ v = m * q + r
  BY Remainder
<1>2. PICK b \in Int : b = a + q
  OBVIOUS
<1>3. m * a + v = m * b + r
  <2>1. m * (a + q) = m * a + m * q
    OBVIOUS
  <2> QED  BY <1>1, <1>2, <2>1
<1>4. m * a + v \in Int
  OBVIOUS
<1> QED  BY <1>1, <1>3, <1>4, RemainderIs

\* A factor may be reduced first.
LEMMA ModTimes ==
    ASSUME NEW m \in Nat \ {0}, NEW v \in Int, NEW w \in Int
    PROVE  ((v % m) * w) % m = (v * w) % m
<1>1. PICK q \in Int, r \in 0..(m - 1) : r = v % m /\ v = m * q + r
  BY Remainder
<1>2. PICK a \in Int, e \in Int : a = q * w /\ e = r * w
  OBVIOUS
<1>3. v * w = m * a + e
  <2>1. (m * q + r) * w = m * (q * w) + r * w
    OBVIOUS
  <2> QED  BY <1>1, <1>2, <2>1
<1>4. (m * a + e) % m = e % m
  BY ModPlus
<1> QED  BY <1>1, <1>2, <1>3, <1>4

LEMMA ModTimesBoth ==
    ASSUME NEW m \in Nat \ {0}, NEW v \in Int, NEW w \in Int
    PROVE  ((v % m) * (w % m)) % m = (v * w) % m
<1>1. PICK r \in Int, s \in Int : r = v % m /\ s = w % m
  OBVIOUS
<1>2. (r * s) % m = (v * s) % m
  BY <1>1, ModTimes
<1>3. (s * v) % m = (w * v) % m
  BY <1>1, ModTimes
<1>4. v * s = s * v /\ w * v = v * w
  OBVIOUS
<1> QED  BY <1>1, <1>2, <1>3, <1>4

LEMMA ModMod ==
    ASSUME NEW m \in Nat \ {0}, NEW v \in Int
    PROVE  (v % m) % m = v % m
<1>1. PICK r \in 0..(m - 1) : r = v % m
  BY Remainder
<1>2. r = m * 0 + r
  OBVIOUS
<1> QED  BY <1>1, <1>2, RemainderIs

LEMMA ModSmall ==
    ASSUME NEW m \in Nat \ {0}, NEW v \in 0..(m - 1)
    PROVE  v % m = v
<1>1. v = m * 0 + v
  OBVIOUS
<1> QED  BY <1>1, RemainderIs

\* Numbers with the same remainder differ by a multiple of the modulus.
LEMMA ModEqual ==
    ASSUME NEW m \in Nat \ {0}, NEW v \in Int, NEW w \in Int
    PROVE  v % m = w % m <=> (v - w) % m = 0
<1>1. PICK d \in Int : d = v - w
  OBVIOUS
<1>2. ASSUME v % m = w % m PROVE d % m = 0
  <2>1. PICK a \in Int, r \in 0..(m - 1) : r = v % m /\ v = m * a + r
    BY Remainder
  <2>2. PICK b \in Int, s \in 0..(m - 1) : s = w % m /\ w = m * b + s
    BY Remainder
  <2>3. PICK c \in Int : c = a - b
    OBVIOUS
  <2>4. d = m * c + 0
    <3>1. PICK x \in Int, y \in Int : x = m * a /\ y = m * b
      OBVIOUS
    <3>2. m * (a - b) = m * a - m * b
      OBVIOUS
    <3>3. m * c = x - y
      BY <2>3, <3>1, <3>2
    <3>4. r = s
      BY <1>2, <2>1, <2>2
    <3>5. d = (x + r) - (y + s)
      BY <1>1, <2>1, <2>2, <3>1
    <3> QED  BY <3>1, <3>3, <3>4, <3>5
  <2>5. 0 \in 0..(m - 1)
    OBVIOUS
  <2> QED  BY <2>4, <2>5, RemainderIs
<1>3. ASSUME d % m = 0 PROVE v % m = w % m
  <2>1. PICK a \in Int : d = m * a
    <3>1. PICK a \in Int, r \in 0..(m - 1) : r = d % m /\ d = m * a + r
      BY Remainder
    <3>2. PICK x \in Int : x = m * a
      OBVIOUS
    <3>3. r = 0 /\ d = x + r
      BY <1>3, <3>1, <3>2
    <3> QED  BY <3>2, <3>3
  <2>2. (m * a + w) % m = w % m
    BY ModPlus
  <2>3. m * a + w = v
    BY <1>1, <2>1
  <2> QED  BY <2>2, <2>3
<1> QED  BY <1>1, <1>2, <1>3

-----------------------------------------------------------------------------
(* Primes *)

\* A prime divides no product of two numbers below it: of the multiples of v,
\* the first that it divides would give it a divisor.
LEMMA NoZeroDivisors ==
    ASSUME NEW p \in Nat, R!IsPrime(p), NEW v \in 1..(p - 1), NEW w \in 1..(p - 1)
    PROVE  (v * w) % p # 0
<1> DEFINE U == {k \in Nat : k > 0 /\ (v * k) % p = 0}
<1>0. p \in Nat \ {0} /\ p > 1 /\ \A d \in 2..(p - 1) : p % d # 0
  BY DEF R!IsPrime
<1>1. SUFFICES ASSUME (v * w) % p = 0 PROVE FALSE
  OBVIOUS
<1>2. w \in U /\ U \in SUBSET Nat
  BY <1>0, <1>1
<1>3. PICK d \in U : \A k \in U : d <= k
  <2> HIDE DEF U
  <2> QED  BY <1>2, LeastNumber
<1>4. d \in Nat \ {0} /\ d <= w /\ (v * d) % p = 0
  BY <1>2, <1>3
<1>5. PICK q \in Int, r \in 0..(d - 1) : p = d * q + r /\ r = p % d
  <2>1. p \in Int
    OBVIOUS
  <2>2. PICK q \in Int, r \in 0..(d - 1) : r = p % d /\ p = d * q + r
    BY <1>4, <2>1, Remainder
  <2> QED  BY <2>2
<1>6. (v * r) % p = 0
  <2>1. PICK a \in Int : v * d = p * a
    <3>1. v * d \in Int
      BY <1>4
    <3>2. PICK a \in Int, s \in 0..(p - 1) : s = (v * d) % p /\ v * d = p * a + s
      BY <1>0, <3>1, Remainder
    <3>3. PICK x \in Int : x = p * a
      BY <1>0
    <3>4. s = 0 /\ v * d = x + s
      BY <1>4, <3>2, <3>3
    <3> QED  BY <3>3, <3>4
  <2>2. v * r = p * (v - a * q) + 0
    <3>1. r = p - d * q
      BY <1>4, <1>5
    <3>2. v * (p - d * q) = v * p - (v * d) * q
      BY <1>4, <1>5
    <3>3. (p * a) * q = p * (a * q)
      BY <1>0
    <3>4. p * (v - a * q) = p * v - p * (a * q)
      BY <1>0
    <3> QED  BY <1>0, <1>4, <1>5, <2>1, <3>1, <3>2, <3>3, <3>4
  <2>3. v - a * q \in Int /\ v * r \in Int /\ 0 \in 0..(p - 1)
    BY <1>0, <1>4, <1>5
  <2> QED  BY <1>0, <2>2, <2>3, RemainderIs
<1>7. r = 0
  <2>1. CASE r > 0
    <3>1. r \in U
      BY <1>4, <1>5, <1>6, <2>1
    <3> QED  BY <1>3, <1>4, <1>5, <3>1
  <2> QED  BY <1>4, <1>5, <2>1
<1>8. d = 1
  <2>1. d \in 1..(p - 1)
    BY <1>0, <1>4
  <2> QED  BY <1>0, <1>5, <1>7, <2>1
<1>9. v % p = v
  BY <1>0, ModSmall
<1> QED  BY <1>4, <1>8, <1>9

-----------------------------------------------------------------------------
(* Powers *)

\* Exp computes the function that multiplies by b and takes the remainder.
LEMMA Powers ==
    ASSUME NEW b \in Int, NEW m \in Nat \ {0}
    PROVE  \E f \in [Nat -> 0..(m - 1)] :
             /\ f[0] = 1 % m
             /\ \A k \in Nat : f[k + 1] = (f[k] * b) % m
             /\ \A e \in Nat : R!Exp(b, e, m) = f[e]
<1>1. PICK S : S = 0..(m - 1)
  OBVIOUS
<1>2. \A x \in S : (x * b) % m \in S
  <2> TAKE x \in S
  <2>1. PICK y \in Int : y = x * b
    BY <1>1
  <2>2. y % m \in S
    BY <1>1
  <2> QED  BY <2>1, <2>2
<1>3. PICK F : F = [k \in Nat |-> [x \in S |-> (x * b) % m]]
  OBVIOUS
<1>4. F \in StepsOf(S)
  BY <1>2, <1>3 DEF StepsOf
<1>5. PICK a \in S : a = 1 % m
  BY <1>1
<1>6. PICK f \in [Nat -> S] : f[0] = a /\ \A k \in Nat : f[k + 1] = F[k][f[k]]
  <2>1. \E f : Follows(f, S, a, F)
    BY <1>4, Recursion
  <2> QED  BY <2>1 DEF Follows
<1>7. \A k \in Nat : f[k + 1] = (f[k] * b) % m
  BY <1>3, <1>6
<1>8. ASSUME NEW e \in Nat PROVE R!Exp(b, e, m) = f[e]
  <2> DEFINE h == CHOOSE pow : pow = [k \in 0..e |->
                    IF k = 0 THEN 1 % m ELSE (pow[k - 1] * b) % m]
             g == [k \in 0..e |-> f[k]]
  <2>1. g = [k \in 0..e |-> IF k = 0 THEN 1 % m ELSE (g[k - 1] * b) % m]
    <3>1. ASSUME NEW k \in 0..e
          PROVE  g[k] = IF k = 0 THEN 1 % m ELSE (g[k - 1] * b) % m
      <4>1. CASE k = 0
        BY <1>5, <1>6, <4>1
      <4>2. CASE k # 0
        <5>1. k - 1 \in Nat /\ (k - 1) + 1 = k /\ k - 1 \in 0..e
          BY <4>2
        <5>2. f[k] = (f[k - 1] * b) % m
          BY <1>7, <5>1
        <5> QED  BY <4>2, <5>1, <5>2
      <4> QED  BY <4>1, <4>2
    <3>2. g = [k \in 0..e |-> g[k]]
      OBVIOUS
    <3> HIDE DEF g
    <3> QED  BY <3>1, <3>2
  <2>2. h = [k \in 0..e |-> IF k = 0 THEN 1 % m ELSE (h[k - 1] * b) % m]
    <3> HIDE DEF g
    <3> QED  BY <2>1
  <2>3. R!Exp(b, e, m) = h[e]
    BY DEF R!Exp
  <2> HIDE DEF h
  <2>4. Parallel(h, f, e)
    <3>1. h[0] = f[0]
      BY <1>5, <1>6, <2>2
    <3>2. ASSUME NEW k \in 0..e, k # 0, h[k - 1] = f[k - 1] PROVE h[k] = f[k]
      <4>1. k - 1 \in Nat /\ (k - 1) + 1 = k
        BY <3>2
      <4>2. f[k] = (f[k - 1] * b) % m
        BY <1>7, <4>1
      <4>3. h[k] = (h[k - 1] * b) % m
        BY <2>2, <3>2
      <4> QED  BY <3>2, <4>2, <4>3
    <3> QED  BY <3>1, <3>2 DEF Parallel
  <2>5. h[e] = f[e]
    <3>1. e \in 0..e
      OBVIOUS
    <3> QED  BY <2>4, <3>1, GoAlike
  <2> QED  BY <2>3, <2>5
<1> QED  BY <1>1, <1>5, <1>6, <1>7, <1>8

LEMMA ExpStep ==
    ASSUME NEW b \in Int, NEW m \in Nat \ {0}
    PROVE  /\ R!Exp(b, 0, m) = 1 % m
           /\ \A e \in Nat : /\ R!Exp(b, e, m) \in 0..(m - 1)
                             /\ R!Exp(b, e + 1, m) = (R!Exp(b, e, m) * b) % m
<1>1. PICK f \in [Nat -> 0..(m - 1)] :
        /\ f[0] = 1 % m
        /\ \A k \in Nat : f[k + 1] = (f[k] * b) % m
        /\ \A e \in Nat : R!Exp(b, e, m) = f[e]
  BY Powers
<1>2. R!Exp(b, 0, m) = 1 % m
  BY <1>1
<1>3. ASSUME NEW e \in Nat
      PROVE  /\ R!Exp(b, e, m) \in 0..(m - 1)
             /\ R!Exp(b, e + 1, m) = (R!Exp(b, e, m) * b) % m
  <2>1. e + 1 \in Nat
    OBVIOUS
  <2>2. R!Exp(b, e + 1, m) = f[e + 1] /\ R!Exp(b, e, m) = f[e]
    BY <1>1, <2>1
  <2>3. f[e + 1] = (f[e] * b) % m /\ f[e] \in 0..(m - 1)
    BY <1>1
  <2> QED  BY <2>2, <2>3
<1> QED  BY <1>2, <1>3

\* Factors of a product of three, reduced one after the other.
LEMMA ModThree ==
    ASSUME NEW m \in Nat \ {0}, NEW x \in Int, NEW y \in Int, NEW z \in Int
    PROVE  /\ (((x * y) % m) * z) % m = (x * y * z) % m
           /\ (x * ((y * z) % m)) % m = (x * y * z) % m
<1>1. PICK a \in Int, b \in Int : a = x * y /\ b = y * z
  OBVIOUS
<1>2. ((a % m) * z) % m = (a * z) % m
  BY ModTimes
<1>3. ((b % m) * x) % m = (b * x) % m
  BY ModTimes
<1>4. a * z = x * y * z /\ b * x = x * y * z
  BY <1>1
<1>5. PICK c \in Int : c = b % m
  OBVIOUS
<1>6. c * x = x * c
  OBVIOUS
<1> QED  BY <1>1, <1>2, <1>3, <1>4, <1>5, <1>6

LEMMA ExpPlus ==
    ASSUME NEW b \in Int, NEW m \in Nat \ {0}, NEW j \in Nat, NEW k \in Nat
    PROVE  R!Exp(b, j + k, m) = (R!Exp(b, j, m) * R!Exp(b, k, m)) % m
<1> DEFINE U == {e \in Nat : R!Exp(b, j + e, m) = (R!Exp(b, j, m) * R!Exp(b, e, m)) % m}
<1>1. 0 \in U
  <2>1. PICK x \in 0..(m - 1) : x = R!Exp(b, j, m)
    BY ExpStep
  <2>2. R!Exp(b, 0, m) = 1 % m
    BY ExpStep
  <2>3. ((1 % m) * x) % m = (1 * x) % m
    <3>1. PICK one \in Int : one = 1
      OBVIOUS
    <3>2. ((one % m) * x) % m = (one * x) % m
      <4>1. x \in Int
        OBVIOUS
      <4> QED  BY <4>1, ModTimes
    <3> QED  BY <3>1, <3>2
  <2>4. PICK c \in Int : c = 1 % m
    OBVIOUS
  <2>5. c * x = x * c /\ 1 * x = x /\ j + 0 = j
    OBVIOUS
  <2>6. x % m = x
    BY ModSmall
  <2> QED  BY <2>1, <2>2, <2>3, <2>4, <2>5, <2>6
<1>2. ASSUME NEW e \in U PROVE e + 1 \in U
  <2>1. PICK x \in 0..(m - 1), y \in 0..(m - 1) : x = R!Exp(b, j, m) /\ y = R!Exp(b, e, m)
    BY ExpStep
  <2>2. R!Exp(b, j + e, m) = (x * y) % m
    BY <2>1
  <2>3. R!Exp(b, (j + e) + 1, m) = (R!Exp(b, j + e, m) * b) % m
    <3>1. j + e \in Nat
      OBVIOUS
    <3> QED  BY <3>1, ExpStep
  <2>4. R!Exp(b, e + 1, m) = (y * b) % m
    BY <2>1, ExpStep
  <2>5. (((x * y) % m) * b) % m = (x * y * b) % m /\ (x * ((y * b) % m)) % m = (x * y * b) % m
    BY ModThree
  <2>6. (j + e) + 1 = j + (e + 1)
    OBVIOUS
  <2> QED  BY <2>1, <2>2, <2>3, <2>4, <2>5, <2>6
<1>3. U \in SUBSET Nat
  OBVIOUS
<1> HIDE DEF U
<1>4. U = Nat
  BY <1>1, <1>2, <1>3, Inductive
<1> QED  BY <1>4 DEF U

LEMMA ExpTimes ==
    ASSUME NEW b \in Int, NEW m \in Nat \ {0}, NEW j \in Nat, NEW k \in Nat
    PROVE  R!Exp(b, j * k, m) = R!Exp(R!Exp(b, j, m), k, m)
<1>1. PICK x \in 0..(m - 1) : x = R!Exp(b, j, m)
  BY ExpStep
<1> DEFINE U == {e \in Nat : R!Exp(b, j * e, m) = R!Exp(x, e, m)}
<1>2. 0 \in U
  <2>1. R!Exp(b, 0, m) = 1 % m /\ R!Exp(x, 0, m) = 1 % m
    BY ExpStep
  <2>2. j * 0 = 0
    OBVIOUS
  <2> QED  BY <2>1, <2>2
<1>3. ASSUME NEW e \in U PROVE e + 1 \in U
  <2>1. PICK l \in Nat : l = j * e
    OBVIOUS
  <2>2. j * (e + 1) = l + j
    BY <2>1
  <2>3. R!Exp(b, l + j, m) = (R!Exp(b, l, m) * x) % m
    BY <1>1, ExpPlus
  <2>4. R!Exp(x, e + 1, m) = (R!Exp(x, e, m) * x) % m
    BY ExpStep
  <2>5. R!Exp(b, l, m) = R!Exp(x, e, m)
    BY <2>1
  <2> QED  BY <2>2, <2>3, <2>4, <2>5
<1>4. U \in SUBSET Nat
  OBVIOUS
<1> HIDE DEF U
<1>5. U = Nat
  BY <1>2, <1>3, <1>4, Inductive
<1> QED  BY <1>1, <1>5 DEF U

LEMMA ExpOne ==
    ASSUME NEW m \in Nat \ {0}, NEW k \in Nat
    PROVE  R!Exp(1, k, m) = 1 % m
<1> DEFINE U == {e \in Nat : R!Exp(1, e, m) = 1 % m}
<1>1. 0 \in U
  <2>1. PICK one \in Int : one = 1
    OBVIOUS
  <2>2. R!Exp(one, 0, m) = 1 % m
    BY ExpStep
  <2> QED  BY <2>1, <2>2
<1>2. ASSUME NEW e \in U PROVE e + 1 \in U
  <2>1. PICK one \in Int : one = 1
    OBVIOUS
  <2>2. PICK x \in Int : x = R!Exp(one, e, m)
    BY <2>1, ExpStep
  <2>3. R!Exp(one, e + 1, m) = (x * one) % m
    BY <2>2, ExpStep
  <2>4. x * one = x /\ x = one % m
    BY <2>1, <2>2
  <2>5. (one % m) % m = one % m
    BY ModMod
  <2> QED  BY <2>1, <2>3, <2>4, <2>5
<1>3. U \in SUBSET Nat
  OBVIOUS
<1> HIDE DEF U
<1>4. U = Nat
  BY <1>1, <1>2, <1>3, Inductive
<1> QED  BY <1>4 DEF U

LEMMA ExpZero ==
    ASSUME NEW m \in Nat \ {0}, NEW k \in Nat \ {0}
    PROVE  R!Exp(0, k, m) = 0
<1>1. k - 1 \in Nat /\ (k - 1) + 1 = k
  OBVIOUS
<1>2. PICK o \in Int, j \in Nat : o = 0 /\ j = k - 1
  BY <1>1
<1>3. PICK x \in 0..(m - 1) : x = R!Exp(o, j, m)
  BY ExpStep
<1>4. R!Exp(o, j + 1, m) = (x * o) % m
  BY <1>3, ExpStep
<1>5. x * o = o /\ o \in 0..(m - 1) /\ j + 1 = k
  BY <1>2
<1>6. o % m = o
  BY <1>5, ModSmall
<1> QED  BY <1>2, <1>4, <1>5, <1>6

\* A base may be reduced first, by the modulus,
LEMMA ExpReduced ==
    ASSUME NEW b \in Int, NEW m \in Nat \ {0}, NEW k \in Nat
    PROVE  R!Exp(b % m, k, m) = R!Exp(b, k, m)
<1>1. PICK c \in Int : c = b % m
  OBVIOUS
<1> DEFINE U == {e \in Nat : R!Exp(c, e, m) = R!Exp(b, e, m)}
<1>2. 0 \in U
  BY ExpStep
<1>3. ASSUME NEW e \in U PROVE e + 1 \in U
  <2>1. PICK x \in Int : x = R!Exp(b, e, m)
    BY ExpStep
  <2>2. R!Exp(b, e + 1, m) = (x * b) % m /\ R!Exp(c, e + 1, m) = (x * c) % m
    BY <2>1, ExpStep
  <2>3. (c * x) % m = (b * x) % m
    BY <1>1, ModTimes
  <2>4. c * x = x * c /\ b * x = x * b
    OBVIOUS
  <2> QED  BY <2>2, <2>3, <2>4
<1>4. U \in SUBSET Nat
  OBVIOUS
<1> HIDE DEF U
<1>5. U = Nat
  BY <1>2, <1>3, <1>4, Inductive
<1> QED  BY <1>1, <1>5 DEF U

\* and a power by a factor of the modulus.
LEMMA ModOfMultiple ==
    ASSUME NEW p \in Nat \ {0}, NEW q \in Nat \ {0}, NEW v \in Int
    PROVE  (v % (p * q)) % p = v % p
<1>1. PICK n \in Nat \ {0} : n = p * q
  OBVIOUS
<1>2. PICK a \in Int, r \in 0..(n - 1) : r = v % n /\ v = n * a + r
  BY Remainder
<1>3. PICK e \in Int : e = q * a
  OBVIOUS
<1>4. (p * e + r) % p = r % p
  <2>1. r \in Int
    OBVIOUS
  <2> QED  BY <2>1, ModPlus
<1>5. n * a = p * e
  BY <1>1, <1>3
<1> QED  BY <1>1, <1>2, <1>4, <1>5

Product(n, p, q) == n = p * q /\ n \in Nat \ {0} /\ p \in Nat \ {0} /\ q \in Nat \ {0}

LEMMA ExpOfMultiple ==
    ASSUME NEW b \in Int, NEW n, NEW p, NEW q, Product(n, p, q), NEW k \in Nat
    PROVE  R!Exp(b, k, n) % p = R!Exp(b, k, p)
<1>1. n = p * q /\ n \in Nat \ {0} /\ p \in Nat \ {0} /\ q \in Nat \ {0}
  BY DEF Product
<1> DEFINE U == {e \in Nat : R!Exp(b, e, n) % p = R!Exp(b, e, p)}
<1>2. 0 \in U
  <2>1. R!Exp(b, 0, n) = 1 % n /\ R!Exp(b, 0, p) = 1 % p
    BY <1>1, ExpStep
  <2>2. PICK one \in Int : one = 1
    OBVIOUS
  <2>3. (one % n) % p = one % p
    BY <1>1, ModOfMultiple
  <2> QED  BY <2>1, <2>2, <2>3
<1>3. ASSUME NEW e \in U PROVE e + 1 \in U
  <2>1. PICK x \in Int, y \in Int : x = R!Exp(b, e, n) /\ y = R!Exp(b, e, p)
    BY <1>1, ExpStep
  <2>2. R!Exp(b, e + 1, n) = (x * b) % n /\ R!Exp(b, e + 1, p) = (y * b) % p
    BY <1>1, <2>1, ExpStep
  <2>3. PICK z \in Int : z = x * b
    OBVIOUS
  <2>4. (z % n) % p = z % p
    BY <1>1, ModOfMultiple
  <2>5. x % p = y
    BY <2>1
  <2>6. ((x % p) * b) % p = (x * b) % p
    BY <1>1, ModTimes
  <2> QED  BY <2>2, <2>3, <2>4, <2>5, <2>6
<1>4. U \in SUBSET Nat
  OBVIOUS
<1> HIDE DEF U
<1>5. U = Nat
  BY <1>2, <1>3, <1>4, Inductive
<1> QED  BY <1>1, <1>5 DEF U

-----------------------------------------------------------------------------
(* Fermat's theorem *)

\* Modulo a prime, a factor can be cancelled.
LEMMA Cancel ==
    ASSUME NEW p \in Nat, R!IsPrime(p), NEW x \in 1..(p - 1),
           NEW y \in 1..(p - 1), NEW z \in 1..(p - 1), (x * y) % p = (x * z) % p
    PROVE  y = z
<1>1. p \in Nat \ {0}
  BY DEF R!IsPrime
<1>2. ASSUME NEW v \in 1..(p - 1), NEW w \in 1..(p - 1), (x * v) % p = (x * w) % p,
             v > w
      PROVE  FALSE
  <2>1. PICK d \in 1..(p - 1) : d = v - w
    BY <1>2
  <2>2. PICK a \in Int, b \in Int : a = x * v /\ b = x * w
    OBVIOUS
  <2>3. (a - b) % p = 0
    BY <1>1, <1>2, <2>2, ModEqual
  <2>4. a - b = x * d
    <3>1. x * (v - w) = x * v - x * w
      OBVIOUS
    <3> QED  BY <2>1, <2>2, <3>1
  <2> QED  BY <2>3, <2>4, NoZeroDivisors
<1> QED  BY <1>2

LEMMA ProductBelow ==
    ASSUME NEW p \in Nat, R!IsPrime(p), NEW x \in 1..(p - 1), NEW y \in 1..(p - 1)
    PROVE  (x * y) % p \in 1..(p - 1)
<1>1. p \in Nat \ {0}
  BY DEF R!IsPrime
<1>2. PICK z \in Int : z = x * y
  OBVIOUS
<1>3. z % p \in 0..(p - 1)
  BY <1>1
<1>4. z % p # 0
  BY <1>2, NoZeroDivisors
<1> QED  BY <1>2, <1>3, <1>4

LEMMA PowerBelow ==
    ASSUME NEW p \in Nat, R!IsPrime(p), NEW a \in 1..(p - 1)
    PROVE  \A k \in Nat : R!Exp(a, k, p) \in 1..(p - 1)
<1>1. p \in Nat \ {0} /\ p > 1
  BY DEF R!IsPrime
<1> DEFINE U == {e \in Nat : R!Exp(a, e, p) \in 1..(p - 1)}
<1>2. 0 \in U
  <2>1. R!Exp(a, 0, p) = 1 % p
    BY <1>1, ExpStep
  <2>2. PICK one \in 0..(p - 1) : one = 1
    BY <1>1
  <2>3. one % p = one
    BY <1>1, ModSmall
  <2> QED  BY <1>1, <2>1, <2>2, <2>3
<1>3. ASSUME NEW e \in U PROVE e + 1 \in U
  <2>1. PICK x \in 1..(p - 1) : x = R!Exp(a, e, p)
    OBVIOUS
  <2>2. R!Exp(a, e + 1, p) = (x * a) % p
    BY <1>1, <2>1, ExpStep
  <2> QED  BY <2>2, ProductBelow
<1>4. U \in SUBSET Nat
  OBVIOUS
<1> HIDE DEF U
<1>5. U = Nat
  BY <1>2, <1>3, <1>4, Inductive
<1> QED  BY <1>5 DEF U

\* Equal powers are a period apart.
LEMMA PowersRepeat ==
    ASSUME NEW p \in Nat, R!IsPrime(p), NEW a \in 1..(p - 1),
           NEW j \in Nat, NEW k \in Nat, j < k, R!Exp(a, j, p) = R!Exp(a, k, p)
    PROVE  R!Exp(a, k - j, p) = 1
<1>1. p \in Nat \ {0} /\ p > 1
  BY DEF R!IsPrime
<1>2. PICK d \in Nat : d = k - j
  OBVIOUS
<1>3. PICK x \in 1..(p - 1), y \in 1..(p - 1) : x = R!Exp(a, j, p) /\ y = R!Exp(a, d, p)
  BY PowerBelow
<1>4. R!Exp(a, j + d, p) = (x * y) % p
  BY <1>1, <1>3, ExpPlus
<1>5. j + d = k
  BY <1>2
<1>6. PICK one \in 1..(p - 1) : one = 1
  BY <1>1
<1>7. (x * one) % p = x
  <2>1. x * one = x /\ x \in 0..(p - 1)
    BY <1>6
  <2> QED  BY <1>1, <2>1, ModSmall
<1>8. (x * y) % p = (x * one) % p
  BY <1>3, <1>4, <1>5, <1>7
<1>9. y = one
  BY <1>8, Cancel
<1> QED  BY <1>2, <1>3, <1>6, <1>9

\* d is the order of a: the first power of a that is 1.
IsOrder(a, d, p) ==
    /\ d \in Nat \ {0}
    /\ R!Exp(a, d, p) = 1
    /\ \A k \in 1..(d - 1) : R!Exp(a, k, p) # 1

\* There is one: p powers have p - 1 values.
LEMMA OrderExists ==
    ASSUME NEW p \in Nat, R!IsPrime(p), NEW a \in 1..(p - 1)
    PROVE  \E d : IsOrder(a, d, p)
<1>1. p \in Nat \ {0} /\ p > 1
  BY DEF R!IsPrime
<1>2. PICK S, V : S = 0..(p - 1) /\ V = 1..(p - 1)
  OBVIOUS
<1>3. /\ IsFiniteSet(S) /\ IsFiniteSet(V)
      /\ Cardinality(V) < Cardinality(S)
  <2>1. 0 \in Int /\ 1 \in Int /\ p - 1 \in Int
    OBVIOUS
  <2>2. IsFiniteSet(S) /\ Cardinality(S) = IF 0 > p - 1 THEN 0 ELSE (p - 1) - 0 + 1
    BY <1>2, <2>1, FS_Interval
  <2>3. IsFiniteSet(V) /\ Cardinality(V) = IF 1 > p - 1 THEN 0 ELSE (p - 1) - 1 + 1
    BY <1>2, <2>1, FS_Interval
  <2> QED  BY <1>1, <2>2, <2>3
<1>4. PICK f : f = [k \in S |-> R!Exp(a, k, p)]
  OBVIOUS
<1>5. f \in [S -> V]
  <2>1. \A k \in S : R!Exp(a, k, p) \in V
    BY <1>2, PowerBelow
  <2> QED  BY <1>4, <2>1
<1>6. PICK x \in S, y \in S : x # y /\ f[x] = f[y]
  BY <1>3, <1>5, FS_PigeonHole
<1>7. \E k \in Nat : k > 0 /\ R!Exp(a, k, p) = 1
  <2>1. x \in Nat /\ y \in Nat /\ R!Exp(a, x, p) = R!Exp(a, y, p)
    BY <1>2, <1>4, <1>6
  <2>2. CASE x < y
    <3>1. y - x \in Nat /\ y - x > 0
      BY <2>1, <2>2
    <3> QED  BY <2>1, <2>2, <3>1, PowersRepeat
  <2>3. CASE y < x
    <3>1. x - y \in Nat /\ x - y > 0
      BY <2>1, <2>3
    <3> QED  BY <2>1, <2>3, <3>1, PowersRepeat
  <2> QED  BY <1>6, <2>1, <2>2, <2>3
<1> DEFINE U == {k \in Nat : k > 0 /\ R!Exp(a, k, p) = 1}
<1>8. PICK d \in U : \A k \in U : d <= k
  <2>1. U \in SUBSET Nat /\ U # {}
    BY <1>7
  <2> HIDE DEF U
  <2> QED  BY <2>1, LeastNumber
<1>9. ASSUME NEW k \in 1..(d - 1), R!Exp(a, k, p) = 1 PROVE FALSE
  <2>1. k \in U /\ ~(d <= k)
    BY <1>8, <1>9
  <2> QED  BY <1>8, <2>1
<1>10. IsOrder(a, d, p)
  BY <1>8, <1>9 DEF IsOrder
<1> QED  BY <1>10

\* The multiples of x by powers of a.
Orbit(a, d, p, x) == {(x * R!Exp(a, k, p)) % p : k \in 0..(d - 1)}

\* Multiplication by a does not lead out of S.
Closed(a, p, S) == S \subseteq 1..(p - 1) /\ \A x \in S : (x * a) % p \in S

LEMMA OrbitSize ==
    ASSUME NEW p \in Nat, R!IsPrime(p), NEW a \in 1..(p - 1), NEW d, IsOrder(a, d, p),
           NEW x \in 1..(p - 1)
    PROVE  Cardinality(Orbit(a, d, p, x)) = d /\ IsFiniteSet(Orbit(a, d, p, x))
<1>1. d \in Nat \ {0}
  BY DEF IsOrder
<1>2. PICK S, O : S = 0..(d - 1) /\ O = Orbit(a, d, p, x)
  OBVIOUS
<1>3. PICK f : f = [k \in S |-> (x * R!Exp(a, k, p)) % p]
  OBVIOUS
<1>4. f \in [S -> O] /\ \A y \in O : \E k \in S : f[k] = y
  BY <1>2, <1>3 DEF Orbit
<1>5. ASSUME NEW j \in S, NEW k \in S, j < k, f[j] = f[k] PROVE FALSE
  <2>1. PICK y \in 1..(p - 1), z \in 1..(p - 1) : y = R!Exp(a, j, p) /\ z = R!Exp(a, k, p)
    <3>1. j \in Nat /\ k \in Nat
      BY <1>2
    <3> QED  BY <3>1, PowerBelow
  <2>2. y = z
    BY <1>3, <1>5, <2>1, Cancel
  <2>3. j \in Nat /\ k \in Nat /\ k - j \in 1..(d - 1)
    BY <1>1, <1>2, <1>5
  <2>4. R!Exp(a, k - j, p) = 1
    BY <1>5, <2>1, <2>2, <2>3, PowersRepeat
  <2> QED  BY <2>3, <2>4 DEF IsOrder
<1>6. ASSUME NEW j \in S, NEW k \in S, f[j] = f[k] PROVE j = k
  <2>1. j \in Int /\ k \in Int
    BY <1>2
  <2> QED  BY <1>5, <1>6, <2>1
<1>7. f \in Bijection(S, O)
  <2>1. f \in Injection(S, O)
    <3>1. \A j, k \in S : f[j] = f[k] => j = k
      BY <1>6
    <3>2. f \in [S -> O] /\ DOMAIN f = S
      BY <1>4
    <3>3. IsInjective(f)
      BY <3>1, <3>2, Zenon DEF IsInjective
    <3> QED  BY <3>2, <3>3, Zenon DEF Injection
  <2>2. f \in Surjection(S, O)
    BY <1>4 DEF Surjection
  <2> QED  BY <2>1, <2>2 DEF Bijection
<1>8. ExistsBijection(S, O)
  BY <1>7 DEF ExistsBijection
<1>9. IsFiniteSet(S) /\ Cardinality(S) = d
  <2>1. 0 \in Int /\ d - 1 \in Int
    BY <1>1
  <2>2. IsFiniteSet(S) /\ Cardinality(S) = IF 0 > d - 1 THEN 0 ELSE (d - 1) - 0 + 1
    BY <1>2, <2>1, FS_Interval
  <2> QED  BY <1>1, <2>2
<1> QED  BY <1>2, <1>8, <1>9, FS_Bijection

\* What an orbit leaves of a closed set is closed.
LEMMA OrbitLeaves ==
    ASSUME NEW p \in Nat, R!IsPrime(p), NEW a \in 1..(p - 1), NEW d, IsOrder(a, d, p),
           NEW S, Closed(a, p, S), NEW x \in S
    PROVE  /\ Orbit(a, d, p, x) \subseteq S
           /\ Closed(a, p, S \ Orbit(a, d, p, x))
<1>1. /\ d \in Nat \ {0} /\ R!Exp(a, d, p) = 1
      /\ p \in Nat \ {0} /\ p > 1
      /\ S \subseteq 1..(p - 1) /\ x \in 1..(p - 1)
  BY DEF IsOrder, R!IsPrime, Closed
<1>2. \A k \in Nat : R!Exp(a, k, p) \in 1..(p - 1)
  BY PowerBelow
<1>3. ASSUME NEW k \in Nat
      PROVE  (x * R!Exp(a, k + 1, p)) % p = (((x * R!Exp(a, k, p)) % p) * a) % p
  <2>1. PICK y \in 1..(p - 1) : y = R!Exp(a, k, p)
    BY <1>2
  <2>2. R!Exp(a, k + 1, p) = (y * a) % p
    BY <1>1, <2>1, ExpStep
  <2>3. x \in Int /\ y \in Int /\ a \in Int
    BY <1>1
  <2>4. /\ (((x * y) % p) * a) % p = (x * y * a) % p
        /\ (x * ((y * a) % p)) % p = (x * y * a) % p
    BY <1>1, <2>3, ModThree
  <2> QED  BY <2>1, <2>2, <2>4
<1>4. (x * R!Exp(a, 0, p)) % p = x /\ (x * R!Exp(a, d, p)) % p = x
  <2>1. R!Exp(a, 0, p) = 1 % p
    BY <1>1, ExpStep
  <2>2. PICK one \in 0..(p - 1) : one = 1
    BY <1>1
  <2>3. one % p = one
    BY <1>1, ModSmall
  <2>4. x * one = x /\ x \in 0..(p - 1)
    BY <1>1, <2>2
  <2>5. x % p = x
    BY <1>1, <2>4, ModSmall
  <2> QED  BY <1>1, <2>1, <2>2, <2>3, <2>4, <2>5
<1>5. \A k \in Nat : (x * R!Exp(a, k, p)) % p \in S
  <2> DEFINE U == {k \in Nat : (x * R!Exp(a, k, p)) % p \in S}
  <2>1. 0 \in U
    BY <1>4
  <2>2. ASSUME NEW k \in U PROVE k + 1 \in U
    <3>1. PICK y \in S : y = (x * R!Exp(a, k, p)) % p
      OBVIOUS
    <3>2. (y * a) % p \in S
      BY DEF Closed
    <3> QED  BY <1>3, <3>1, <3>2
  <2>3. U \in SUBSET Nat
    OBVIOUS
  <2> HIDE DEF U
  <2>4. U = Nat
    BY <2>1, <2>2, <2>3, Inductive
  <2> QED  BY <2>4 DEF U
<1>6. Orbit(a, d, p, x) \subseteq S
  BY <1>1, <1>5 DEF Orbit
<1>7. ASSUME NEW y \in S \ Orbit(a, d, p, x), (y * a) % p \in Orbit(a, d, p, x)
      PROVE  FALSE
  <2>1. PICK k \in 0..(d - 1) : (y * a) % p = (x * R!Exp(a, k, p)) % p
    BY <1>7 DEF Orbit
  <2>2. PICK j \in 0..(d - 1) : (x * R!Exp(a, j + 1, p)) % p = (y * a) % p
    <3>1. CASE k = 0
      <4>1. d - 1 \in 0..(d - 1) /\ (d - 1) + 1 = d
        BY <1>1
      <4> QED  BY <1>4, <2>1, <3>1, <4>1
    <3>2. CASE k # 0
      <4>1. k - 1 \in 0..(d - 1) /\ (k - 1) + 1 = k
        BY <1>1, <3>2
      <4> QED  BY <2>1, <4>1
    <3> QED  BY <3>1, <3>2
  <2>3. PICK z \in 1..(p - 1) : z = (x * R!Exp(a, j, p)) % p
    BY <1>1, <1>2, ProductBelow
  <2>4. j \in Nat
    OBVIOUS
  <2>5. (z * a) % p = (y * a) % p
    BY <1>3, <2>2, <2>3, <2>4
  <2>6. y \in 1..(p - 1)
    BY <1>1
  <2>7. (a * z) % p = (a * y) % p
    <3>1. z * a = a * z /\ y * a = a * y
      BY <2>6
    <3> QED  BY <2>5, <3>1
  <2>8. z = y
    BY <2>6, <2>7, Cancel
  <2>9. z \in Orbit(a, d, p, x)
    BY <2>3 DEF Orbit
  <2> QED  BY <1>7, <2>8, <2>9
<1>8. Closed(a, p, S \ Orbit(a, d, p, x))
  BY <1>1, <1>7 DEF Closed
<1> QED  BY <1>6, <1>8

\* A closed set is made of orbits.
LEMMA OrderDivides ==
    ASSUME NEW p \in Nat, R!IsPrime(p), NEW a \in 1..(p - 1), NEW d, IsOrder(a, d, p),
           NEW S, Closed(a, p, S)
    PROVE  IsFiniteSet(S) /\ Cardinality(S) \in Nat /\ Cardinality(S) % d = 0
<1>0. d \in Nat \ {0}
  BY DEF IsOrder
<1>1. ASSUME NEW V, Closed(a, p, V)
      PROVE  IsFiniteSet(V) /\ Cardinality(V) \in Nat
  <2>1. IsFiniteSet(1..(p - 1))
    <3>1. 1 \in Int /\ p - 1 \in Int
      OBVIOUS
    <3> QED  BY <3>1, FS_Interval
  <2>2. V \subseteq 1..(p - 1)
    BY <1>1 DEF Closed
  <2>3. IsFiniteSet(V)
    BY <2>1, <2>2, FS_Subset
  <2> QED  BY <2>3, FS_CardinalityType
<1> DEFINE Bad(n) == \E V : Closed(a, p, V) /\ Cardinality(V) = n /\ n % d # 0
           U == {n \in Nat : Bad(n)}
<1>2. ASSUME U # {} PROVE FALSE
  <2>1. PICK n \in U : \A k \in U : n <= k
    <3>1. U \in SUBSET Nat
      OBVIOUS
    <3> HIDE DEF U
    <3> QED  BY <1>2, <3>1, LeastNumber
  <2>2. PICK V : Closed(a, p, V) /\ Cardinality(V) = n /\ n % d # 0
    BY <2>1
  <2>3. n \in Nat /\ IsFiniteSet(V)
    BY <1>1, <2>2
  <2>4. V # {}
    <3>1. 0 % d = 0
      BY <1>0
    <3> QED  BY <2>2, <3>1, FS_EmptySet
  <2>5. PICK x \in V : TRUE
    BY <2>4
  <2>6. x \in 1..(p - 1)
    BY <2>2 DEF Closed
  <2>7. PICK O : O = Orbit(a, d, p, x)
    OBVIOUS
  <2>8. O \subseteq V /\ Closed(a, p, V \ O)
    BY <2>2, <2>7, OrbitLeaves
  <2>9. Cardinality(O) = d /\ IsFiniteSet(O)
    BY <2>6, <2>7, OrbitSize
  <2>10. Cardinality(V \ O) = n - d
    <3>1. V \cap O = O
      BY <2>8
    <3>2. Cardinality(V \ O) = Cardinality(V) - Cardinality(V \cap O)
      BY <2>3, <2>9, FS_Difference
    <3> QED  BY <2>2, <2>9, <3>1, <3>2
  <2>11. PICK k \in Nat : k = Cardinality(V \ O)
    BY <1>1, <2>8
  <2>12. k % d # 0
    <3>1. (d * 1 + k) % d = k % d
      <4>1. 1 \in Int /\ k \in Int
        OBVIOUS
      <4> QED  BY <1>0, <4>1, ModPlus
    <3>2. d * 1 + k = n
      BY <1>0, <2>3, <2>10, <2>11
    <3> QED  BY <2>2, <3>1, <3>2
  <2>13. k \in U
    BY <2>8, <2>11, <2>12
  <2> QED  BY <1>0, <2>1, <2>3, <2>10, <2>11, <2>13
<1>3. Cardinality(S) \notin U
  BY <1>2
<1> QED  BY <1>1, <1>3

\* Fermat's theorem: the numbers below p are closed, so the order of a
\* divides p - 1.
LEMMA Fermat ==
    ASSUME NEW p \in Nat, R!IsPrime(p), NEW a \in 1..(p - 1)
    PROVE  R!Exp(a, p - 1, p) = 1
<1>1. p \in Nat \ {0} /\ p > 1
  BY DEF R!IsPrime
<1>2. PICK d : IsOrder(a, d, p)
  BY OrderExists
<1>3. d \in Nat \ {0} /\ R!Exp(a, d, p) = 1
  BY <1>2 DEF IsOrder
<1>4. PICK S : S = 1..(p - 1)
  OBVIOUS
<1>5. Closed(a, p, S)
  <2>1. \A x \in S : (x * a) % p \in S
    BY <1>4, ProductBelow
  <2> QED  BY <1>4, <2>1 DEF Closed
<1>6. Cardinality(S) = p - 1
  <2>1. 1 \in Int /\ p - 1 \in Int
    OBVIOUS
  <2>2. IsFiniteSet(S) /\ Cardinality(S) = IF 1 > p - 1 THEN 0 ELSE (p - 1) - 1 + 1
    BY <1>4, <2>1, FS_Interval
  <2> QED  BY <1>1, <2>2
<1>7. (p - 1) % d = 0
  BY <1>2, <1>5, <1>6, OrderDivides
<1>8. PICK c \in Nat : p - 1 = d * c
  <2>1. p - 1 \in Int
    OBVIOUS
  <2>2. PICK c \in Int, r \in 0..(d - 1) : r = (p - 1) % d /\ p - 1 = d * c + r
    BY <1>3, <2>1, Remainder
  <2>3. PICK x \in Int : x = d * c
    BY <1>3
  <2>4. r = 0 /\ p - 1 = x + r
    BY <1>3, <1>7, <2>2, <2>3
  <2>5. p - 1 = d * c
    BY <2>3, <2>4
  <2>6. c >= 0
    <3>1. CASE c <= -1
      <4>1. d * c <= -1
        BY <1>3, <3>1
      <4> QED  BY <1>1, <2>5, <4>1
    <3> QED  BY <3>1
  <2> QED  BY <2>5, <2>6
<1>9. R!Exp(a, d * c, p) = R!Exp(R!Exp(a, d, p), c, p)
  BY <1>1, <1>3, ExpTimes
<1>10. R!Exp(1, c, p) = 1 % p
  BY <1>1, ExpOne
<1>11. 1 % p = 1
  <2>1. 1 \in 0..(p - 1)
    BY <1>1
  <2>2. PICK one \in 0..(p - 1) : one = 1
    BY <2>1
  <2>3. one % p = one
    BY <1>1, ModSmall
  <2> QED  BY <2>2, <2>3
<1> QED  BY <1>3, <1>8, <1>9, <1>10, <1>11

-----------------------------------------------------------------------------
(* Exponents are reduced by p - 1 *)

LEMMA ExpReducesExponent ==
    ASSUME NEW p \in Nat, R!IsPrime(p), NEW a \in 1..(p - 1), NEW e \in Nat
    PROVE  R!Exp(a, e % (p - 1), p) = R!Exp(a, e, p)
<1>1. p \in Nat \ {0} /\ p > 1
  BY DEF R!IsPrime
<1>2. PICK m \in Nat \ {0} : m = p - 1
  BY <1>1
<1>3. PICK c \in Int, r \in 0..(m - 1) : r = e % m /\ e = m * c + r
  <2>1. e \in Int
    OBVIOUS
  <2> QED  BY <2>1, Remainder
<1>4. c \in Nat
  <2>1. CASE c <= -1
    <3>1. m * c <= -m
      BY <2>1
    <3>2. PICK x \in Int : x = m * c
      OBVIOUS
    <3> QED  BY <1>3, <3>1, <3>2
  <2> QED  BY <2>1
<1>5. PICK l \in Nat : l = m * c
  BY <1>4
<1>6. R!Exp(a, l, p) = 1
  <2>1. R!Exp(a, m * c, p) = R!Exp(R!Exp(a, m, p), c, p)
    BY <1>1, <1>4, ExpTimes
  <2>2. R!Exp(a, m, p) = 1
    BY <1>2, Fermat
  <2>3. R!Exp(1, c, p) = 1 % p
    BY <1>1, <1>4, ExpOne
  <2>4. PICK one \in 0..(p - 1) : one = 1
    BY <1>1
  <2>5. one % p = one
    BY <1>1, ModSmall
  <2> QED  BY <1>5, <2>1, <2>2, <2>3, <2>4, <2>5
<1>7. PICK x \in 0..(p - 1) : x = R!Exp(a, r, p)
  <2>1. r \in Nat /\ a \in Int
    OBVIOUS
  <2> QED  BY <1>1, <2>1, ExpStep
<1>8. R!Exp(a, l + r, p) = (1 * x) % p
  <2>1. r \in Nat
    OBVIOUS
  <2> QED  BY <1>1, <1>6, <1>7, <2>1, ExpPlus
<1>9. x % p = x
  BY <1>1, ModSmall
<1>10. 1 * x = x /\ l + r = e
  BY <1>3, <1>5
<1> QED  BY <1>2, <1>3, <1>7, <1>8, <1>9, <1>10

-----------------------------------------------------------------------------
(* The trapdoor, modulo one prime *)

\* g gives the powers of two.
Doubles(g) ==
    /\ g \in [Nat -> Nat \ {0}]
    /\ g[0] = 1
    /\ \A k \in Nat : g[k + 1] = 2 * g[k]

LEMMA DoublesExist == \E g : Doubles(g)
<1>1. PICK S : S = Nat \ {0}
  OBVIOUS
<1>2. PICK F : F = [k \in Nat |-> [v \in S |-> 2 * v]]
  OBVIOUS
<1>3. F \in StepsOf(S)
  <2>1. \A v \in S : 2 * v \in S
    BY <1>1
  <2> QED  BY <1>2, <2>1 DEF StepsOf
<1>4. PICK g : Follows(g, S, 1, F)
  <2>1. 1 \in S
    BY <1>1
  <2> QED  BY <1>3, <2>1, Recursion
<1>5. Doubles(g)
  BY <1>1, <1>2, <1>4 DEF Follows, Doubles
<1> QED  BY <1>5

\* The exponent that NewRSWMinter computes is a reduced power of two.
LEMMA ExpOfTwo ==
    ASSUME NEW m \in Nat \ {0}, NEW g, Doubles(g), NEW t \in Nat
    PROVE  R!Exp(2, t, m) = g[t] % m
<1> USE DEF Doubles
<1> DEFINE U == {k \in Nat : R!Exp(2, k, m) = g[k] % m}
<1>0. PICK two \in Int : two = 2
  OBVIOUS
<1>1. 0 \in U
  <2>1. R!Exp(two, 0, m) = 1 % m
    BY ExpStep
  <2> QED  BY <1>0, <2>1
<1>2. ASSUME NEW k \in U PROVE k + 1 \in U
  <2>1. PICK x \in Int : x = g[k]
    OBVIOUS
  <2>2. R!Exp(two, k + 1, m) = ((x % m) * two) % m
    BY <1>0, <2>1, ExpStep
  <2>3. ((x % m) * two) % m = (x * two) % m
    BY ModTimes
  <2>4. x * two = g[k + 1]
    BY <1>0, <2>1
  <2> QED  BY <1>0, <2>2, <2>3, <2>4
<1>3. U \in SUBSET Nat
  OBVIOUS
<1> HIDE DEF U
<1>4. U = Nat
  BY <1>1, <1>2, <1>3, Inductive
<1> QED  BY <1>4 DEF U

\* Squaring t times raises to the power 2^t.
LEMMA Squarings ==
    ASSUME NEW n \in Nat \ {0}, NEW x \in Nat, NEW t \in Nat, NEW g, Doubles(g)
    PROVE  R!SolveRSW(n, x, t) = R!Exp(x, g[t], n)
<1>0. g \in [Nat -> Nat] /\ g[0] = 1 /\ \A k \in Nat : g[k + 1] = 2 * g[k]
  BY DEF Doubles
<1> DEFINE f == [k \in 0..t |-> R!Exp(x, g[k], n)]
           h == CHOOSE sq : sq = [k \in 0..t |->
                    IF k = 0 THEN x % n ELSE (sq[k - 1] * sq[k - 1]) % n]
<1>1. f = [k \in 0..t |-> IF k = 0 THEN x % n ELSE (f[k - 1] * f[k - 1]) % n]
  <2>1. ASSUME NEW k \in 0..t
        PROVE  f[k] = IF k = 0 THEN x % n ELSE (f[k - 1] * f[k - 1]) % n
    <3>1. CASE k = 0
      <4>1. PICK one \in Int : one = 1 % n
        OBVIOUS
      <4>2. R!Exp(x, 0, n) = one /\ R!Exp(x, 0 + 1, n) = (one * x) % n
        <5>1. PICK o \in Nat : o = 0
          OBVIOUS
        <5>2. x \in Int
          OBVIOUS
        <5>3. R!Exp(x, o + 1, n) = (R!Exp(x, o, n) * x) % n /\ R!Exp(x, 0, n) = 1 % n
          BY <5>2, ExpStep
        <5> QED  BY <4>1, <5>1, <5>3
      <4>3. (one * x) % n = (1 * x) % n
        <5>1. PICK u \in Int : u = 1
          OBVIOUS
        <5>2. x \in Int
          OBVIOUS
        <5>3. ((u % n) * x) % n = (u * x) % n
          BY <5>2, ModTimes
        <5> QED  BY <4>1, <5>1, <5>3
      <4>4. 1 * x = x /\ 0 + 1 = 1
        OBVIOUS
      <4> QED  BY <1>0, <3>1, <4>2, <4>3, <4>4
    <3>2. CASE k # 0
      <4>1. k - 1 \in Nat /\ (k - 1) + 1 = k /\ k - 1 \in 0..t
        BY <3>2
      <4>2. PICK e \in Nat : e = g[k - 1]
        BY <1>0, <4>1
      <4>3. g[k] = e + e
        BY <1>0, <4>1, <4>2
      <4>4. R!Exp(x, e + e, n) = (R!Exp(x, e, n) * R!Exp(x, e, n)) % n
        BY ExpPlus
      <4>5. f[k] = R!Exp(x, g[k], n) /\ f[k - 1] = R!Exp(x, g[k - 1], n)
        BY <4>1
      <4> QED  BY <3>2, <4>2, <4>3, <4>4, <4>5, Zenon
    <3> QED  BY <3>1, <3>2
  <2>2. f = [k \in 0..t |-> f[k]]
    OBVIOUS
  <2> HIDE DEF f
  <2> QED  BY <2>1, <2>2
<1>2. h = [k \in 0..t |-> IF k = 0 THEN x % n ELSE (h[k - 1] * h[k - 1]) % n]
  <2> HIDE DEF f
  <2> QED  BY <1>1
<1>3. R!SolveRSW(n, x, t) = h[t]
  BY DEF R!SolveRSW
<1> HIDE DEF h
<1>4. Parallel(h, f, t)
  <2>1. h[0] = f[0]
    <3> HIDE DEF f
    <3> QED  BY <1>1, <1>2
  <2>2. ASSUME NEW k \in 0..t, k # 0, h[k - 1] = f[k - 1] PROVE h[k] = f[k]
    <3> HIDE DEF f
    <3> QED  BY <1>1, <1>2, <2>2
  <2> HIDE DEF f
  <2> QED  BY <2>1, <2>2 DEF Parallel
<1>5. h[t] = f[t]
  <2> HIDE DEF f
  <2>1. t \in 0..t
    OBVIOUS
  <2> QED  BY <1>4, <2>1, GoAlike
<1> QED  BY <1>3, <1>5

\* With a base b of the minter, the x of the puzzle is a power of b and the
\* y is the same power of b^ep. Squaring x t times gives y, for multiples
\* of the prime too if ep is not 0.
LEMMA TrapdoorOfPrime ==
    ASSUME NEW p \in Nat, R!IsPrime(p), NEW b \in 0..(p - 1), NEW r \in Nat,
           NEW t \in Nat, NEW g, Doubles(g), b # 0 \/ R!Exp(2, t, p - 1) # 0
    PROVE  R!Exp(R!Exp(b, r, p), g[t], p) = R!Exp(R!Exp(b, R!Exp(2, t, p - 1), p), r, p)
<1>1. p \in Nat \ {0} /\ p > 1 /\ p - 1 \in Nat \ {0}
  BY DEF R!IsPrime
<1>2. PICK e \in Nat \ {0} : e = g[t]
  BY DEF Doubles
<1>3. R!Exp(2, t, p - 1) = e % (p - 1)
  BY <1>1, <1>2, ExpOfTwo
<1>4. PICK s \in Nat : s = e % (p - 1)
  BY <1>1
<1>5. CASE b # 0
  <2>1. b \in 1..(p - 1)
    BY <1>5
  <2>2. R!Exp(b, s, p) = R!Exp(b, e, p)
    BY <1>4, <2>1, ExpReducesExponent
  <2>3. R!Exp(b, e * r, p) = R!Exp(R!Exp(b, e, p), r, p)
    BY <1>1, ExpTimes
  <2>4. R!Exp(b, r * e, p) = R!Exp(R!Exp(b, r, p), e, p)
    BY <1>1, ExpTimes
  <2>5. e * r = r * e
    OBVIOUS
  <2> QED  BY <1>2, <1>3, <1>4, <2>2, <2>3, <2>4, <2>5
<1>6. CASE b = 0
  <2>1. PICK o \in Int : o = 0
    OBVIOUS
  <2>2. R!Exp(o, s, p) = 0 /\ R!Exp(o, e, p) = 0
    <3>1. s \in Nat \ {0}
      BY <1>3, <1>4, <1>6
    <3> QED  BY <1>1, <2>1, <3>1, ExpZero
  <2>3. CASE r = 0
    <3>1. R!Exp(o, 0, p) = 1 % p
      BY <1>1, ExpStep
    <3>2. PICK one \in 0..(p - 1) : one = 1
      BY <1>1
    <3>3. one % p = one
      BY <1>1, ModSmall
    <3>4. R!Exp(1, e, p) = 1 % p
      BY <1>1, ExpOne
    <3> QED  BY <1>2, <1>3, <1>4, <1>6, <2>1, <2>2, <2>3, <3>1, <3>2, <3>3, <3>4
  <2>4. CASE r # 0
    <3>1. R!Exp(o, r, p) = 0
      BY <1>1, <2>1, <2>4, ExpZero
    <3> QED  BY <1>2, <1>3, <1>4, <1>6, <2>1, <2>2, <3>1
  <2> QED  BY <2>3, <2>4
<1> QED  BY <1>5, <1>6

-----------------------------------------------------------------------------
(* The Chinese remainder of crt *)

LEMMA DistinctPrimes ==
    ASSUME NEW p \in Nat, NEW q \in Nat, R!IsPrime(p), R!IsPrime(q), p # q
    PROVE  q % p \in 1..(p - 1)
<1>1. /\ p \in Nat \ {0} /\ p > 1 /\ q \in Nat \ {0} /\ q > 1
      /\ \A d \in 2..(q - 1) : q % d # 0
  BY DEF R!IsPrime
<1>2. PICK a \in Int, r \in 0..(p - 1) : r = q % p /\ q = p * a + r
  <2>1. q \in Int
    OBVIOUS
  <2> QED  BY <1>1, <2>1, Remainder
<1>3. ASSUME r = 0 PROVE FALSE
  <2>1. PICK x \in Int : x = p * a
    OBVIOUS
  <2>2. q = p * a
    BY <1>2, <1>3, <2>1
  <2>3. a >= 1
    <3>1. CASE a <= 0
      <4>1. p * a <= 0
        BY <1>1, <3>1
      <4> QED  BY <1>1, <2>2, <4>1
    <3> QED  BY <3>1
  <2>4. p * a >= p
    BY <1>1, <2>3
  <2>5. p \in 2..(q - 1)
    BY <1>1, <2>2, <2>4
  <2> QED  BY <1>1, <1>2, <1>3, <2>5
<1> QED  BY <1>1, <1>2, <1>3

\* ModInverse finds an inverse: by Fermat's theorem, a power is one.
LEMMA InverseFound ==
    ASSUME NEW p \in Nat, R!IsPrime(p), NEW a \in 1..(p - 1)
    PROVE  /\ R!ModInverse(a, p) \in 0..(p - 1)
           /\ (a * R!ModInverse(a, p)) % p = 1
<1>1. p \in Nat \ {0} /\ p > 1 /\ p - 2 \in Nat /\ (p - 2) + 1 = p - 1 /\ a \in Int
  BY DEF R!IsPrime
<1>2. PICK c \in 0..(p - 1) : c = R!Exp(a, p - 2, p)
  BY <1>1, ExpStep
<1>3. R!Exp(a, (p - 2) + 1, p) = (c * a) % p
  BY <1>1, <1>2, ExpStep
<1>4. R!Exp(a, p - 1, p) = 1
  BY Fermat
<1>5. c * a = a * c
  BY <1>1
<1>6. (a * c) % p = 1
  BY <1>1, <1>3, <1>4, <1>5
<1>7. \E d \in 0..(p - 1) : (a * d) % p = 1
  BY <1>6
<1> QED  BY <1>7 DEF R!ModInverse

\* The two remainders of a number below p * q determine it.
LEMMA RemaindersDetermine ==
    ASSUME NEW p \in Nat, NEW q \in Nat, R!IsPrime(p), R!IsPrime(q), p # q,
           NEW u \in 0..(p * q - 1), NEW v \in 0..(p * q - 1),
           u % p = v % p, u % q = v % q
    PROVE  u = v
<1>1. p \in Nat \ {0} /\ q \in Nat \ {0} /\ q % p \in 1..(p - 1)
  <2>1. q % p \in 1..(p - 1)
    BY DistinctPrimes
  <2> QED  BY <2>1 DEF R!IsPrime
<1>2. PICK n \in Nat : n = p * q
  OBVIOUS
<1>3. ASSUME NEW x \in 0..(n - 1), NEW y \in 0..(n - 1), x > y,
             x % p = y % p, x % q = y % q
      PROVE  FALSE
  <2>1. PICK d \in 1..(n - 1) : d = x - y
    BY <1>3
  <2>2. d % p = 0 /\ d % q = 0
    <3>1. x \in Int /\ y \in Int
      OBVIOUS
    <3> QED  BY <1>1, <1>3, <2>1, <3>1, ModEqual
  <2>3. PICK b \in Int : d = q * b
    <3>1. d \in Int
      OBVIOUS
    <3>2. PICK b \in Int, r \in 0..(q - 1) : r = d % q /\ d = q * b + r
      BY <1>1, <3>1, Remainder
    <3>3. PICK z \in Int : z = q * b
      OBVIOUS
    <3>4. d = z
      BY <2>2, <3>2, <3>3
    <3> QED  BY <3>3, <3>4
  <2>4. b \in 1..(p - 1)
    <3>1. CASE b <= 0
      <4>1. q * b <= 0
        BY <1>1, <3>1
      <4> QED  BY <2>3, <4>1
    <3>2. CASE b >= p
      <4>1. q * b >= q * p
        BY <1>1, <3>2
      <4>2. q * p = n
        BY <1>2
      <4> QED  BY <2>3, <4>1, <4>2
    <3> QED  BY <3>1, <3>2
  <2>5. PICK z \in 1..(p - 1) : z = q % p
    BY <1>1
  <2>6. (z * b) % p = (q * b) % p
    <3>1. q \in Int
      OBVIOUS
    <3> QED  BY <1>1, <2>5, <3>1, ModTimes
  <2>7. (z * b) % p # 0
    BY <2>4, NoZeroDivisors
  <2> QED  BY <2>2, <2>3, <2>6, <2>7
<1>4. u \in 0..(n - 1) /\ v \in 0..(n - 1)
  BY <1>2
<1>5. ~(u > v) /\ ~(v > u)
  BY <1>3, <1>4
<1> QED  BY <1>4, <1>5

LEMMA CrtRemainders ==
    ASSUME NEW p \in Nat, NEW q \in Nat, R!IsPrime(p), R!IsPrime(q), p # q,
           NEW m, m.p = p, m.q = q, m.qInvP = R!ModInverse(q % p, p),
           NEW ap \in 0..(p - 1), NEW aq \in 0..(q - 1)
    PROVE  /\ R!Crt(m, ap, aq) \in 0..(p * q - 1)
           /\ R!Crt(m, ap, aq) % p = ap
           /\ R!Crt(m, ap, aq) % q = aq
<1>1. p \in Nat \ {0} /\ q \in Nat \ {0} /\ q % p \in 1..(p - 1) /\ p > 1
  <2>1. q % p \in 1..(p - 1)
    BY DistinctPrimes
  <2> QED  BY <2>1 DEF R!IsPrime
<1>2. PICK c \in 0..(p - 1) : c = m.qInvP /\ ((q % p) * c) % p = 1
  BY <1>1, InverseFound
<1>3. PICK e \in Int : e = ap - aq
  OBVIOUS
<1>4. PICK d \in 0..(p - 1) : d = e % p
  BY <1>1
<1>5. PICK f \in Int : f = d * c
  OBVIOUS
<1>6. PICK w \in 0..(p - 1) : w = f % p
  BY <1>1
<1>7. PICK v : v = R!Crt(m, ap, aq)
  OBVIOUS
<1>8. v = aq + q * w
  BY <1>2, <1>3, <1>4, <1>5, <1>6, <1>7 DEF R!Crt
<1>9. v \in 0..(p * q - 1)
  <2>1. q * w <= q * (p - 1) /\ q * w >= 0
    BY <1>1
  <2>2. q * (p - 1) = p * q - q
    OBVIOUS
  <2>3. PICK x \in Int, y \in Int : x = q * w /\ y = p * q
    OBVIOUS
  <2> QED  BY <1>8, <2>1, <2>2, <2>3
<1>10. v % q = aq
  <2>1. q * w + aq = v /\ aq \in Int /\ w \in Int
    BY <1>8
  <2>2. (q * w + aq) % q = aq % q
    BY <1>1, <2>1, ModPlus
  <2>3. aq % q = aq
    BY <1>1, ModSmall
  <2> QED  BY <2>1, <2>2, <2>3
<1>11. v % p = ap
  <2>1. (q * w) % p = e % p
    <3>1. PICK z \in Int : z = q % p
      BY <1>1
    <3>2. (q * w) % p = (q * f) % p
      <4>1. ((f % p) * q) % p = (f * q) % p
        <5>1. q \in Int
          OBVIOUS
        <5> QED  BY <1>1, <5>1, ModTimes
      <4>2. w * q = q * w /\ f * q = q * f
        OBVIOUS
      <4> QED  BY <1>6, <4>1, <4>2
    <3>3. PICK x \in Int : x = q * c
      OBVIOUS
    <3>4. q * f = x * d
      BY <1>5, <3>3
    <3>5. x % p = 1
      <4>1. q \in Int /\ c \in Int
        OBVIOUS
      <4>2. ((q % p) * c) % p = (q * c) % p
        BY <1>1, <4>1, ModTimes
      <4> QED  BY <1>2, <3>3, <4>2
    <3>6. ((x % p) * d) % p = (x * d) % p
      <4>1. d \in Int
        OBVIOUS
      <4> QED  BY <1>1, <4>1, ModTimes
    <3>7. 1 * d = d /\ d % p = d
      BY <1>1, ModSmall
    <3> QED  BY <1>4, <3>2, <3>4, <3>5, <3>6, <3>7
  <2>2. PICK x \in Int : x = q * w
    OBVIOUS
  <2>3. (x - e) % p = 0
    BY <1>1, <2>1, <2>2, ModEqual
  <2>4. v \in Int /\ ap \in Int /\ v - ap = x - e
    BY <1>3, <1>8, <2>2
  <2>5. v % p = ap % p
    BY <1>1, <2>3, <2>4, ModEqual
  <2>6. ap % p = ap
    BY <1>1, ModSmall
  <2> QED  BY <2>5, <2>6
<1> QED  BY <1>7, <1>9, <1>10, <1>11

-----------------------------------------------------------------------------
(* Hex digits *)

\* f counts the steps that s takes from a number down to one below least.
Descends(f, v, s, least, a) ==
    f = [u \in 0..v |-> IF u < least THEN a ELSE 1 + f[s[u]]]
Shrinks(s, least) == s \in [Nat -> Nat] /\ \A u \in Nat : u >= least => s[u] < u

LEMMA DescendsMore ==
    ASSUME NEW s, NEW least \in Nat, NEW a \in Nat, Shrinks(s, least), NEW n \in Nat,
           NEW f, Descends(f, n, s, least, a)
    PROVE  \E h : Descends(h, n + 1, s, least, a)
<1>0. f = [u \in 0..n |-> IF u < least THEN a ELSE 1 + f[s[u]]]
  BY DEF Descends
<1> DEFINE w == IF n + 1 < least THEN a ELSE 1 + f[s[n + 1]]
           h == [u \in 0..(n + 1) |-> IF u = n + 1 THEN w ELSE f[u]]
<1>1. ASSUME NEW u \in 0..(n + 1)
      PROVE  h[u] = IF u < least THEN a ELSE 1 + h[s[u]]
  <2>1. ASSUME u >= least PROVE s[u] \in 0..n /\ h[s[u]] = f[s[u]]
    <3>1. s[u] \in Nat /\ s[u] < u
      BY <2>1 DEF Shrinks
    <3>2. s[u] \in 0..n /\ s[u] \in 0..(n + 1) /\ s[u] # n + 1
      BY <3>1
    <3> QED  BY <3>2
  <2>2. CASE u = n + 1
    BY <2>1, <2>2
  <2>3. CASE u # n + 1
    <3>1. u \in 0..n /\ h[u] = f[u]
      BY <2>3
    <3>2. f[u] = IF u < least THEN a ELSE 1 + f[s[u]]
      BY <1>0, <3>1
    <3> HIDE DEF h
    <3> QED  BY <2>1, <3>1, <3>2
  <2> QED  BY <2>2, <2>3
<1>2. h = [u \in 0..(n + 1) |-> h[u]]
  OBVIOUS
<1> HIDE DEF h
<1>3. h = [u \in 0..(n + 1) |-> IF u < least THEN a ELSE 1 + h[s[u]]]
  BY <1>1, <1>2
<1> QED  BY <1>3 DEF Descends

LEMMA DescendsExist ==
    ASSUME NEW s, NEW least \in Nat \ {0}, NEW a \in Nat, Shrinks(s, least), NEW v \in Nat
    PROVE  \E f : Descends(f, v, s, least, a)
<1> DEFINE U == {n \in Nat : \E f : Descends(f, n, s, least, a)}
<1>1. 0 \in U
  <2>1. PICK f : f = [u \in 0..0 |-> a]
    OBVIOUS
  <2>2. f = [u \in 0..0 |-> IF u < least THEN a ELSE 1 + f[s[u]]]
    BY <2>1
  <2>3. Descends(f, 0, s, least, a)
    BY <2>2 DEF Descends
  <2> QED  BY <2>3
<1>2. \A n \in U : n + 1 \in U
  BY DescendsMore
<1>3. U \in SUBSET Nat
  OBVIOUS
<1> HIDE DEF U
<1>4. U = Nat
  BY <1>1, <1>2, <1>3, Inductive
<1> QED  BY <1>4 DEF U

LEMMA DescendsTyped ==
    ASSUME NEW s, NEW least \in Nat, NEW a \in Nat, Shrinks(s, least), NEW v \in Nat,
           NEW f, Descends(f, v, s, least, a)
    PROVE  \A u \in 0..v : f[u] \in Nat
<1> DEFINE U == {u \in Nat : u <= v /\ f[u] \notin Nat}
<1>1. ASSUME U # {} PROVE FALSE
  <2>1. PICK u \in U : \A n \in U : u <= n
    <3>1. U \in SUBSET Nat
      OBVIOUS
    <3> HIDE DEF U
    <3> QED  BY <1>1, <3>1, LeastNumber
  <2>2. u \in 0..v /\ f[u] \notin Nat
    OBVIOUS
  <2>3. f[u] = IF u < least THEN a ELSE 1 + f[s[u]]
    BY <2>2 DEF Descends
  <2>4. u >= least /\ s[u] \in 0..v /\ s[u] < u
    BY <2>2, <2>3 DEF Shrinks
  <2>5. f[s[u]] \in Nat
    BY <2>1, <2>2, <2>4
  <2> QED  BY <2>2, <2>3, <2>4, <2>5
<1> QED  BY <1>1

LEMMA BitLenTyped ==
    ASSUME NEW v \in Nat PROVE R!BitLen(v) \in Nat
<1> DEFINE f == CHOOSE len : len = [u \in 0..v |-> IF u = 0 THEN 0 ELSE 1 + len[u \div 2]]
<1>1. PICK s : s = [u \in Nat |-> u \div 2]
  OBVIOUS
<1>2. Shrinks(s, 1)
  BY <1>1, SMT DEF Shrinks
<1>3. PICK g : Descends(g, v, s, 1, 0)
  BY <1>2, DescendsExist
<1>4. g = [u \in 0..v |-> IF u = 0 THEN 0 ELSE 1 + g[u \div 2]]
  <2>1. g = [u \in 0..v |-> IF u < 1 THEN 0 ELSE 1 + g[s[u]]]
    BY <1>3 DEF Descends
  <2>2. \A u \in 0..v : s[u] = u \div 2 /\ (u < 1 <=> u = 0)
    BY <1>1
  <2> QED  BY <2>1, <2>2
<1>5. f = [u \in 0..v |-> IF u = 0 THEN 0 ELSE 1 + f[u \div 2]]
  BY <1>4
<1>6. R!BitLen(v) = f[v]
  BY DEF R!BitLen
<1> HIDE DEF f
<1>7. Descends(f, v, s, 1, 0)
  <2>1. \A u \in 0..v : s[u] = u \div 2 /\ (u < 1 <=> u = 0)
    BY <1>1
  <2>2. f = [u \in 0..v |-> IF u < 1 THEN 0 ELSE 1 + f[s[u]]]
    BY <1>5, <2>1
  <2> QED  BY <2>2 DEF Descends
<1>8. \A u \in 0..v : f[u] \in Nat
  BY <1>2, <1>7, DescendsTyped
<1> QED  BY <1>6, <1>8

\* f gives the widths of the numbers up to v; h what is left of v when its
\* last digits are dropped.
Widths(f, v) == f = [u \in 0..v |-> IF u < 16 THEN 1 ELSE 1 + f[u \div 16]]
Rests(h, v) ==
    /\ h \in [Nat -> Nat]
    /\ h[0] = v
    /\ \A k \in Nat : h[k + 1] = h[k] \div 16

LEMMA WidthsExist ==
    ASSUME NEW v \in Nat
    PROVE  \E f : Widths(f, v)
<1>1. PICK s : s = [u \in Nat |-> u \div 16]
  OBVIOUS
<1>2. Shrinks(s, 16)
  BY <1>1, SMT DEF Shrinks
<1>3. PICK f : Descends(f, v, s, 16, 1)
  BY <1>2, DescendsExist
<1>4. f = [u \in 0..v |-> IF u < 16 THEN 1 ELSE 1 + f[s[u]]]
  BY <1>3 DEF Descends
<1>5. \A u \in 0..v : s[u] = u \div 16
  BY <1>1
<1>6. f = [u \in 0..v |-> IF u < 16 THEN 1 ELSE 1 + f[u \div 16]]
  BY <1>4, <1>5
<1> QED  BY <1>6 DEF Widths

LEMMA RestsExist ==
    ASSUME NEW v \in Nat
    PROVE  \E h : Rests(h, v)
<1>1. PICK F : F = [k \in Nat |-> [u \in Nat |-> u \div 16]]
  OBVIOUS
<1>2. F \in StepsOf(Nat)
  BY <1>1 DEF StepsOf
<1>3. PICK h : Follows(h, Nat, v, F)
  BY <1>2, Recursion
<1>4. h \in [Nat -> Nat] /\ h[0] = v /\ \A k \in Nat : h[k + 1] = F[k][h[k]]
  BY <1>3 DEF Follows
<1>5. ASSUME NEW k \in Nat PROVE h[k + 1] = h[k] \div 16
  BY <1>1, <1>4
<1> QED  BY <1>4, <1>5 DEF Rests

\* Once nothing is left, nothing more is left.
LEMMA RestsEnd ==
    ASSUME NEW v \in Nat, NEW h, Rests(h, v), NEW w \in Nat, h[w] = 0,
           NEW k \in Nat, k >= w
    PROVE  h[k] = 0
<1> DEFINE U == {d \in Nat : h[w + d] = 0}
<1>1. 0 \in U
  OBVIOUS
<1>2. ASSUME NEW d \in U PROVE d + 1 \in U
  <2>1. h[(w + d) + 1] = h[w + d] \div 16
    BY DEF Rests
  <2>2. (w + d) + 1 = w + (d + 1) /\ h[w + d] = 0
    OBVIOUS
  <2>3. 0 \div 16 = 0
    OBVIOUS
  <2> QED  BY <2>1, <2>2, <2>3
<1>3. U \in SUBSET Nat
  OBVIOUS
<1> HIDE DEF U
<1>4. U = Nat
  BY <1>1, <1>2, <1>3, Inductive
<1>5. k - w \in U /\ w + (k - w) = k
  BY <1>4
<1> QED  BY <1>5 DEF U

\* After as many digits as a number has, nothing is left of it.
WidthEnough(f, u) ==
    /\ f[u] \in Nat \ {0}
    /\ \A h : Rests(h, u) => h[f[u]] = 0

LEMMA WidthsEnough ==
    ASSUME NEW v \in Nat, NEW f, Widths(f, v)
    PROVE  \A u \in 0..v : WidthEnough(f, u)
<1>0. f = [u \in 0..v |-> IF u < 16 THEN 1 ELSE 1 + f[u \div 16]]
  BY DEF Widths
<1>1. ASSUME NEW u \in 0..v, \A n \in 0..v : n < u => WidthEnough(f, n)
      PROVE  WidthEnough(f, u)
  <2>1. CASE u < 16
    <3>1. f[u] = 1
      BY <1>0, <2>1
    <3>2. ASSUME NEW h, Rests(h, u) PROVE h[1] = 0
      <4>1. h[0 + 1] = h[0] \div 16 /\ h[0] = u
        BY <3>2 DEF Rests
      <4>2. u \div 16 = 0
        BY <2>1
      <4> QED  BY <4>1, <4>2
    <3> QED  BY <3>1, <3>2 DEF WidthEnough
  <2>2. CASE ~(u < 16)
    <3>1. PICK n \in 0..v : n = u \div 16 /\ n < u
      BY <2>2
    <3>2. f[u] = 1 + f[n]
      BY <1>0, <2>2, <3>1
    <3>3. f[n] \in Nat \ {0} /\ \A h : Rests(h, n) => h[f[n]] = 0
      BY <1>1, <3>1 DEF WidthEnough
    <3>4. ASSUME NEW h, Rests(h, u) PROVE h[1 + f[n]] = 0
      <4>1. h \in [Nat -> Nat] /\ h[0] = u /\ \A k \in Nat : h[k + 1] = h[k] \div 16
        BY <3>4 DEF Rests
      <4>2. PICK g : g = [k \in Nat |-> h[k + 1]]
        OBVIOUS
      <4>3. Rests(g, n)
        <5>1. g \in [Nat -> Nat]
          BY <4>1, <4>2
        <5>2. g[0] = n
          <6>1. h[0 + 1] = h[0] \div 16
            BY <4>1
          <6> QED  BY <3>1, <4>1, <4>2, <6>1
        <5>3. ASSUME NEW k \in Nat PROVE g[k + 1] = g[k] \div 16
          <6>1. k + 1 \in Nat
            OBVIOUS
          <6> QED  BY <4>1, <4>2, <6>1
        <5> QED  BY <5>1, <5>2, <5>3 DEF Rests
      <4>4. g[f[n]] = 0
        BY <3>3, <4>3
      <4>5. 1 + f[n] = f[n] + 1
        BY <3>3
      <4> QED  BY <3>3, <4>2, <4>4, <4>5
    <3> QED  BY <3>2, <3>3, <3>4 DEF WidthEnough
  <2> QED  BY <2>1, <2>2
<1> DEFINE U == {u \in Nat : u <= v /\ ~WidthEnough(f, u)}
<1>2. ASSUME U # {} PROVE FALSE
  <2>1. PICK u \in U : \A n \in U : u <= n
    <3>1. U \in SUBSET Nat
      OBVIOUS
    <3> HIDE DEF U
    <3> QED  BY <1>2, <3>1, LeastNumber
  <2>2. u \in 0..v /\ ~WidthEnough(f, u)
    OBVIOUS
  <2>3. ASSUME NEW n \in 0..v, n < u PROVE WidthEnough(f, n)
    <3>1. n \notin U
      BY <2>1, <2>2, <2>3
    <3> QED  BY <3>1
  <2> QED  BY <1>1, <2>2, <2>3
<1>3. ASSUME NEW u \in 0..v PROVE WidthEnough(f, u)
  <2>1. u \notin U
    BY <1>2
  <2> QED  BY <2>1
<1> QED  BY <1>3

LEMMA TextWidthEnough ==
    ASSUME NEW v \in Nat
    PROVE  /\ R!TextWidth(v) \in Nat \ {0}
           /\ \A h : Rests(h, v) => h[R!TextWidth(v)] = 0
<1> DEFINE f == CHOOSE len : len = [u \in 0..v |-> IF u < 16 THEN 1 ELSE 1 + len[u \div 16]]
<1>1. f = [u \in 0..v |-> IF u < 16 THEN 1 ELSE 1 + f[u \div 16]]
  <2>1. \E len : len = [u \in 0..v |-> IF u < 16 THEN 1 ELSE 1 + len[u \div 16]]
    BY WidthsExist DEF Widths
  <2> QED  BY <2>1
<1>2. R!TextWidth(v) = f[v]
  BY DEF R!TextWidth
<1> HIDE DEF f
<1>3. Widths(f, v)
  BY <1>1 DEF Widths
<1>4. WidthEnough(f, v)
  <2>1. v \in 0..v
    OBVIOUS
  <2> QED  BY <1>3, <2>1, WidthsEnough
<1> QED  BY <1>2, <1>4 DEF WidthEnough

LEMMA HexDigitsAre ==
    ASSUME NEW v \in Nat, NEW w \in Nat, NEW h, Rests(h, v)
    PROVE  R!HexDigits(v, w) = [d \in 1..w |-> h[w - d] % 16]
<1>0. h \in [Nat -> Nat] /\ h[0] = v /\ \A k \in Nat : h[k + 1] = h[k] \div 16
  BY DEF Rests
<1> DEFINE f == CHOOSE rest : rest = [k \in 0..w |-> IF k = 0 THEN v ELSE rest[k - 1] \div 16]
           g == [k \in 0..w |-> h[k]]
<1>1. g = [k \in 0..w |-> IF k = 0 THEN v ELSE g[k - 1] \div 16]
  <2>1. ASSUME NEW k \in 0..w PROVE g[k] = IF k = 0 THEN v ELSE g[k - 1] \div 16
    <3>1. CASE k = 0
      BY <1>0, <3>1
    <3>2. CASE k # 0
      <4>1. k - 1 \in Nat /\ (k - 1) + 1 = k /\ k - 1 \in 0..w
        BY <3>2
      <4>2. h[k] = h[k - 1] \div 16
        BY <1>0, <4>1
      <4> QED  BY <3>2, <4>1, <4>2
    <3> QED  BY <3>1, <3>2
  <2>2. g = [k \in 0..w |-> g[k]]
    OBVIOUS
  <2> HIDE DEF g
  <2> QED  BY <2>1, <2>2
<1>2. f = [k \in 0..w |-> IF k = 0 THEN v ELSE f[k - 1] \div 16]
  <2> HIDE DEF g
  <2> QED  BY <1>1
<1>3. R!HexDigits(v, w) = [d \in 1..w |-> f[w - d] % 16]
  BY DEF R!HexDigits
<1> HIDE DEF f
<1>4. Parallel(f, h, w)
  <2>1. f[0] = h[0]
    BY <1>0, <1>2
  <2>2. ASSUME NEW k \in 0..w, k # 0, f[k - 1] = h[k - 1] PROVE f[k] = h[k]
    <3>1. k - 1 \in Nat /\ (k - 1) + 1 = k
      BY <2>2
    <3>2. h[k] = h[k - 1] \div 16
      BY <1>0, <3>1
    <3>3. f[k] = f[k - 1] \div 16
      BY <1>2, <2>2
    <3> QED  BY <2>2, <3>2, <3>3
  <2> QED  BY <2>1, <2>2 DEF Parallel
<1>5. \A k \in 0..w : f[k] = h[k]
  BY <1>4, GoAlike
<1>6. \A d \in 1..w : w - d \in 0..w
  OBVIOUS
<1>7. \A d \in 1..w : f[w - d] % 16 = h[w - d] % 16
  BY <1>5, <1>6
<1> QED  BY <1>3, <1>7

\* What paddedHex writes, ParseHexInt reads.
LEMMA HexReadsBack ==
    ASSUME NEW v \in Nat, NEW w \in Nat, w >= R!TextWidth(v)
    PROVE  /\ Len(R!HexDigits(v, w)) = w
           /\ w > 0
           /\ R!ParseHexInt(R!HexDigits(v, w)) = v
<1>1. PICK h : Rests(h, v)
  BY RestsExist
<1>0. h \in [Nat -> Nat] /\ h[0] = v /\ \A k \in Nat : h[k + 1] = h[k] \div 16
  BY <1>1 DEF Rests
<1>2. R!TextWidth(v) \in Nat \ {0} /\ h[R!TextWidth(v)] = 0
  BY <1>1, TextWidthEnough
<1>3. h[w] = 0 /\ w > 0
  BY <1>1, <1>2, RestsEnd
<1>4. PICK s : s = R!HexDigits(v, w)
  OBVIOUS
<1>5. s = [d \in 1..w |-> h[w - d] % 16]
  BY <1>1, <1>4, HexDigitsAre
<1>6. s \in Seq(Nat) /\ Len(s) = w
  <2>1. \A d \in 1..w : h[w - d] % 16 \in Nat
    BY <1>0
  <2> QED  BY <1>5, <2>1
<1> DEFINE f == CHOOSE val : val = [k \in 0..Len(s) |->
                    IF k = 0 THEN 0 ELSE 16 * val[k - 1] + s[k]]
           g == [k \in 0..w |-> h[w - k]]
<1>7. g = [k \in 0..w |-> IF k = 0 THEN 0 ELSE 16 * g[k - 1] + s[k]]
  <2>1. ASSUME NEW k \in 0..w PROVE g[k] = IF k = 0 THEN 0 ELSE 16 * g[k - 1] + s[k]
    <3>1. CASE k = 0
      BY <1>3, <3>1
    <3>2. CASE k # 0
      <4>1. PICK j \in Nat : j = w - k /\ w - (k - 1) = j + 1
        BY <3>2
      <4>2. h[j + 1] = h[j] \div 16 /\ h[j] \in Nat
        BY <1>0
      <4>3. s[k] = h[j] % 16
        BY <1>5, <3>2, <4>1
      <4>4. g[k] = h[j] /\ g[k - 1] = h[j + 1]
        BY <3>2, <4>1
      <4>5. PICK y \in Nat : y = h[j]
        BY <4>2
      <4>6. y = 16 * (y \div 16) + (y % 16)
        BY SMT
      <4> HIDE DEF g
      <4> QED  BY <3>2, <4>2, <4>3, <4>4, <4>5, <4>6
    <3> QED  BY <3>1, <3>2
  <2>2. g = [k \in 0..w |-> g[k]]
    OBVIOUS
  <2> HIDE DEF g
  <2> QED  BY <2>1, <2>2
<1>8. f = [k \in 0..w |-> IF k = 0 THEN 0 ELSE 16 * f[k - 1] + s[k]]
  <2>1. f = [k \in 0..Len(s) |-> IF k = 0 THEN 0 ELSE 16 * f[k - 1] + s[k]]
    <3> HIDE DEF g
    <3> QED  BY <1>6, <1>7
  <2> HIDE DEF f
  <2> QED  BY <1>6, <2>1
<1>9. R!ParseHexInt(s) = f[w]
  <2>1. R!ParseHexInt(s) = f[Len(s)]
    BY DEF R!ParseHexInt
  <2> HIDE DEF f
  <2> QED  BY <1>6, <2>1
<1> HIDE DEF f
<1>10. Parallel(f, g, w)
  <2>1. f[0] = g[0]
    <3> HIDE DEF g
    <3> QED  BY <1>7, <1>8
  <2>2. ASSUME NEW k \in 0..w, k # 0, f[k - 1] = g[k - 1] PROVE f[k] = g[k]
    <3> HIDE DEF g
    <3> QED  BY <1>7, <1>8, <2>2
  <2> HIDE DEF g
  <2> QED  BY <2>1, <2>2 DEF Parallel
<1>11. f[w] = g[w]
  <2> HIDE DEF g
  <2>1. w \in 0..w
    OBVIOUS
  <2> QED  BY <1>10, <2>1, GoAlike
<1>12. g[w] = v
  BY <1>0
<1> QED  BY <1>3, <1>4, <1>6, <1>9, <1>11, <1>12

-----------------------------------------------------------------------------
(* Puzzles through the trapdoor *)

LEMMA MaxOfTwo ==
    ASSUME NEW a \in Int, NEW b \in Int
    PROVE  R!Max({a, b}) \in Int /\ R!Max({a, b}) >= b
<1>1. \E x \in {a, b} : \A y \in {a, b} : x >= y
  <2>1. CASE a >= b
    BY <2>1
  <2>2. CASE ~(a >= b)
    BY <2>2
  <2> QED  BY <2>1, <2>2
<1>2. R!Max({a, b}) \in {a, b} /\ \A y \in {a, b} : R!Max({a, b}) >= y
  BY <1>1 DEF R!Max
<1> QED  BY <1>2

LEMMA PaddedReadsBack ==
    ASSUME NEW v \in Nat, NEW bytes \in Int
    PROVE  R!ParseHexInt(R!PaddedHex(v, bytes)) = v
<1>1. PICK b \in Nat : b = R!TextWidth(v)
  BY TextWidthEnough
<1>2. PICK a \in Int : a = 2 * bytes
  OBVIOUS
<1>3. PICK w \in Nat : w = R!Max({a, b}) /\ w >= b
  <2>1. b \in Int
    OBVIOUS
  <2>2. R!Max({a, b}) \in Int /\ R!Max({a, b}) >= b
    BY <2>1, MaxOfTwo
  <2> QED  BY <2>2
<1>4. R!PaddedHex(v, bytes) = R!HexDigits(v, w)
  BY <1>1, <1>2, <1>3 DEF R!PaddedHex
<1> QED  BY <1>1, <1>3, <1>4, HexReadsBack

\* One answer to a puzzle is accepted, the one found by squaring.
Answered(z) ==
    LET n      == R!ParseHexInt(z.n)
        answer == R!SolveRSW(n, R!ParseHexInt(z.x), z.t)
    IN  \A v \in 0..n : \A w \in R!TextWidth(v)..(Len(z.y) + 1) :
            R!VerifyRSWHex(z.y, R!HexDigits(v, w)) <=> v = answer

\* A minter made from a valid keypair.
GoodMinter(m) ==
    /\ m.p \in Nat /\ m.q \in Nat /\ m.t \in Nat /\ m.bytes \in Int
    /\ R!IsPrime(m.p) /\ R!IsPrime(m.q) /\ m.p # m.q /\ m.n = m.p * m.q
    /\ m.gp \in 0..(m.p - 1) /\ m.gq \in 0..(m.q - 1)
    /\ m.gp # 0 \/ R!Exp(2, m.t, m.p - 1) # 0
    /\ m.gq # 0 \/ R!Exp(2, m.t, m.q - 1) # 0
    /\ m.hp = R!Exp(m.gp, R!Exp(2, m.t, m.p - 1), m.p)
    /\ m.hq = R!Exp(m.gq, R!Exp(2, m.t, m.q - 1), m.q)
    /\ m.qInvP = R!ModInverse(m.q % m.p, m.p)

\* Modulo each prime the y of the puzzle is what squaring x finds, and the
\* two remainders determine it.
LEMMA TrapdoorOfModulus ==
    ASSUME NEW p \in Nat, NEW q \in Nat, R!IsPrime(p), R!IsPrime(q), p # q,
           NEW t \in Nat, NEW x \in 0..(p * q - 1), NEW y \in 0..(p * q - 1),
           NEW g, Doubles(g),
           y % p = R!Exp(x % p, g[t], p), y % q = R!Exp(x % q, g[t], q)
    PROVE  R!SolveRSW(p * q, x, t) = y
<1>1. p \in Nat \ {0} /\ q \in Nat \ {0}
  BY DEF R!IsPrime
<1>2. PICK n \in Nat \ {0} : n = p * q /\ n = q * p
  BY <1>1
<1>3. PICK e \in Nat : e = g[t]
  BY DEF Doubles
<1>4. x \in Nat /\ x \in Int
  BY <1>2
<1>5. R!SolveRSW(n, x, t) = R!Exp(x, e, n)
  BY <1>3, <1>4, Squarings
<1>6. PICK s \in 0..(n - 1) : s = R!Exp(x, e, n)
  BY <1>4, ExpStep
<1>7. s % p = R!Exp(x, e, p) /\ s % q = R!Exp(x, e, q)
  <2>0. Product(n, p, q) /\ Product(n, q, p)
    BY <1>1, <1>2 DEF Product
  <2>1. R!Exp(x, e, n) % p = R!Exp(x, e, p)
    BY <1>4, <2>0, ExpOfMultiple
  <2>2. R!Exp(x, e, n) % q = R!Exp(x, e, q)
    BY <1>4, <2>0, ExpOfMultiple
  <2> QED  BY <1>2, <1>6, <2>1, <2>2, Zenon
<1>8. R!Exp(x % p, e, p) = R!Exp(x, e, p) /\ R!Exp(x % q, e, q) = R!Exp(x, e, q)
  BY <1>1, <1>4, ExpReduced
<1>9. s \in 0..(p * q - 1) /\ s % p = y % p /\ s % q = y % q
  BY <1>2, <1>3, <1>7, <1>8
<1>10. s = y
  BY <1>9, RemaindersDetermine
<1> QED  BY <1>2, <1>5, <1>6, <1>10

LEMMA MintedAnswered ==
    ASSUME NEW m, GoodMinter(m), NEW r \in Nat
    PROVE  Answered(R!Minted(m, r))
<1>1. PICK p \in Nat, q \in Nat, t \in Nat, bytes \in Int, n \in Nat :
        /\ p = m.p /\ q = m.q /\ t = m.t /\ bytes = m.bytes /\ n = m.n
        /\ R!IsPrime(p) /\ R!IsPrime(q) /\ p # q /\ n = p * q
  BY DEF GoodMinter
<1>2. p \in Nat \ {0} /\ q \in Nat \ {0} /\ p - 1 \in Nat \ {0} /\ q - 1 \in Nat \ {0}
  BY <1>1 DEF R!IsPrime
<1>3. PICK gp \in 0..(p - 1), gq \in 0..(q - 1) : gp = m.gp /\ gq = m.gq
  BY <1>1 DEF GoodMinter
<1>4. PICK rp \in Nat, rq \in Nat : rp = r % (p - 1) /\ rq = r % (q - 1)
  BY <1>2
<1>5. PICK g : Doubles(g)
  BY DoublesExist
<1>6. PICK hp, hq : hp = m.hp /\ hq = m.hq
  OBVIOUS
<1>7. /\ gp # 0 \/ R!Exp(2, t, p - 1) # 0
      /\ gq # 0 \/ R!Exp(2, t, q - 1) # 0
      /\ hp = R!Exp(gp, R!Exp(2, t, p - 1), p)
      /\ hq = R!Exp(gq, R!Exp(2, t, q - 1), q)
      /\ m.qInvP = R!ModInverse(q % p, p)
  BY <1>1, <1>3, <1>6, Zenon DEF GoodMinter
<1>8. hp \in 0..(p - 1) /\ hq \in 0..(q - 1)
  <2>1. gp \in Int /\ gq \in Int
    OBVIOUS
  <2>2. PICK ep \in Nat, eq \in Nat : ep = R!Exp(2, t, p - 1) /\ eq = R!Exp(2, t, q - 1)
    <3>1. PICK two \in Int : two = 2
      OBVIOUS
    <3>2. PICK pm \in Nat \ {0}, qm \in Nat \ {0} : pm = p - 1 /\ qm = q - 1
      BY <1>2
    <3>3. R!Exp(two, t, pm) \in 0..(pm - 1) /\ R!Exp(two, t, qm) \in 0..(qm - 1)
      BY ExpStep
    <3> QED  BY <3>1, <3>2, <3>3
  <2> QED  BY <1>2, <1>7, <2>1, <2>2, ExpStep
<1>9. PICK xp \in 0..(p - 1), xq \in 0..(q - 1), yp \in 0..(p - 1), yq \in 0..(q - 1) :
        /\ xp = R!Exp(gp, rp, p) /\ xq = R!Exp(gq, rq, q)
        /\ yp = R!Exp(hp, rp, p) /\ yq = R!Exp(hq, rq, q)
  <2>1. gp \in Int /\ gq \in Int /\ hp \in Int /\ hq \in Int
    BY <1>8
  <2> QED  BY <1>2, <2>1, ExpStep
<1>10. yp = R!Exp(xp, g[t], p) /\ yq = R!Exp(xq, g[t], q)
  <2>1. R!Exp(R!Exp(gp, rp, p), g[t], p) = R!Exp(R!Exp(gp, R!Exp(2, t, p - 1), p), rp, p)
    BY <1>1, <1>5, <1>7, TrapdoorOfPrime
  <2>2. R!Exp(R!Exp(gq, rq, q), g[t], q) = R!Exp(R!Exp(gq, R!Exp(2, t, q - 1), q), rq, q)
    BY <1>1, <1>5, <1>7, TrapdoorOfPrime
  <2> QED  BY <1>7, <1>9, <2>1, <2>2, Zenon
<1>11. PICK x \in 0..(p * q - 1), y \in 0..(p * q - 1) :
        /\ x = R!Crt(m, xp, xq) /\ y = R!Crt(m, yp, yq)
        /\ x % p = xp /\ x % q = xq /\ y % p = yp /\ y % q = yq
  <2>1. m.p = p /\ m.q = q
    BY <1>1
  <2>2. /\ R!Crt(m, xp, xq) \in 0..(p * q - 1)
        /\ R!Crt(m, xp, xq) % p = xp /\ R!Crt(m, xp, xq) % q = xq
    BY <1>1, <1>7, <2>1, CrtRemainders
  <2>3. /\ R!Crt(m, yp, yq) \in 0..(p * q - 1)
        /\ R!Crt(m, yp, yq) % p = yp /\ R!Crt(m, yp, yq) % q = yq
    BY <1>1, <1>7, <2>1, CrtRemainders
  <2> QED  BY <2>2, <2>3
<1>12. R!SolveRSW(n, x, t) = y
  <2>1. y % p = R!Exp(x % p, g[t], p) /\ y % q = R!Exp(x % q, g[t], q)
    BY <1>10, <1>11
  <2>2. R!SolveRSW(p * q, x, t) = y
    BY <1>1, <1>5, <2>1, TrapdoorOfModulus
  <2> QED  BY <1>1, <2>2
<1>13. PICK z : z = R!Minted(m, r)
  OBVIOUS
<1>14. /\ z.n = R!PaddedHex(n, bytes) /\ z.x = R!PaddedHex(x, bytes)
       /\ z.y = R!PaddedHex(y, bytes) /\ z.t = t
  BY <1>1, <1>3, <1>4, <1>6, <1>9, <1>11, <1>13, Zenon DEF R!Minted, R!Order
<1>15. /\ R!ParseHexInt(z.n) = n /\ R!ParseHexInt(z.x) = x /\ R!ParseHexInt(z.y) = y
  <2>1. x \in Nat /\ y \in Nat
    BY <1>1
  <2> QED  BY <1>14, <2>1, PaddedReadsBack
<1>16. ASSUME NEW v \in 0..n, NEW w \in R!TextWidth(v)..(Len(z.y) + 1)
       PROVE  R!VerifyRSWHex(z.y, R!HexDigits(v, w)) <=> v = y
  <2>1. v \in Nat /\ w \in Nat /\ w >= R!TextWidth(v)
    <3>1. v \in Nat
      OBVIOUS
    <3> QED  BY <3>1, TextWidthEnough
  <2>2. /\ Len(R!HexDigits(v, w)) > 0
        /\ R!ParseHexInt(R!HexDigits(v, w)) = v
    BY <2>1, HexReadsBack
  <2> QED  BY <1>15, <2>2 DEF R!VerifyRSWHex
<1> QED  BY <1>12, <1>13, <1>14, <1>15, <1>16 DEF Answered

-----------------------------------------------------------------------------
(* The trapdoor invariant *)

\* The options hold a keypair and a count that New has checked.
OptionsChecked ==
    key # <<>> =>
        \E raw \in Serialized :
            /\ key[1] = R!ParseRSWKeypair(raw)
            /\ R!Validate(R!ParseRSWKeypair(raw))
            /\ count \in Counts
            /\ count >= 1

\* Every minter in use was made from such options, and every puzzle by such
\* a minter.
TrapdoorInv ==
    /\ DOMAIN using = Workers
    /\ OptionsChecked
    /\ minters # <<>> => GoodMinter(minters[1])
    /\ \A w \in Workers : using[w] # <<>> => GoodMinter(using[w][1])
    /\ \A z \in puzzles : Answered(z)

\* A key and a count that give a good minter, with any of the bases.
GoodKey(k, t) ==
    /\ k.p \in Nat /\ k.q \in Nat /\ k.bits \in Nat /\ t \in Nat
    /\ R!IsPrime(k.p) /\ R!IsPrime(k.q) /\ k.p # k.q /\ k.n = k.p * k.q
    /\ \A base \in Bases :
         LET g == R!RandomIntRange(base, k.n)
         IN  /\ g % k.p # 0 \/ R!Exp(2, t, k.p - 1) # 0
             /\ g % k.q # 0 \/ R!Exp(2, t, k.q - 1) # 0

LEMMA CheckedKey ==
    ASSUME NEW raw \in Serialized, R!Validate(R!ParseRSWKeypair(raw)),
           NEW t \in Counts, t >= 1, NEW k, k = R!ParseRSWKeypair(raw)
    PROVE  GoodKey(k, t)
<1>1. /\ raw \in [n : Nat, p : Nat, q : Nat, bits : Nat]
      /\ t \in Nat
      /\ \A base \in Bases : \A p \in {raw.p, raw.q} :
           \/ R!RandomIntRange(base, raw.n) % p # 0
           \/ R!Exp(2, t, R!Order(p)) # 0
  BY DerivedAssumption, Zenon DEF R!KeysFit
<1>2. PICK l \in Nat : l = R!BitLen(raw.n)
  BY <1>1, BitLenTyped
<1>3. k = [raw EXCEPT !.bits = IF raw.bits = 0 THEN l ELSE raw.bits]
  BY <1>2 DEF R!ParseRSWKeypair
<1>4. k.n = raw.n /\ k.p = raw.p /\ k.q = raw.q /\ k.bits \in Nat
  BY <1>1, <1>3
<1>5. R!IsPrime(k.p) /\ R!IsPrime(k.q) /\ k.p # k.q /\ k.p * k.q = k.n
  BY Zenon DEF R!Validate
<1>6. ASSUME NEW base \in Bases
      PROVE  LET g == R!RandomIntRange(base, k.n)
             IN  /\ g % k.p # 0 \/ R!Exp(2, t, k.p - 1) # 0
                 /\ g % k.q # 0 \/ R!Exp(2, t, k.q - 1) # 0
  BY <1>1, <1>4, Zenon DEF R!Order
<1> QED  BY <1>1, <1>4, <1>5, <1>6 DEF GoodKey

\* NewRSWMinter makes a good minter of a valid keypair.
LEMMA MinterMade ==
    ASSUME NEW k, NEW t, NEW raw \in Bases, GoodKey(k, t)
    PROVE  GoodMinter(R!NewRSWMinter(k, t, raw))
<1>0. /\ k.p \in Nat /\ k.q \in Nat /\ k.bits \in Nat /\ t \in Nat
      /\ R!IsPrime(k.p) /\ R!IsPrime(k.q) /\ k.p # k.q /\ k.n = k.p * k.q
  BY DEF GoodKey
<1>1. PICK p \in Nat, q \in Nat, n \in Nat : p = k.p /\ q = k.q /\ n = k.n
  BY <1>0
<1>2. p > 1 /\ q > 1 /\ p # q /\ n = p * q
  BY <1>0, <1>1 DEF R!IsPrime
<1>3. n > 3
  <2>1. CASE p >= 3
    <3>1. p * q >= 3 * q
      BY <1>2, <2>1
    <3> QED  BY <1>2, <3>1
  <2>2. CASE q >= 3
    <3>1. p * q >= p * 3
      BY <1>2, <2>2
    <3> QED  BY <1>2, <3>1
  <2> QED  BY <1>2, <2>1, <2>2
<1>4. PICK g \in Int : g = R!RandomIntRange(raw, n)
  <2>1. raw \in Nat
    BY DerivedAssumption DEF R!KeysFit
  <2>2. raw % (n - 3) \in Int
    BY <1>3, <2>1
  <2> QED  BY <2>2 DEF R!RandomIntRange
<1>5. g % p \in 0..(p - 1) /\ g % q \in 0..(q - 1)
  BY <1>2
<1>6. PICK m : m = R!NewRSWMinter(k, t, raw)
  OBVIOUS
<1>7. /\ m.n = k.n /\ m.p = k.p /\ m.q = k.q /\ m.t = t
      /\ m.bytes = (k.bits + 7) \div 8
      /\ m.gp = g % p /\ m.gq = g % q
      /\ m.hp = R!Exp(g % p, R!Exp(2, t, k.p - 1), p)
      /\ m.hq = R!Exp(g % q, R!Exp(2, t, k.q - 1), q)
      /\ m.qInvP = R!ModInverse(q % p, p)
  BY <1>1, <1>4, <1>6 DEF R!NewRSWMinter, R!Order
<1>8. (k.bits + 7) \div 8 \in Int
  BY <1>0
<1>9. /\ g % p # 0 \/ R!Exp(2, t, p - 1) # 0
      /\ g % q # 0 \/ R!Exp(2, t, q - 1) # 0
  BY <1>1, <1>4, Zenon DEF GoodKey
<1>10. GoodMinter(m)
  BY <1>0, <1>1, <1>5, <1>7, <1>8, <1>9 DEF GoodMinter
<1> QED  BY <1>6, <1>10

LEMMA TrapdoorStep ==
    ASSUME TrapdoorInv, [R!Next]_(R!vars) PROVE TrapdoorInv'
<1> USE DEF TrapdoorInv
<1>1. ASSUME NEW raw \in Serialized, NEW t \in Counts, R!New(raw, t) PROVE TrapdoorInv'
  <2>1. /\ R!Validate(R!ParseRSWKeypair(raw)) /\ t >= 1
        /\ key' = <<R!ParseRSWKeypair(raw)>> /\ count' = t
        /\ minters' = <<>> /\ using' = using /\ puzzles' = puzzles
    BY <1>1, Zenon DEF R!New
  <2>2. key'[1] = R!ParseRSWKeypair(raw) /\ count' \in Counts /\ count' >= 1
    BY <2>1
  <2>3. OptionsChecked'
    BY <2>1, <2>2 DEF OptionsChecked
  <2> QED  BY <2>1, <2>3
<1>2. ASSUME NEW w \in Workers, R!GetMinter(w) PROVE TrapdoorInv'
  <2>1. key # <<>> /\ key' = key /\ count' = count /\ puzzles' = puzzles
    BY <1>2 DEF R!GetMinter
  <2>2. /\ using' = [using EXCEPT ![w] = minters']
        /\ minters' # <<>> => GoodMinter(minters'[1])
    <3>1. CASE minters # <<>>
      BY <1>2, <3>1 DEF R!GetMinter
    <3>2. CASE minters = <<>>
      <4>1. PICK raw \in Bases : /\ minters' = <<R!NewRSWMinter(key[1], count, raw)>>
                                 /\ using' = [using EXCEPT ![w] = minters']
        BY <1>2, <3>2 DEF R!GetMinter
      <4>2. PICK k, m : k = key[1] /\ m = R!NewRSWMinter(k, count, raw)
        OBVIOUS
      <4>3. PICK s \in Serialized : /\ k = R!ParseRSWKeypair(s)
                                    /\ R!Validate(R!ParseRSWKeypair(s))
                                    /\ count \in Counts /\ count >= 1
        BY <2>1, <4>2, Zenon DEF OptionsChecked
      <4>4. GoodMinter(m)
        BY <4>2, <4>3, CheckedKey, MinterMade
      <4> QED  BY <4>1, <4>2, <4>4
    <3> QED  BY <3>1, <3>2
  <2>3. OptionsChecked'
    BY <2>1 DEF OptionsChecked
  <2> QED  BY <2>1, <2>2, <2>3
<1>3. ASSUME NEW w \in Workers, R!Mint(w) PROVE TrapdoorInv'
  <2>1. PICK r \in Scalars : puzzles' = puzzles \cup {R!Minted(using[w][1], r)}
    BY <1>3 DEF R!Mint
  <2>2. /\ using[w] # <<>> /\ using' = [using EXCEPT ![w] = <<>>]
        /\ key' = key /\ count' = count /\ minters' = minters
    BY <1>3 DEF R!Mint
  <2>3. PICK m : m = using[w][1]
    OBVIOUS
  <2>4. GoodMinter(m) /\ r \in Nat
    BY <2>2, <2>3, DerivedAssumption DEF R!KeysFit
  <2>5. Answered(R!Minted(m, r))
    BY <2>4, MintedAnswered
  <2>6. \A z \in puzzles' : Answered(z)
    BY <2>1, <2>3, <2>5
  <2>7. OptionsChecked'
    BY <2>2 DEF OptionsChecked
  <2> QED  BY <2>2, <2>6, <2>7
<1>4. CASE R!Leave
  BY <1>4 DEF R!Leave, OptionsChecked
<1>5. CASE R!Reset
  BY <1>5 DEF R!Reset, OptionsChecked
<1>6. CASE UNCHANGED R!vars
  BY <1>6 DEF R!vars, OptionsChecked
<1> QED  BY <1>1, <1>2, <1>3, <1>4, <1>5, <1>6 DEF R!Next

\* Of every puzzle outstanding exactly the answer that SolveRSW finds is
\* accepted by VerifyRSWHex, for every keypair that RSWKeypair.Validate lets
\* pass, every count of squarings and all random bytes of Mint, but for bases
\* that a Fermat prime divides (KeysFit).
THEOREM TrapdoorsOpen == Spec => []TrapdoorAgrees
<1>1. Init => TrapdoorInv
  BY DEF Init, R!Init, TrapdoorInv, OptionsChecked
<1>2. TrapdoorInv /\ [Next]_derivedVars => TrapdoorInv'
  BY TrapdoorStep DEF Next, derivedVars, rswVars, R!vars
<1>3. TrapdoorInv => TrapdoorAgrees
  BY DEF TrapdoorInv, Answered, TrapdoorAgrees, R!TrapdoorAgrees
<1> QED  BY <1>1, <1>2, <1>3, PTL DEF Spec
=============================================================================
