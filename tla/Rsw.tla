-------------------------------- MODULE Rsw --------------------------------
(***************************************************************************)
(* The repeated-squaring time-lock puzzles of rsw.go and the minter cache  *)
(* of cap.go: goroutines fetch a minter under the mutex, mint with it      *)
(* after the mutex is released, and Reset empties the cache at any time.   *)
(*                                                                         *)
(* The arithmetic is the code's, on small numbers: MinBits replaces 1024   *)
(* and the random bytes are drawn from small sets.                         *)
(***************************************************************************)
EXTENDS Integers, Sequences, FiniteSets, FiniteSetsExt

CONSTANTS
    Workers,        \* goroutines in challengeV2
    Serialized,     \* keypairs as JSON: [n, p, q, bits]
    Counts,         \* values of RSWIterations
    Bases,          \* random bytes for the generator g, as integers
    Scalars,        \* random bytes for the scalar r, as integers
    MinBits,        \* least size of a modulus
    MaxPuzzles,     \* bound on the puzzles outstanding
    MaxStarts,      \* bound on the calls of New
    MaxResets       \* bound on the calls of Reset

IsPrime(n) == n > 1 /\ \A d \in 2..(n - 1) : n % d # 0

BitLen(n) ==
    LET len[u \in 0..n] == IF u = 0 THEN 0 ELSE 1 + len[u \div 2]
    IN  len[n]

\* big.Int.Exp and ModInverse.
Exp(b, e, m) ==
    LET pow[k \in 0..e] == IF k = 0 THEN 1 % m ELSE (pow[k - 1] * b) % m
    IN  pow[e]
ModInverse(a, m) == CHOOSE c \in 0..(m - 1) : (a * c) % m = 1

\* A bug: exponents are reduced by the primes themselves.
OrderOfPrime(p) == p

\* Exponents are reduced by the order of the group (pm1, qm1).
Order(p) == p - 1

VARIABLES
    key,        \* Options.RSWKeypair, or <<>> before the first New
    count,      \* Options.RSWIterations
    minters,    \* the cached minter, or <<>>
    using,      \* the minter each goroutine has fetched, or <<>>
    puzzles,    \* format-2 entries outstanding, with the y of their token
    starts, resets

vars == <<key, count, minters, using, puzzles, starts, resets>>

Init ==
    /\ key = <<>>
    /\ count = 0
    /\ minters = <<>>
    /\ using = [w \in Workers |-> <<>>]
    /\ puzzles = {}
    /\ starts = 0
    /\ resets = 0

-----------------------------------------------------------------------------
(* Keypairs *)

Validate(k) ==
    /\ k.bits >= MinBits
    /\ BitLen(k.n) = k.bits
    /\ k.p # k.q
    /\ IsPrime(k.p)
    /\ IsPrime(k.q)
    /\ k.p * k.q = k.n

\* UnmarshalJSON: a missing size is that of the modulus.
ParseRSWKeypair(raw) ==
    [raw EXCEPT !.bits = IF @ = 0 THEN BitLen(raw.n) ELSE @]

\* A bug: the cache of minters outlives the Cap.
NewSharedCache(raw, t) ==
    /\ starts < MaxStarts
    /\ using = [w \in Workers |-> <<>>]
    /\ Validate(ParseRSWKeypair(raw))
    /\ key' = <<ParseRSWKeypair(raw)>>
    /\ count' = t
    /\ starts' = starts + 1
    /\ UNCHANGED <<minters, using, puzzles, resets>>

\* New, for these options; the Cap before it has finished its calls, and
\* the challenges it issued stay with their clients.
New(raw, t) ==
    /\ starts < MaxStarts
    /\ using = [w \in Workers |-> <<>>]
    /\ Validate(ParseRSWKeypair(raw))
    /\ t >= 1
    /\ key' = <<ParseRSWKeypair(raw)>>
    /\ count' = t
    /\ minters' = <<>>
    /\ starts' = starts + 1
    /\ UNCHANGED <<using, puzzles, resets>>

-----------------------------------------------------------------------------
(* Minting *)

Crt(m, ap, aq) ==
    aq + m.q * ((((ap - aq) % m.p) * m.qInvP) % m.p)

RandomIntRange(raw, modulus) == (raw % (modulus - 3)) + 2

NewRSWMinter(k, t, raw) ==
    LET g  == RandomIntRange(raw, k.n)
        ep == Exp(2, t, Order(k.p))
        eq == Exp(2, t, Order(k.q))
    IN  [n |-> k.n, p |-> k.p, q |-> k.q, t |-> t,
         bytes |-> (k.bits + 7) \div 8,
         gp |-> g % k.p, gq |-> g % k.q,
         hp |-> Exp(g % k.p, ep, k.p), hq |-> Exp(g % k.q, eq, k.q),
         qInvP |-> ModInverse(k.q % k.p, k.p)]

\* What the constants have to fit. If p - 1 is a power of two that divides
\* 2^t, the exponent is reduced to 0 and the shortcut is wrong for multiples
\* of p. Validate lets such a p pass, but GenerateRSWKeypair draws none: no
\* Fermat prime has 512 bits or more.
KeysFit ==
    /\ Serialized \subseteq [n : Nat, p : Nat, q : Nat, bits : Nat]
    /\ Counts \cup Bases \cup Scalars \subseteq Nat
    /\ \A raw \in Serialized, t \in Counts, base \in Bases :
         Validate(ParseRSWKeypair(raw)) /\ t >= 1 =>
             \A p \in {raw.p, raw.q} :
                 \/ RandomIntRange(base, raw.n) % p # 0
                 \/ Exp(2, t, Order(p)) # 0

\* The minter is looked up or built while Cap.mu is held.
GetMinter(w) ==
    /\ key # <<>>
    /\ using[w] = <<>>
    /\ IF minters # <<>>
       THEN /\ using' = [using EXCEPT ![w] = minters]
            /\ UNCHANGED minters
       ELSE \E raw \in Bases :
              /\ minters' = <<NewRSWMinter(key[1], count, raw)>>
              /\ using' = [using EXCEPT ![w] = minters']
    /\ UNCHANGED <<key, count, puzzles, starts, resets>>

\* The hex digits of a value; paddedHex writes no fewer than two a byte.
HexDigits(v, width) ==
    LET rest[k \in 0..width] == IF k = 0 THEN v ELSE rest[k - 1] \div 16
    IN  [d \in 1..width |-> rest[width - d] % 16]
TextWidth(v) ==
    LET len[u \in 0..v] == IF u < 16 THEN 1 ELSE 1 + len[u \div 16]
    IN  len[v]
PaddedHex(v, bytes) == HexDigits(v, Max({2 * bytes, TextWidth(v)}))

Minted(m, r) ==
    LET rp == r % Order(m.p)
        rq == r % Order(m.q)
        x  == Crt(m, Exp(m.gp, rp, m.p), Exp(m.gq, rq, m.q))
        y  == Crt(m, Exp(m.hp, rp, m.p), Exp(m.hq, rq, m.q))
    IN  [n |-> PaddedHex(m.n, m.bytes), x |-> PaddedHex(x, m.bytes),
         t |-> m.t, y |-> PaddedHex(y, m.bytes)]

\* The goroutine mints with the minter it fetched, outside the mutex.
Mint(w) ==
    /\ using[w] # <<>>
    /\ Cardinality(puzzles) < MaxPuzzles
    /\ \E r \in Scalars : puzzles' = puzzles \cup {Minted(using[w][1], r)}
    /\ using' = [using EXCEPT ![w] = <<>>]
    /\ UNCHANGED <<key, count, minters, starts, resets>>

\* A client answers, or gives up.
Leave ==
    /\ \E p \in puzzles : puzzles' = puzzles \ {p}
    /\ UNCHANGED <<key, count, minters, using, starts, resets>>

Reset ==
    /\ resets < MaxResets
    /\ minters' = <<>>
    /\ resets' = resets + 1
    /\ UNCHANGED <<key, count, using, puzzles, starts>>

Next ==
    \/ \E raw \in Serialized, t \in Counts : New(raw, t)
    \/ \E w \in Workers : GetMinter(w) \/ Mint(w)
    \/ Leave
    \/ Reset

Spec == Init /\ [][Next]_vars

-----------------------------------------------------------------------------
(* Solving and verifying *)

ParseHexInt(digits) ==
    LET val[k \in 0..Len(digits)] ==
          IF k = 0 THEN 0 ELSE 16 * val[k - 1] + digits[k]
    IN  val[Len(digits)]

SolveRSW(modulus, x, t) ==
    LET sq[k \in 0..t] ==
          IF k = 0 THEN x % modulus ELSE (sq[k - 1] * sq[k - 1]) % modulus
    IN  sq[t]

\* VerifyRSW pads both numbers to the same length before it compares.
VerifyRSWHex(expected, claimed) ==
    Len(claimed) > 0 /\ ParseHexInt(expected) = ParseHexInt(claimed)

-----------------------------------------------------------------------------
(* Properties *)

\* The trapdoor gives what squaring gives: of a puzzle outstanding, under
\* whichever keypair and minter it was made and whatever Reset or restart
\* came since, exactly the number SolveRSW finds is accepted, whether its
\* hex is written short, as on the wire or with more zeros.
TrapdoorAgrees ==
    \A p \in puzzles :
        LET n      == ParseHexInt(p.n)
            answer == SolveRSW(n, ParseHexInt(p.x), p.t)
        IN  \A v \in 0..n : \A width \in TextWidth(v)..(Len(p.y) + 1) :
                VerifyRSWHex(p.y, HexDigits(v, width)) <=> v = answer

\* A goroutine mints for the options of its Cap: the modulus and squaring
\* count it publishes are those configured, though the cache is emptied,
\* refilled or replaced while it works.
MinterFitsOptions ==
    \A w \in Workers : using[w] # <<>> =>
        using[w][1].n = key[1].n /\ using[w][1].t = count
=============================================================================
