----------------------------- MODULE RequestProofs ---------------------------
(***************************************************************************)
(* What Components promises of the parts that a request meets, for all     *)
(* values of their constants: the route that is found for it, the handlers *)
(* for a message, the components of a pipeline, the exchange and its       *)
(* payloads.  Much of it is about positions of sequences.  The sections    *)
(* are like those of ComponentProofs, whose lemmas they use.               *)
(***************************************************************************)
EXTENDS ComponentProofs

-----------------------------------------------------------------------------
(* Tables of routes (Routing).  A host that is one parameter is no more     *)
(* specific than none.                                                     *)

Route == [method : {r.method : r \in RoutesOffered} \cup {"OPTIONS"},
          path : Seq(STRING), host : Seq(STRING),
          version : [kind : {"neutral", "unspecified", "versions"},
                     of : SUBSET STRING]]
Allowed == {r \in Route : r.host # <<"any">>}

RoutesGiven == RoutesOffered \subseteq Allowed /\ GlobalPrefix \in Seq(STRING)

RouteInv ==
    /\ RoutesGiven /\ routes \in Seq(Allowed)
    /\ phase = "built" => ~Routes!Duplicates(versioning, routes)
    /\ asked # NoValue =>
           phase = "built" /\ chosen = Routes!Answer(versioning, routes, asked)

LEMMA RoutesSelect ==
    /\ \A S : Routes!Cardinality(S) = Cardinality(S)
    /\ \A S : Routes!Earliest(S) = Earliest(S)
    /\ \A S, r : Routes!Nth(S, r) = Nth(S, r)
    /\ \A s, S : Routes!Only(s, S) = Only(s, S)
<1>1. \A S : Routes!Cardinality(S) = Cardinality(S)
  BY DEF Routes!Cardinality, Cardinality
<1>2. \A S : Routes!Earliest(S) = Earliest(S)
  BY DEF Routes!Earliest, Earliest
<1>3. \A S, r : Routes!Nth(S, r) = Nth(S, r)
  BY <1>1 DEF Routes!Nth, Nth
<1>4. \A s, S : Routes!Only(s, S) = Only(s, S)
  BY <1>1, <1>3 DEF Routes!Only, Only
<1> QED BY <1>1, <1>2, <1>3, <1>4

(* A dictionary has no two words at one place.                             *)
LEMMA FirstDiffers ==
    ASSUME NEW s \in Seq(Nat), NEW t \in Seq(Nat), NEW k \in Nat,
           1 <= k, k <= Len(s), k <= Len(t) + 1,
           \A j \in 1..(k - 1) : s[j] = t[j],
           k <= Len(t) => s[k] > t[k]
    PROVE  Routes!Above(s, t)
<1>1. k \in DOMAIN s
  OBVIOUS
<1> QED BY <1>1 DEF Routes!Above

LEMMA NoneAbove ==
    ASSUME NEW s \in Seq(Nat), NEW t \in Seq(Nat),
           ~Routes!Above(s, t), ~Routes!Above(t, s)
    PROVE  s = t
<1> DEFINE differ ==
        {n \in Nat : 1 <= n /\ n <= Len(s) /\ n <= Len(t) /\ s[n] # t[n]}
<1>1. /\ Len(s) \in Nat /\ Len(t) \in Nat
      /\ \A n \in 1..Len(s) : s[n] \in Nat
      /\ \A n \in 1..Len(t) : t[n] \in Nat
  OBVIOUS
<1>2. differ = {}
  <2> SUFFICES ASSUME differ # {} PROVE FALSE
    OBVIOUS
  <2>1. PICK n \in differ : \A k \in differ : n <= k
    BY LeastOf
  <2>2. n \in Nat /\ 1 <= n /\ n <= Len(s) /\ n <= Len(t) /\ s[n] # t[n]
    BY <2>1
  <2>3. ASSUME NEW k \in 1..(n - 1) PROVE s[k] = t[k]
    <3>1. n \in Nat /\ k \in 1..(n - 1)
      BY <2>2, <2>3
    <3>2. k \in Nat /\ 1 <= k /\ k <= n /\ ~(n <= k)
      BY <3>1
    <3>3. \A l \in Nat : n <= l => k <= l
      BY <3>1, <3>2
    <3>4. k <= Len(s) /\ k <= Len(t)
      BY <3>3, <2>2, <1>1
    <3> QED BY <3>2, <3>4, <2>1
  <2>4. s[n] \in Nat /\ t[n] \in Nat
    BY <2>2, <1>1
  <2>5. CASE s[n] > t[n]
    <3>1. n <= Len(t) + 1
      BY <2>2, <1>1
    <3> QED BY <2>2, <2>3, <2>5, <3>1, FirstDiffers
  <2>6. CASE t[n] > s[n]
    <3>1. n <= Len(s) + 1 /\ \A k \in 1..(n - 1) : t[k] = s[k]
      BY <2>2, <2>3, <1>1
    <3> QED BY <2>2, <2>6, <3>1, FirstDiffers
  <2> QED BY <2>2, <2>4, <2>5, <2>6
<1> HIDE DEF differ
<1>3. \A n \in Nat : 1 <= n /\ n <= Len(s) /\ n <= Len(t) => s[n] = t[n]
  BY <1>2 DEF differ
<1>4. ~(Len(s) > Len(t))
  <2> SUFFICES ASSUME Len(s) > Len(t) PROVE FALSE
    OBVIOUS
  <2> DEFINE k == Len(t) + 1
  <2>1. /\ k \in Nat /\ 1 <= k /\ k <= Len(s) /\ k <= Len(t) + 1 /\ ~(k <= Len(t))
        /\ \A j \in 1..(k - 1) : s[j] = t[j]
    BY <1>1, <1>3
  <2> HIDE DEF k
  <2> QED BY <2>1, FirstDiffers
<1>5. ~(Len(t) > Len(s))
  <2> SUFFICES ASSUME Len(t) > Len(s) PROVE FALSE
    OBVIOUS
  <2> DEFINE k == Len(s) + 1
  <2>1. /\ k \in Nat /\ 1 <= k /\ k <= Len(t) /\ k <= Len(s) + 1 /\ ~(k <= Len(s))
        /\ \A j \in 1..(k - 1) : t[j] = s[j]
    BY <1>1, <1>3
  <2> HIDE DEF k
  <2> QED BY <2>1, FirstDiffers
<1>6. Len(s) = Len(t)
  BY <1>1, <1>4, <1>5
<1>7. \A n \in 1..Len(s) : s[n] = t[n]
  BY <1>1, <1>3, <1>6
<1> QED BY <1>6, <1>7, SeqEqual

Coded(label) == IF label = "rest" THEN 0 ELSE IF label = "any" THEN 1 ELSE 2
HostCodes(r) ==
    IF r.host = <<>> THEN << 0 >>
    ELSE [k \in DOMAIN r.host |-> IF r.host[k] = "any" THEN 0 ELSE 1]

LEMMA SpecificityIs ==
    ASSUME NEW r \in Route
    PROVE  /\ HostCodes(r) \in Seq({0, 1}) /\ Len(HostCodes(r)) \in Nat \ {0}
           /\ Routes!Specificity(r) \in Seq(Nat)
           /\ Len(Routes!Specificity(r)) = Len(r.path) + 1 + Len(HostCodes(r))
           /\ \A k \in 1..Len(r.path) : Routes!Specificity(r)[k] = Coded(r.path[k])
           /\ Routes!Specificity(r)[Len(r.path) + 1] = 2
           /\ \A k \in 1..Len(HostCodes(r)) :
                Routes!Specificity(r)[Len(r.path) + 1 + k] = HostCodes(r)[k]
<1> DEFINE p == [k \in DOMAIN r.path |-> CASE r.path[k] = "rest" -> 0 [] r.path[k] = "any" -> 1 [] OTHER -> 2]
<1>1. r.path \in Seq(STRING) /\ r.host \in Seq(STRING)
  BY DEF Route
<1>2. p \in Seq({0, 1, 2}) /\ Len(p) = Len(r.path) /\ Len(p) \in Nat
      /\ \A k \in 1..Len(p) : p[k] = Coded(r.path[k])
  <2>1. Len(r.path) \in Nat /\ DOMAIN r.path = 1..Len(r.path)
    BY <1>1
  <2>2. p = [k \in 1..Len(r.path) |-> Coded(r.path[k])]
    BY <2>1 DEF Coded
  <2>3. \A k \in 1..Len(r.path) : Coded(r.path[k]) \in {0, 1, 2}
    BY DEF Coded
  <2> HIDE DEF p
  <2> QED BY <2>1, <2>2, <2>3
<1>3. HostCodes(r) \in Seq({0, 1}) /\ Len(HostCodes(r)) \in Nat \ {0}
  <2>1. CASE r.host = <<>>
    BY <2>1 DEF HostCodes
  <2>2. CASE r.host # <<>>
    <3>1. Len(r.host) \in Nat \ {0} /\ DOMAIN r.host = 1..Len(r.host)
      BY <1>1, <2>2, EmptySeq
    <3> QED BY <3>1, <2>2 DEF HostCodes
  <2> QED BY <2>1, <2>2
<1>4. Routes!Specificity(r) = p \o <<2>> \o HostCodes(r)
  BY DEF Routes!Specificity, HostCodes
<1> HIDE DEF p
<1>5. p \in Seq(Nat) /\ <<2>> \in Seq(Nat) /\ HostCodes(r) \in Seq(Nat)
  BY <1>2, <1>3
<1>6. /\ p \o <<2>> \in Seq(Nat) /\ Len(p \o <<2>>) = Len(p) + 1
      /\ \A k \in 1..Len(p) : (p \o <<2>>)[k] = p[k]
      /\ (p \o <<2>>)[Len(p) + 1] = 2
  BY <1>5, <1>2
<1> DEFINE q == p \o <<2>>
<1> HIDE DEF q
<1>7. /\ q \o HostCodes(r) \in Seq(Nat)
      /\ Len(q \o HostCodes(r)) = Len(q) + Len(HostCodes(r))
      /\ \A k \in 1..Len(q) : (q \o HostCodes(r))[k] = q[k]
      /\ \A k \in 1..Len(HostCodes(r)) : (q \o HostCodes(r))[Len(q) + k] = HostCodes(r)[k]
  BY <1>5, <1>6 DEF q
<1>8. Len(q) = Len(r.path) + 1 /\ Len(r.path) \in Nat
  BY <1>2, <1>6 DEF q
<1>9. /\ \A k \in 1..Len(r.path) : k \in 1..Len(q) /\ q[k] = Coded(r.path[k])
      /\ Len(r.path) + 1 \in 1..Len(q) /\ q[Len(r.path) + 1] = 2
  BY <1>2, <1>6, <1>8 DEF q
<1> QED BY <1>3, <1>4, <1>7, <1>8, <1>9 DEF q

LEMMA LenOf ==
    ASSUME NEW T, NEW s \in Seq(T)
    PROVE  Len(s) \in Nat /\ DOMAIN s = 1..Len(s) /\ \A k \in 1..Len(s) : s[k] \in T
OBVIOUS

LEMMA CodedTells ==
    ASSUME NEW a, NEW b, Coded(a) = Coded(b)
    PROVE  (a = "rest" <=> b = "rest") /\ (a = "any" <=> b = "any")
BY DEF Coded

LEMMA SingleIs ==
    ASSUME NEW T, NEW s \in Seq(T), Len(s) = 1
    PROVE  s = <<s[1]>>
OBVIOUS

LEMMA Apart ==
    ASSUME NEW a \in Nat, NEW b \in Nat, NEW h \in Nat, NEW g \in Nat, g >= 1,
           a + 1 + h = b + 1 + g, a < b
    PROVE  b - a \in 1..h /\ a + 1 + (b - a) = b + 1
OBVIOUS

LEMMA BeforeLast ==
    ASSUME NEW n \in Nat, NEW k \in 1..n, k # n
    PROVE  k \in 1..(n - 1)
OBVIOUS

LEMMA SamePath ==
    ASSUME NEW r \in Route, NEW t \in Route, NEW path, Len(r.path) = Len(t.path),
           Routes!PathMatches(r.path, path), Routes!PathMatches(t.path, path),
           \A k \in 1..Len(r.path) : Coded(r.path[k]) = Coded(t.path[k])
    PROVE  r.path = t.path
<1>1. r.path \in Seq(STRING) /\ t.path \in Seq(STRING) /\ Len(r.path) \in Nat
  BY DEF Route
<1>2. \A k \in 1..Len(r.path) :
        (r.path[k] = "rest" <=> t.path[k] = "rest") /\ (r.path[k] = "any" <=> t.path[k] = "any")
  BY CodedTells
<1> DEFINE fixed(p) == IF Routes!Wild(p) THEN Len(p) - 1 ELSE Len(p)
<1>3. \A k \in 1..fixed(r.path) : r.path[k] \in {"any", path[k]}
  BY DEF Routes!PathMatches, Routes!Fits
<1>4. \A k \in 1..fixed(t.path) : t.path[k] \in {"any", path[k]}
  BY DEF Routes!PathMatches, Routes!Fits
<1>5. ASSUME NEW k \in 1..Len(r.path) PROVE r.path[k] = t.path[k]
  <2>1. CASE r.path[k] = "rest"
    BY <1>2, <2>1
  <2>2. CASE r.path[k] # "rest"
    <3>1. k \in 1..Len(t.path) /\ t.path[k] # "rest"
      BY <1>2, <2>2
    <3>2. ASSUME NEW p, Len(p) \in Nat, k \in 1..Len(p), p[k] # "rest"
          PROVE  k \in 1..fixed(p)
      <4>1. CASE Routes!Wild(p)
        <5>1. k # Len(p) /\ fixed(p) = Len(p) - 1
          BY <3>2, <4>1 DEF Routes!Wild
        <5> QED BY <3>2, <5>1, BeforeLast
      <4>2. CASE ~Routes!Wild(p)
        BY <3>2, <4>2
      <4> QED BY <4>1, <4>2
    <3>3. k \in 1..fixed(r.path) /\ k \in 1..fixed(t.path)
      BY <1>1, <2>2, <3>1, <3>2
    <3>4. r.path[k] \in {"any", path[k]} /\ t.path[k] \in {"any", path[k]}
      BY <3>3, <1>3, <1>4
    <3> QED BY <3>4, <1>2
  <2> QED BY <2>1, <2>2
<1> QED BY <1>1, <1>5, SeqEqual

LEMMA SameHost ==
    ASSUME NEW r \in Allowed, NEW t \in Allowed, NEW host,
           Routes!HostMatches(r, host), Routes!HostMatches(t, host),
           Len(HostCodes(r)) = Len(HostCodes(t)),
           \A k \in 1..Len(HostCodes(r)) : HostCodes(r)[k] = HostCodes(t)[k]
    PROVE  r.host = t.host
<1>1. r.host \in Seq(STRING) /\ t.host \in Seq(STRING)
  BY DEF Route, Allowed
<1>2. ASSUME NEW x \in Allowed, x.host # <<>>, HostCodes(x) = << 0 >> PROVE FALSE
  <2>1. x.host \in Seq(STRING) /\ x.host # <<"any">>
    BY DEF Route, Allowed
  <2>2. Len(x.host) \in Nat /\ DOMAIN x.host = 1..Len(x.host)
    BY <2>1, LenOf
  <2>3. HostCodes(x) = [k \in 1..Len(x.host) |-> IF x.host[k] = "any" THEN 0 ELSE 1]
    BY <1>2, <2>2 DEF HostCodes
  <2>4. Len(x.host) = 1
    <3>1. DOMAIN HostCodes(x) = 1..Len(x.host)
      BY <2>3
    <3>2. DOMAIN HostCodes(x) = 1..1
      BY <1>2
    <3> QED BY <3>1, <3>2, <2>2
  <2>5. x.host[1] = "any"
    <3>1. 1 \in 1..Len(x.host) /\ << 0 >>[1] = 0
      BY <2>4
    <3>2. HostCodes(x)[1] = IF x.host[1] = "any" THEN 0 ELSE 1
      BY <3>1, <2>3
    <3> QED BY <3>1, <3>2, <1>2
  <2>6. x.host = <<"any">>
    <3>1. x.host = <<x.host[1]>>
      BY <2>1, <2>4, SingleIs
    <3> QED BY <3>1, <2>5
  <2> QED BY <2>1, <2>6
<1>3. HostCodes(r) = HostCodes(t)
  <2>1. HostCodes(r) \in Seq({0, 1}) /\ HostCodes(t) \in Seq({0, 1})
    BY SpecificityIs DEF Allowed
  <2> QED BY <2>1, SeqEqual
<1>4. CASE r.host = <<>>
  <2>1. HostCodes(t) = << 0 >>
    BY <1>3, <1>4 DEF HostCodes
  <2> QED BY <1>2, <1>4, <2>1
<1>5. CASE t.host = <<>>
  <2>1. HostCodes(r) = << 0 >>
    BY <1>3, <1>5 DEF HostCodes
  <2> QED BY <1>2, <1>5, <2>1
<1>6. CASE r.host # <<>> /\ t.host # <<>>
  <2>1. /\ Len(host) = Len(r.host) /\ Len(host) = Len(t.host) /\ Len(r.host) \in Nat
        /\ \A k \in 1..Len(r.host) : r.host[k] \in {"any", host[k]}
        /\ \A k \in 1..Len(r.host) : t.host[k] \in {"any", host[k]}
    BY <1>1, <1>6 DEF Routes!HostMatches, Routes!Fits
  <2>2. DOMAIN r.host = 1..Len(r.host) /\ DOMAIN t.host = 1..Len(r.host)
    BY <1>1, <2>1, LenOf
  <2>3. /\ HostCodes(r) = [k \in 1..Len(r.host) |-> IF r.host[k] = "any" THEN 0 ELSE 1]
        /\ HostCodes(t) = [k \in 1..Len(r.host) |-> IF t.host[k] = "any" THEN 0 ELSE 1]
    BY <1>6, <2>2 DEF HostCodes
  <2>4. ASSUME NEW k \in 1..Len(r.host) PROVE r.host[k] = t.host[k]
    <3>1. HostCodes(r)[k] = (IF r.host[k] = "any" THEN 0 ELSE 1)
      BY <2>3
    <3>2. HostCodes(t)[k] = (IF t.host[k] = "any" THEN 0 ELSE 1)
      BY <2>3
    <3>3. r.host[k] = "any" <=> t.host[k] = "any"
      BY <3>1, <3>2, <1>3
    <3> QED BY <3>3, <2>1
  <2> QED BY <1>1, <2>1, <2>4, SeqEqual
<1> QED BY <1>4, <1>5, <1>6

LEMMA SameShape ==
    ASSUME NEW r \in Allowed, NEW t \in Allowed, NEW path, NEW host,
           Routes!PathMatches(r.path, path), Routes!PathMatches(t.path, path),
           Routes!HostMatches(r, host), Routes!HostMatches(t, host),
           Routes!Specificity(r) = Routes!Specificity(t)
    PROVE  r.path = t.path /\ r.host = t.host
<1> DEFINE spec(x) == Routes!Specificity(x)
           ends(x) ==
             /\ Len(x.path) \in Nat
             /\ HostCodes(x) \in Seq({0, 1}) /\ Len(HostCodes(x)) \in Nat \ {0}
             /\ Len(spec(x)) = Len(x.path) + 1 + Len(HostCodes(x))
             /\ \A k \in 1..Len(x.path) : spec(x)[k] = Coded(x.path[k])
             /\ spec(x)[Len(x.path) + 1] = 2
             /\ \A k \in 1..Len(HostCodes(x)) : spec(x)[Len(x.path) + 1 + k] = HostCodes(x)[k]
<1>1. ASSUME NEW x \in Allowed PROVE ends(x)
  <2>1. x \in Route /\ x.path \in Seq(STRING)
    BY DEF Route, Allowed
  <2> QED BY <2>1, SpecificityIs
<1>2. ends(r) /\ ends(t) /\ spec(r) = spec(t)
  BY <1>1
<1> HIDE DEF spec
<1>3. ASSUME NEW x, NEW y, ends(x), ends(y), spec(x) = spec(y)
      PROVE  ~(Len(x.path) < Len(y.path))
  <2> SUFFICES ASSUME Len(x.path) < Len(y.path) PROVE FALSE
    OBVIOUS
  <2> DEFINE k == Len(y.path) - Len(x.path)
  <2>01. Len(x.path) \in Nat /\ Len(HostCodes(x)) \in Nat \ {0}
    BY <1>3, Zenon
  <2>02. Len(y.path) \in Nat /\ Len(HostCodes(y)) \in Nat \ {0}
    BY <1>3, Zenon
  <2>03. /\ Len(spec(x)) = Len(x.path) + 1 + Len(HostCodes(x))
         /\ Len(spec(y)) = Len(y.path) + 1 + Len(HostCodes(y))
         /\ spec(x) = spec(y)
    BY <1>3, Zenon
  <2>0. /\ Len(HostCodes(y)) >= 1
        /\ Len(x.path) + 1 + Len(HostCodes(x)) = Len(y.path) + 1 + Len(HostCodes(y))
    BY <2>02, <2>03
  <2>1. k \in 1..Len(HostCodes(x)) /\ Len(x.path) + 1 + k = Len(y.path) + 1
    BY <2>01, <2>02, <2>0, Apart
  <2>2. spec(x)[Len(x.path) + 1 + k] = HostCodes(x)[k]
    BY <1>3, <2>1
  <2>3. HostCodes(x)[k] \in {0, 1}
    BY <1>3, <2>1, LenOf
  <2>4. spec(x)[Len(y.path) + 1] = 2
    BY <1>3
  <2> HIDE DEF k
  <2> QED BY <2>1, <2>2, <2>3, <2>4
<1>4. Len(r.path) = Len(t.path)
  <2>1. ~(Len(r.path) < Len(t.path))
    BY <1>2, <1>3
  <2>2. ~(Len(t.path) < Len(r.path))
    BY <1>2, <1>3
  <2>3. Len(r.path) \in Nat /\ Len(t.path) \in Nat
    BY <1>2
  <2> HIDE DEF ends
  <2> QED BY <2>1, <2>2, <2>3
<1>5. Len(HostCodes(r)) = Len(HostCodes(t))
  BY <1>2, <1>4
<1>6. \A k \in 1..Len(r.path) : Coded(r.path[k]) = Coded(t.path[k])
  BY <1>2, <1>4
<1>7. \A k \in 1..Len(HostCodes(r)) : HostCodes(r)[k] = HostCodes(t)[k]
  BY <1>2, <1>4, <1>5
<1>8. r.path = t.path
  BY <1>4, <1>6, SamePath DEF Allowed
<1>9. r.host = t.host
  BY <1>5, <1>7, SameHost
<1> QED BY <1>8, <1>9

LEMMA BothVersions ==
    ASSUME NEW v \in [kind : {"neutral", "unspecified", "versions"}, of : SUBSET STRING],
           NEW w \in [kind : {"neutral", "unspecified", "versions"}, of : SUBSET STRING],
           NEW requested, NEW default,
           Routes!VersionMatches(v, requested, default),
           Routes!VersionMatches(w, requested, default)
    PROVE  Routes!Overlap(v, w, default)
BY DEF Routes!VersionMatches, Routes!Overlap

(* Two routes that answer a request equally well are duplicates.           *)
LEMMA OneForEachMethod ==
    ASSUME NEW those \in Seq(Allowed), NEW api, NEW q,
           ~Routes!Duplicates(api, those),
           NEW i \in Routes!Best(api, those, q), NEW j \in Routes!Best(api, those, q),
           those[i].method = those[j].method
    PROVE  i = j
<1> DEFINE found == {n \in DOMAIN those : Routes!Matches(api, those[n], q)}
           r == those[i]
           t == those[j]
<1>1. /\ i \in found /\ j \in found
      /\ ~Routes!Above(Routes!Specificity(t), Routes!Specificity(r))
      /\ ~Routes!Above(Routes!Specificity(r), Routes!Specificity(t))
  BY DEF Routes!Best
<1>2. r \in Allowed /\ t \in Allowed /\ i \in DOMAIN those /\ j \in DOMAIN those
  BY <1>1
<1>3. i \in Nat /\ j \in Nat /\ 1 <= i /\ 1 <= j
  BY <1>2
<1>4. Routes!Matches(api, r, q) /\ Routes!Matches(api, t, q)
  BY <1>1
<1>5. r \in Route /\ t \in Route
  BY <1>2 DEF Allowed
<1>6. Routes!Specificity(r) = Routes!Specificity(t)
  <2>1. Routes!Specificity(r) \in Seq(Nat) /\ Routes!Specificity(t) \in Seq(Nat)
    BY <1>5, SpecificityIs
  <2> QED BY <1>1, <2>1, NoneAbove
<1> HIDE DEF r, t
<1>7. r.path = t.path /\ r.host = t.host
  <2>1. PICK path : Routes!PathMatches(r.path, path) /\ Routes!PathMatches(t.path, path)
    BY <1>4 DEF Routes!Matches
  <2>2. Routes!HostMatches(r, q.host) /\ Routes!HostMatches(t, q.host)
    BY <1>4 DEF Routes!Matches
  <2> QED BY <1>2, <1>6, <2>1, <2>2, SameShape
<1>8. api.strategy # "none" =>
        /\ Routes!Overlap(r.version, t.version, api.default)
        /\ Routes!Overlap(t.version, r.version, api.default)
  <2>1. SUFFICES ASSUME api.strategy # "none"
        PROVE /\ Routes!Overlap(r.version, t.version, api.default)
              /\ Routes!Overlap(t.version, r.version, api.default)
    OBVIOUS
  <2>2. PICK version : /\ Routes!VersionMatches(r.version, version, api.default)
                      /\ Routes!VersionMatches(t.version, version, api.default)
    BY <1>4, <2>1 DEF Routes!Matches
  <2>3. /\ r.version \in [kind : {"neutral", "unspecified", "versions"}, of : SUBSET STRING]
        /\ t.version \in [kind : {"neutral", "unspecified", "versions"}, of : SUBSET STRING]
    BY <1>5 DEF Route
  <2> QED BY <2>2, <2>3, BothVersions
<1>9. ASSUME i < j PROVE FALSE
  <2>1. i \in 1..(j - 1)
    BY <1>3, <1>9
  <2> QED BY <1>2, <1>7, <1>8, <2>1 DEF Routes!Duplicates, r, t
<1>10. ASSUME j < i PROVE FALSE
  <2>1. j \in 1..(i - 1)
    BY <1>3, <1>10
  <2> QED BY <1>2, <1>7, <1>8, <2>1 DEF Routes!Duplicates, r, t
<1> QED BY <1>3, <1>9, <1>10

(* A table in another order.                                               *)
LEMMA ReorderedAnswers ==
    ASSUME NEW those \in Seq(Allowed), NEW api, NEW q,
           ~Routes!Duplicates(api, those), NEW order \in Routes!Orders(those)
    PROVE  Routes!Answer(api, those, q)
             = Routes!Answer(api, [n \in DOMAIN those |-> those[order[n]]], q)
<1> DEFINE other == [n \in DOMAIN those |-> those[order[n]]]
           best == Routes!Best(api, those, q)
           best2 == Routes!Best(api, other, q)
           with(m) == {n \in best : those[n].method = m}
           with2(m) == {n \in best2 : other[n].method = m}
<1>1. /\ \A n \in DOMAIN those : order[n] \in DOMAIN those
      /\ \A n \in DOMAIN those : \E k \in DOMAIN those : order[k] = n
  BY DEF Routes!Orders
<1>2. /\ DOMAIN other = DOMAIN those
      /\ \A n \in DOMAIN those : other[n] = those[order[n]]
  OBVIOUS
<1>3. DOMAIN those \subseteq Nat
  BY LenOf
<1> HIDE DEF other
<1>4. \A n : n \in best <=>
        /\ n \in DOMAIN those /\ Routes!Matches(api, those[n], q)
        /\ \A k \in DOMAIN those : Routes!Matches(api, those[k], q) =>
             ~Routes!Above(Routes!Specificity(those[k]), Routes!Specificity(those[n]))
  BY DEF Routes!Best
<1>5. \A n : n \in best2 <=>
        /\ n \in DOMAIN those /\ Routes!Matches(api, other[n], q)
        /\ \A k \in DOMAIN those : Routes!Matches(api, other[k], q) =>
             ~Routes!Above(Routes!Specificity(other[k]), Routes!Specificity(other[n]))
  BY <1>2 DEF Routes!Best
<1> HIDE DEF best, best2
<1>6. ASSUME NEW n \in DOMAIN those PROVE n \in best2 <=> order[n] \in best
  <2>1. n \in best2 <=>
          /\ Routes!Matches(api, those[order[n]], q)
          /\ \A k \in DOMAIN those : Routes!Matches(api, those[order[k]], q) =>
               ~Routes!Above(Routes!Specificity(those[order[k]]), Routes!Specificity(those[order[n]]))
    BY <1>2, <1>5
  <2>2. order[n] \in best <=>
          /\ Routes!Matches(api, those[order[n]], q)
          /\ \A k \in DOMAIN those : Routes!Matches(api, those[k], q) =>
               ~Routes!Above(Routes!Specificity(those[k]), Routes!Specificity(those[order[n]]))
    BY <1>1, <1>4
  <2> QED BY <2>1, <2>2, <1>1
<1>7. best \subseteq DOMAIN those /\ best2 \subseteq DOMAIN those
  BY <1>4, <1>5
<1>8. best = {} <=> best2 = {}
  BY <1>1, <1>6, <1>7
<1>9. ASSUME NEW m PROVE with(m) = {} <=> with2(m) = {}
  <2>1. ASSUME NEW n \in with(m) PROVE with2(m) # {}
    <3>1. n \in best /\ those[n].method = m /\ n \in DOMAIN those
      BY <1>7
    <3>2. PICK k \in DOMAIN those : order[k] = n
      BY <3>1, <1>1
    <3>3. k \in best2 /\ other[k] = those[n]
      BY <3>1, <3>2, <1>2, <1>6
    <3> QED BY <3>1, <3>3
  <2>2. ASSUME NEW k \in with2(m) PROVE with(m) # {}
    <3>1. k \in best2 /\ other[k].method = m /\ k \in DOMAIN those
      BY <1>7
    <3>2. order[k] \in best /\ other[k] = those[order[k]]
      BY <3>1, <1>2, <1>6
    <3> QED BY <3>1, <3>2
  <2> HIDE DEF with, with2
  <2> QED BY <2>1, <2>2
<1>10. ASSUME NEW m, with(m) # {}
       PROVE  Routes!Routed(those, with(m)) = Routes!Routed(other, with2(m))
  <2>1. Earliest(with(m)) \in with(m)
    <3>1. with(m) \in SUBSET Nat
      BY <1>3, <1>7
    <3> HIDE DEF with
    <3> QED BY <3>1, <1>10, EarliestIs
  <2>2. Earliest(with2(m)) \in with2(m)
    <3>1. with2(m) \in SUBSET Nat
      BY <1>3, <1>7
    <3>2. with2(m) # {}
      BY <1>9, <1>10
    <3> HIDE DEF with2
    <3> QED BY <3>1, <3>2, EarliestIs
  <2> DEFINE i == Earliest(with(m))
             j == Earliest(with2(m))
  <2>3. i \in best /\ those[i].method = m
    BY <2>1
  <2>4. j \in best2 /\ other[j].method = m /\ j \in DOMAIN those
    BY <2>2, <1>7
  <2> HIDE DEF i, j
  <2>5. order[j] \in best /\ those[order[j]].method = m
    BY <2>4, <1>2, <1>6
  <2>6. i = order[j]
    BY <2>3, <2>5, OneForEachMethod DEF best
  <2>7. those[i] = other[j]
    BY <2>4, <2>6, <1>2
  <2>8. Routes!Routed(those, with(m)) = [status |-> "routed", route |-> those[i]]
    BY RoutesSelect DEF Routes!Routed, i
  <2>9. Routes!Routed(other, with2(m)) = [status |-> "routed", route |-> other[j]]
    BY RoutesSelect DEF Routes!Routed, j
  <2> QED BY <2>7, <2>8, <2>9
<1>11. Routes!Answer(api, those, q) =
        IF with(q.method) # {} THEN Routes!Routed(those, with(q.method))
        ELSE IF with("ALL") # {} THEN Routes!Routed(those, with("ALL"))
        ELSE [status |-> IF best # {} THEN "method not allowed" ELSE "not found"]
  BY DEF Routes!Answer, best
<1>12. Routes!Answer(api, other, q) =
        IF with2(q.method) # {} THEN Routes!Routed(other, with2(q.method))
        ELSE IF with2("ALL") # {} THEN Routes!Routed(other, with2("ALL"))
        ELSE [status |-> IF best2 # {} THEN "method not allowed" ELSE "not found"]
  BY DEF Routes!Answer, best2
<1>13. Routes!Answer(api, those, q) = Routes!Answer(api, other, q)
  <2> HIDE DEF with, with2
  <2>1. CASE with(q.method) # {}
    BY <2>1, <1>9, <1>10, <1>11, <1>12
  <2>2. CASE with(q.method) = {} /\ with("ALL") # {}
    BY <2>2, <1>9, <1>10, <1>11, <1>12
  <2>3. CASE with(q.method) = {} /\ with("ALL") = {}
    <3>1. with2(q.method) = {} /\ with2("ALL") = {}
      BY <2>3, <1>9
    <3>2. Routes!Answer(api, those, q)
            = [status |-> IF best # {} THEN "method not allowed" ELSE "not found"]
      BY <2>3, <1>11
    <3>3. Routes!Answer(api, other, q)
            = [status |-> IF best2 # {} THEN "method not allowed" ELSE "not found"]
      BY <3>1, <1>12
    <3>4. CASE best = {}
      BY <3>2, <3>3, <3>4, <1>8
    <3>5. CASE best # {}
      BY <3>2, <3>3, <3>5, <1>8
    <3> QED BY <3>4, <3>5
  <2> QED BY <2>1, <2>2, <2>3
<1> QED BY <1>13 DEF other

-----------------------------------------------------------------------------
LEMMA PrefixedAllowed ==
    ASSUME RoutesGiven, NEW r \in Allowed
    PROVE  Routes!Prefixed(r) \in Allowed
<1>1. r \in Route /\ r.host # <<"any">> /\ r.path \in Seq(STRING)
      /\ GlobalPrefix \in Seq(STRING)
  BY DEF Allowed, Route, RoutesGiven
<1>2. GlobalPrefix \o r.path \in Seq(STRING)
  BY <1>1
<1>3. Routes!Prefixed(r) \in {r, [r EXCEPT !.path = GlobalPrefix \o r.path]}
  BY DEF Routes!Prefixed
<1>4. ASSUME NEW p \in Seq(STRING) PROVE [r EXCEPT !.path = p] \in Allowed
  BY <1>1, <1>4 DEF Allowed, Route
<1> QED BY <1>2, <1>3, <1>4

LEMMA PreflightsAllowed ==
    ASSUME NEW those \in Seq(Allowed)
    PROVE  Routes!Preflights(those) \in Seq(Allowed)
<1> DEFINE sources ==
        {n \in DOMAIN those : \A k \in DOMAIN those :
            those[k].path = those[n].path =>
                those[k].method # "OPTIONS" /\ n <= k}
           source == Only(those, sources)
           preflight(r) ==
             [method |-> "OPTIONS", path |-> r.path, host |-> <<>>,
              version |-> Routes!Unspecified]
<1>1. sources \subseteq 1..Len(those)
  BY LenOf
<1> HIDE DEF sources
<1>2. source \in Seq(Allowed)
  BY <1>1, OnlyIs
<1> HIDE DEF source
<1>3. \A n \in 1..Len(source) : source[n] \in Allowed /\ Len(source) \in Nat
      /\ DOMAIN source = 1..Len(source)
  BY <1>2, LenOf
<1>4. ASSUME NEW r \in Allowed PROVE preflight(r) \in Allowed
  <2>1. r.path \in Seq(STRING)
    BY DEF Allowed, Route
  <2>2. Routes!Unspecified \in
          [kind : {"neutral", "unspecified", "versions"}, of : SUBSET STRING]
    BY DEF Routes!Unspecified
  <2>3. <<>> \in Seq(STRING)
    BY EmptySeq
  <2>4. ASSUME NEW x PROVE <<>> # <<x>>
    OBVIOUS
  <2> QED BY <2>1, <2>2, <2>3, <2>4 DEF Allowed, Route
<1>5. Routes!Preflights(those) = [n \in DOMAIN source |-> preflight(source[n])]
  BY RoutesSelect DEF Routes!Preflights, source, sources
<1> HIDE DEF preflight
<1>6. DOMAIN source = 1..Len(source) /\ Len(source) \in Nat
  BY <1>2, LenOf
<1>7. \A n \in 1..Len(source) : preflight(source[n]) \in Allowed
  BY <1>3, <1>4
<1> QED BY <1>5, <1>6, <1>7

LEMMA BuiltAllowed ==
    ASSUME RoutesGiven, routes \in Seq(Allowed), NEW cors \in BOOLEAN, Routes!Build(cors)
    PROVE  routes' \in Seq(Allowed)
<1> DEFINE prefixed == [i \in DOMAIN routes |-> Routes!Prefixed(routes[i])]
<1>1. routes' = IF cors THEN prefixed \o Routes!Preflights(prefixed) ELSE prefixed
  BY DEF Routes!Build
<1>2. Len(routes) \in Nat /\ DOMAIN routes = 1..Len(routes)
      /\ \A n \in 1..Len(routes) : routes[n] \in Allowed
  BY LenOf
<1>3. \A n \in 1..Len(routes) : Routes!Prefixed(routes[n]) \in Allowed
  BY <1>2, PrefixedAllowed
<1>4. prefixed \in Seq(Allowed)
  BY <1>2, <1>3
<1> HIDE DEF prefixed
<1>5. Routes!Preflights(prefixed) \in Seq(Allowed)
  BY <1>4, PreflightsAllowed
<1>6. prefixed \o Routes!Preflights(prefixed) \in Seq(Allowed)
  BY <1>4, <1>5
<1> QED BY <1>1, <1>4, <1>6

LEMMA RoutesBegin ==
    ASSUME RoutesGiven, Routes!Init
    PROVE  RouteInv
BY DEF Routes!Init, RouteInv

LEMMA RoutesStep ==
    ASSUME RouteInv, [Routes!Next]_RoutesVars
    PROVE  RouteInv'
<1>1. RoutesGiven /\ RoutesGiven' /\ routes \in Seq(Allowed)
  BY DEF RouteInv, RoutesGiven
<1>2. ASSUME NEW r \in RoutesOffered, Routes!Declare(r) PROVE RouteInv'
  <2>1. /\ phase = "declare" /\ phase' = phase /\ asked' = asked
        /\ routes' = Append(routes, r)
    BY <1>2 DEF Routes!Declare
  <2>2. r \in Allowed
    BY <1>1 DEF RoutesGiven
  <2>3. routes' \in Seq(Allowed)
    BY <1>1, <2>1, <2>2
  <2>4. asked' = NoValue
    BY <2>1 DEF RouteInv
  <2> QED BY <1>1, <2>1, <2>3, <2>4 DEF RouteInv
<1>3. ASSUME NEW cors \in BOOLEAN, Routes!Build(cors) PROVE RouteInv'
  <2>1. /\ phase = "declare" /\ asked' = asked /\ versioning' = versioning
        /\ phase' = IF Routes!Duplicates(versioning, routes') THEN "refused" ELSE "built"
    BY <1>3 DEF Routes!Build
  <2>2. routes' \in Seq(Allowed)
    BY <1>1, <1>3, BuiltAllowed
  <2>3. asked' = NoValue
    BY <2>1 DEF RouteInv
  <2>4. phase' = "built" => ~Routes!Duplicates(versioning', routes')
    BY <2>1
  <2> QED BY <1>1, <2>2, <2>3, <2>4 DEF RouteInv
<1>4. ASSUME NEW q \in WebRequests, Routes!Call(q) PROVE RouteInv'
  <2>1. /\ phase = "built" /\ phase' = phase /\ asked' = q
        /\ chosen' = Routes!Answer(versioning, routes, q)
        /\ routes' = routes /\ versioning' = versioning
    BY <1>4 DEF Routes!Call
  <2>2. ~Routes!Duplicates(versioning', routes')
    BY <2>1 DEF RouteInv
  <2>3. chosen' = Routes!Answer(versioning', routes', asked')
    BY <2>1
  <2> QED BY <1>1, <2>1, <2>2, <2>3 DEF RouteInv
<1>5. CASE UNCHANGED RoutesVars
  <2>1. /\ routes' = routes /\ phase' = phase /\ versioning' = versioning
        /\ asked' = asked /\ chosen' = chosen
    BY <1>5 DEF RoutesVars
  <2> QED BY <1>1, <2>1 DEF RouteInv
<1> QED BY <1>2, <1>3, <1>4, <1>5 DEF Routes!Next

LEMMA RoutesAnswer ==
    ASSUME RouteInv
    PROVE  Routes!OrderIndependent
BY ReorderedAnswers DEF RouteInv, Routes!OrderIndependent

(* BootApplication::call (application.rs, best_request_specificity): which *)
(* route answers does not depend on the order in which the routes were     *)
(* declared, in any table that build accepts, for any paths, hosts,        *)
(* versions, prefixes and requests.                                        *)
THEOREM OrderIndependentAlways ==
    ASSUME RoutesGiven PROVE PartsSpec => []OrderIndependent
<1>1. PartsInit => (part = "routing" => RouteInv)
  BY RoutesBegin, PartsBegin
<1>2. (part = "routing" => RouteInv) /\ [PartsNext]_parts
        => (part = "routing" => RouteInv)'
  BY RoutesStep, PartsStep
<1>3. (part = "routing" => RouteInv) => OrderIndependent
  BY RoutesAnswer DEF OrderIndependent
<1> QED BY <1>1, <1>2, <1>3, PTL DEF PartsSpec

-----------------------------------------------------------------------------
(* Registries of handlers (Buses).                                         *)

TopicNames == Topics \cup {Wildcard}
Subscriber == [id : Nat, of : TopicNames]
One == {"commands", "queries"}

BusGiven == Definitions \in Seq(TopicNames)

Ordered(s) == \A n, k \in DOMAIN s : n < k => s[n].id < s[k].id

Registry ==
    /\ subscribers \in Seq(Subscriber) /\ next_id \in Nat
    /\ uninitialized \in Seq(TopicNames)
    /\ Ordered(subscribers)
    /\ \A n \in DOMAIN subscribers : subscribers[n].id < next_id
    /\ bus \in One => \A n, k \in DOMAIN subscribers :
            subscribers[n].of = subscribers[k].of => n = k

Fresh(me) == me.called = <<>> /\ me.down = FALSE

(* What was called and what is left make up what was looked at.            *)
Working(me) ==
    /\ me.looked \in Seq(Subscriber) /\ Ordered(me.looked)
    /\ bus \in One => Len(me.looked) = 1
    /\ me.called \in Seq(Subscriber) /\ me.left \in Seq(Subscriber)
    /\ Len(me.called) + Len(me.left) = Len(me.looked)
    /\ \A n \in 1..Len(me.called) : me.called[n] = me.looked[n]
    /\ \A n \in 1..Len(me.left) : me.left[n] = me.looked[Len(me.called) + n]
    /\ me.down \in BOOLEAN
    /\ bus # "health" => me.down = FALSE

CallersAt ==
    /\ DOMAIN caller = BusCallers
    /\ \A c \in BusCallers :
        /\ caller[c] \in [at : {"idle", "looking", "calling", "returned", "failed"},
                          of : TopicNames, left : Seq(Subscriber),
                          called : Seq(Subscriber), down : BOOLEAN,
                          looked : Seq(Subscriber)]
        /\ caller[c].at \in {"idle", "looking"} => Fresh(caller[c])
        /\ caller[c].at \in {"calling", "returned"} => Working(caller[c])
        /\ caller[c].at = "returned" => caller[c].left = <<>>
        /\ caller[c].at = "looking" => bus \notin One

BusInv == BusGiven /\ Registry /\ CallersAt

LEMMA BusSelects ==
    \A s, S : Bus!Only(s, S) = Only(s, S)
<1>1. \A S : Bus!Cardinality(S) = Cardinality(S)
  BY DEF Bus!Cardinality, Cardinality
<1>2. \A S, r : Bus!Nth(S, r) = Nth(S, r)
  BY <1>1 DEF Bus!Nth, Nth
<1> QED BY <1>1, <1>2 DEF Bus!Only, Only

LEMMA BusBegins ==
    ASSUME BusGiven, Bus!Init
    PROVE  BusInv
<1>1. Registry
  BY DEF Bus!Init, Registry, Ordered, BusGiven
<1>2. caller = [c \in BusCallers |-> Bus!Idle]
  BY DEF Bus!Init
<1>3. Bus!Idle \in [at : {"idle", "looking", "calling", "returned", "failed"},
                    of : TopicNames, left : Seq(Subscriber),
                    called : Seq(Subscriber), down : BOOLEAN,
                    looked : Seq(Subscriber)]
  BY EmptySeq DEF Bus!Idle, TopicNames
<1>4. Bus!Idle.at = "idle" /\ Fresh(Bus!Idle)
  BY DEF Bus!Idle, Fresh
<1>5. CallersAt
  BY <1>2, <1>3, <1>4 DEF CallersAt
<1> QED BY <1>1, <1>5 DEF BusInv

(* Registration.                                                           *)
LEMMA Registering ==
    ASSUME Registry, NEW of \in TopicNames, Bus!Registered(of), bus' = bus,
           uninitialized' \in Seq(TopicNames),
           bus \in One => ~Bus!Taken(of)
    PROVE  Registry'
<1> DEFINE new == [id |-> next_id, of |-> of]
<1>1. /\ subscribers \in Seq(Subscriber) /\ next_id \in Nat
      /\ \A n \in DOMAIN subscribers : subscribers[n].id < next_id
      /\ \A n, k \in DOMAIN subscribers : n < k => subscribers[n].id < subscribers[k].id
  BY DEF Registry, Ordered
<1>2. subscribers' = Append(subscribers, new) /\ next_id' = next_id + 1
  BY DEF Bus!Registered
<1>3. new \in Subscriber /\ new.id = next_id /\ new.of = of
  BY <1>1 DEF Subscriber
<1> HIDE DEF new
<1> DEFINE m == Len(subscribers)
<1>4. m \in Nat /\ DOMAIN subscribers = 1..m
  BY <1>1, LenOf
<1>5. /\ subscribers' \in Seq(Subscriber) /\ DOMAIN subscribers' = 1..(m + 1)
      /\ \A n \in 1..m : subscribers'[n] = subscribers[n]
      /\ subscribers'[m + 1] = new
  BY <1>1, <1>2, <1>3
<1>6. \A n \in 1..m : subscribers[n].id \in Nat
  <2>1. \A n \in 1..m : subscribers[n] \in Subscriber
    BY <1>1, LenOf DEF m
  <2> QED BY <2>1 DEF Subscriber
<1>7. \A n \in 1..(m + 1) : n \in 1..m \/ n = m + 1
  BY <1>4
<1> HIDE DEF m
<1>8. ASSUME NEW n \in 1..(m + 1) PROVE subscribers'[n].id < next_id'
  <2>1. CASE n \in 1..m
    <3>1. subscribers[n].id \in Nat /\ subscribers[n].id < next_id
      BY <2>1, <1>1, <1>4, <1>6
    <3>2. subscribers'[n].id = subscribers[n].id
      BY <2>1, <1>5
    <3> QED BY <3>1, <3>2, <1>1, <1>2
  <2>2. CASE n = m + 1
    BY <2>2, <1>1, <1>2, <1>3, <1>5
  <2> QED BY <2>1, <2>2, <1>7
<1>9. ASSUME NEW n \in 1..(m + 1), NEW k \in 1..(m + 1), n < k
      PROVE  subscribers'[n].id < subscribers'[k].id
  <2>1. n \in 1..m
    BY <1>9, <1>4
  <2>2. CASE k \in 1..m
    BY <2>1, <2>2, <1>1, <1>4, <1>5, <1>9
  <2>3. CASE k = m + 1
    BY <2>1, <2>3, <1>1, <1>3, <1>4, <1>5
  <2> QED BY <2>2, <2>3, <1>7
<1>10. ASSUME bus \in One, NEW n \in 1..(m + 1), NEW k \in 1..(m + 1),
              subscribers'[n].of = subscribers'[k].of
       PROVE  n = k
  <2>1. /\ \A i, j \in 1..m : subscribers[i].of = subscribers[j].of => i = j
        /\ \A i \in 1..m : subscribers[i].of # of
    BY <1>10, <1>4 DEF Registry, Bus!Taken
  <2> QED BY <2>1, <1>3, <1>5, <1>7, <1>10
<1>11. Ordered(subscribers)'
  BY <1>5, <1>9 DEF Ordered
<1>13. \A n \in DOMAIN subscribers' : subscribers'[n].id < next_id'
  BY <1>5, <1>8
<1>14. next_id' \in Nat
  BY <1>1, <1>2
<1>12. bus' \in One => \A n, k \in DOMAIN subscribers' :
            subscribers'[n].of = subscribers'[k].of => n = k
  BY <1>5, <1>10
<1> QED BY <1>5, <1>11, <1>12, <1>13, <1>14 DEF Registry

LEMMA CallersStay ==
    ASSUME BusInv, caller' = caller, bus' = bus
    PROVE  CallersAt'
<1>1. \A c : Working(caller[c])' <=> Working(caller[c])
  BY DEF Working, Ordered
<1> QED BY <1>1 DEF BusInv, CallersAt, Fresh

LEMMA Accepting ==
    ASSUME BusInv, NEW of \in TopicNames, Bus!Accepted(of), bus' = bus,
           caller' = caller, uninitialized' \in Seq(TopicNames)
    PROVE  BusInv'
<1>1. Bus!Registered(of) /\ (bus \in One => ~Bus!Taken(of))
  BY DEF Bus!Accepted, Bus!OnListener, Bus!CommandRegistered,
         Bus!QueryRegistered, Bus!EventRegistered, Bus!IndicatorRegistered, One
<1>2. Registry'
  BY <1>1, Registering DEF BusInv
<1> QED BY <1>2, CallersStay DEF BusInv, BusGiven

(* What a call finds.                                                      *)
LEMMA OfIs ==
    ASSUME Registry, NEW topics
    PROVE  /\ Only(subscribers, Bus!Of(topics)) \in Seq(Subscriber)
           /\ Ordered(Only(subscribers, Bus!Of(topics)))
<1> DEFINE S == Bus!Of(topics)
<1>1. subscribers \in Seq(Subscriber) /\ Len(subscribers) \in Nat
      /\ DOMAIN subscribers = 1..Len(subscribers)
  BY LenOf DEF Registry
<1>2. S \subseteq 1..Len(subscribers)
  BY <1>1 DEF Bus!Of
<1> HIDE DEF S
<1>3. /\ Only(subscribers, S) \in Seq(Subscriber) /\ Cardinality(S) \in Nat
      /\ DOMAIN Only(subscribers, S) = 1..Cardinality(S)
      /\ \A r \in 1..Cardinality(S) :
            Nth(S, r) \in S /\ Only(subscribers, S)[r] = subscribers[Nth(S, r)]
  BY <1>1, <1>2, OnlyIs
<1>4. ASSUME NEW n \in 1..Cardinality(S), NEW k \in 1..Cardinality(S), n < k
      PROVE  Only(subscribers, S)[n].id < Only(subscribers, S)[k].id
  <2>1. n \in Nat /\ 1 <= n /\ k \in Nat /\ k <= Cardinality(S)
    BY <1>3
  <2>2. Nth(S, n) < Nth(S, k)
    BY <2>1, <1>1, <1>2, <1>4, NthGrows
  <2>3. Nth(S, n) \in DOMAIN subscribers /\ Nth(S, k) \in DOMAIN subscribers
    BY <1>1, <1>2, <1>3
  <2>4. subscribers[Nth(S, n)].id < subscribers[Nth(S, k)].id
    BY <2>2, <2>3 DEF Registry, Ordered
  <2> QED BY <2>4, <1>3
<1>5. Ordered(Only(subscribers, S))
  BY <1>3, <1>4 DEF Ordered
<1> QED BY <1>3, <1>5 DEF S

LEMMA OneTaken ==
    ASSUME Registry, bus \in One, NEW of, Bus!Taken(of)
    PROVE  Len(Only(subscribers, Bus!Of({of}))) = 1
<1>1. PICK n \in DOMAIN subscribers : subscribers[n].of = of
  BY DEF Bus!Taken
<1>2. \A k \in DOMAIN subscribers : subscribers[k].of = of => k = n
  BY <1>1 DEF Registry
<1>3. Bus!Of({of}) = {n}
  BY <1>1, <1>2 DEF Bus!Of
<1>4. Cardinality({n}) = 1
  BY FS_Singleton
<1>5. subscribers \in Seq(Subscriber) /\ {n} \subseteq 1..Len(subscribers)
  BY <1>1, LenOf DEF Registry
<1> QED BY <1>3, <1>4, <1>5, OnlyIs

LEMMA CallsOne ==
    ASSUME BusInv, bus' = bus, NEW c \in BusCallers,
           NEW me \in [at : {"idle", "looking", "calling", "returned", "failed"},
                       of : TopicNames, left : Seq(Subscriber),
                       called : Seq(Subscriber), down : BOOLEAN,
                       looked : Seq(Subscriber)],
           me.at \in {"idle", "looking"} => Fresh(me),
           me.at \in {"calling", "returned"} => Working(me),
           me.at = "returned" => me.left = <<>>,
           me.at = "looking" => bus \notin One,
           caller' = [caller EXCEPT ![c] = me]
    PROVE  CallersAt'
<1>1. DOMAIN caller' = BusCallers
      /\ \A d \in BusCallers : caller'[d] = IF d = c THEN me ELSE caller[d]
  BY DEF BusInv, CallersAt
<1>2. SUFFICES ASSUME NEW d \in BusCallers
      PROVE  /\ caller'[d] \in [at : {"idle", "looking", "calling", "returned", "failed"},
                                 of : TopicNames, left : Seq(Subscriber),
                                 called : Seq(Subscriber), down : BOOLEAN,
                                 looked : Seq(Subscriber)]
             /\ caller'[d].at \in {"idle", "looking"} => Fresh(caller'[d])
             /\ caller'[d].at \in {"calling", "returned"} => Working(caller[d])'
             /\ caller'[d].at = "returned" => caller'[d].left = <<>>
             /\ caller'[d].at = "looking" => bus' \notin One
  BY <1>1 DEF CallersAt, Fresh
<1>3. CASE d = c
  <2>1. caller'[d] = me
    BY <1>1, <1>3
  <2>2. me.at \in {"calling", "returned"} => Working(caller[d])'
    BY <2>1 DEF Working, Ordered
  <2> QED BY <2>1, <2>2
<1>4. CASE d # c
  <2>1. caller'[d] = caller[d]
    BY <1>1, <1>4
  <2>2. /\ caller[d] \in [at : {"idle", "looking", "calling", "returned", "failed"},
                            of : TopicNames, left : Seq(Subscriber),
                            called : Seq(Subscriber), down : BOOLEAN,
                            looked : Seq(Subscriber)]
        /\ caller[d].at \in {"idle", "looking"} => Fresh(caller[d])
        /\ caller[d].at \in {"calling", "returned"} => Working(caller[d])
        /\ caller[d].at = "returned" => caller[d].left = <<>>
        /\ caller[d].at = "looking" => bus \notin One
    BY DEF BusInv, CallersAt
  <2>3. Working(caller[d]) => Working(caller[d])'
    BY <2>1 DEF Working, Ordered
  <2> QED BY <2>1, <2>2, <2>3
<1> QED BY <1>3, <1>4

CallerStates ==
    [at : {"idle", "looking", "calling", "returned", "failed"}, of : TopicNames,
     left : Seq(Subscriber), called : Seq(Subscriber), down : BOOLEAN,
     looked : Seq(Subscriber)]

LEMMA RegistryStays ==
    ASSUME Registry, bus' = bus, subscribers' = subscribers, next_id' = next_id,
           uninitialized' = uninitialized
    PROVE  Registry'
BY DEF Registry, Ordered

(* A call that begins with what it found.                                  *)
LEMMA CallBegins ==
    ASSUME BusInv, NEW c \in BusCallers, NEW of \in TopicNames, NEW found \in Seq(Subscriber),
           caller[c].at \in {"idle", "looking"}, Ordered(found),
           bus \in One => Len(found) = 1,
           Bus!Calling(c, of, found)
    PROVE  BusInv'
<1> DEFINE me == [caller[c] EXCEPT !.at = "calling", !.of = of, !.left = found,
                                   !.looked = found]
<1>1. /\ caller' = [caller EXCEPT ![c] = me] /\ bus' = bus
      /\ subscribers' = subscribers /\ next_id' = next_id
      /\ uninitialized' = uninitialized /\ readiness' = readiness
  BY DEF Bus!Calling
<1>2. caller[c] \in CallerStates /\ Fresh(caller[c])
  BY DEF BusInv, CallersAt, CallerStates
<1>3. /\ me \in CallerStates /\ me.at = "calling" /\ me.looked = found
      /\ me.left = found /\ me.called = caller[c].called
      /\ me.down = caller[c].down
  BY <1>2 DEF CallerStates
<1> HIDE DEF me
<1>4. me.called = <<>> /\ me.down = FALSE
  BY <1>2, <1>3 DEF Fresh
<1>5. Working(me)
  <2>1. Len(found) \in Nat /\ Len(<<>>) = 0
    BY LenOf
  <2>2. <<>> \in Seq(Subscriber)
    BY EmptySeq
  <2>3. /\ Len(me.called) = 0 /\ Len(me.left) = Len(me.looked)
        /\ 0 + Len(me.looked) = Len(me.looked)
        /\ \A n \in 1..Len(me.left) : 0 + n = n
    BY <1>3, <1>4, <2>1
  <2>4. /\ \A n \in 1..Len(me.called) : me.called[n] = me.looked[n]
        /\ \A n \in 1..Len(me.left) : me.left[n] = me.looked[Len(me.called) + n]
    BY <1>3, <2>3
  <2> QED BY <1>3, <1>4, <2>2, <2>3, <2>4 DEF Working
<1>6. CallersAt'
  BY <1>1, <1>3, <1>5, CallsOne DEF CallerStates
<1>7. Registry'
  BY <1>1, RegistryStays DEF BusInv
<1> QED BY <1>6, <1>7 DEF BusInv, BusGiven

LEMMA LastOrBefore ==
    ASSUME NEW m \in Nat, NEW n \in 1..(m + 1)
    PROVE  n \in 1..m \/ n = m + 1
OBVIOUS

LEMMA HandlerRan ==
    ASSUME BusInv, NEW c \in BusCallers, NEW ok \in BOOLEAN, Bus!HandlerEnds(c, ok)
    PROVE  BusInv'
<1> DEFINE old == caller[c]
           me == [old EXCEPT
                     !.left = Tail(old.left),
                     !.called = Append(old.called, Head(old.left)),
                     !.down = old.down \/ ~ok,
                     !.at = IF ok \/ bus = "health" THEN old.at ELSE "failed"]
<1>1. /\ caller[c].at = "calling" /\ caller[c].left # <<>>
      /\ caller' = [caller EXCEPT ![c] = me] /\ bus' = bus
      /\ subscribers' = subscribers /\ next_id' = next_id
      /\ uninitialized' = uninitialized /\ readiness' = readiness
  <2>1. caller' = [caller EXCEPT ![c] = me]
    BY DEF Bus!HandlerEnds
  <2> HIDE DEF me
  <2> QED BY <2>1 DEF Bus!HandlerEnds
<1>2. old \in CallerStates /\ Working(old) /\ old.at = "calling" /\ old.left # <<>>
  BY <1>1 DEF BusInv, CallersAt, CallerStates
<1> HIDE DEF old
<1>3. /\ old.left \in Seq(Subscriber) /\ Len(old.left) \in Nat \ {0}
      /\ old.called \in Seq(Subscriber) /\ Len(old.called) \in Nat
  BY <1>2, EmptySeq, LenOf DEF CallerStates
<1>30. Len(old.left) \in Nat /\ Len(old.left) >= 1 /\ Len(old.called) \in Nat
  BY <1>3
<1>4. /\ Head(old.left) \in Subscriber /\ Head(old.left) = old.left[1]
      /\ Tail(old.left) \in Seq(Subscriber) /\ Len(Tail(old.left)) = Len(old.left) - 1
      /\ \A n \in 1..Len(Tail(old.left)) : Tail(old.left)[n] = old.left[n + 1]
  BY <1>3
<1>5. /\ Append(old.called, Head(old.left)) \in Seq(Subscriber)
      /\ Len(Append(old.called, Head(old.left))) = Len(old.called) + 1
      /\ \A n \in 1..Len(old.called) : Append(old.called, Head(old.left))[n] = old.called[n]
      /\ Append(old.called, Head(old.left))[Len(old.called) + 1] = Head(old.left)
  BY <1>3, <1>4
<1>6. /\ me \in CallerStates /\ me.looked = old.looked
      /\ me.left = Tail(old.left) /\ me.called = Append(old.called, Head(old.left))
      /\ me.down = (old.down \/ ~ok)
      /\ me.at = (IF ok \/ bus = "health" THEN old.at ELSE "failed")
  <2>1. (old.down \/ ~ok) \in BOOLEAN
    OBVIOUS
  <2> QED BY <1>2, <1>4, <1>5 DEF CallerStates
<1> HIDE DEF me
<1>7. me.at = "calling" => Working(me)
  <2> SUFFICES ASSUME me.at = "calling" PROVE Working(me)
    OBVIOUS
  <2>1. bus # "health" => ok
    BY <1>6
  <2>2. /\ me.looked \in Seq(Subscriber) /\ Ordered(me.looked)
        /\ bus \in One => Len(me.looked) = 1
        /\ me.called \in Seq(Subscriber) /\ me.left \in Seq(Subscriber)
    BY <1>2, <1>4, <1>5, <1>6 DEF Working
  <2>7. Len(old.called) + Len(old.left) = Len(old.looked)
    BY <1>2 DEF Working
  <2>8. Len(me.called) = Len(old.called) + 1 /\ Len(me.left) = Len(old.left) - 1
        /\ me.looked = old.looked
    BY <1>4, <1>5, <1>6
  <2>3. Len(me.called) + Len(me.left) = Len(me.looked) /\ Len(me.called) = Len(old.called) + 1
        /\ Len(me.left) = Len(old.left) - 1
    <3>2. (Len(old.called) + 1) + (Len(old.left) - 1) = Len(old.looked)
      <4> DEFINE a == Len(old.called)
                 b == Len(old.left)
      <4>1. a \in Nat /\ b \in Nat /\ a + b = Len(old.looked)
        BY <2>7, <1>30
      <4> HIDE DEF a, b
      <4>2. (a + 1) + (b - 1) = a + b
        BY <4>1
      <4>3. (a + 1) + (b - 1) = Len(old.looked)
        BY <4>1, <4>2
      <4> QED BY <4>3 DEF a, b
    <3> QED BY <2>8, <3>2
  <2>4. ASSUME NEW n \in 1..Len(me.called) PROVE me.called[n] = me.looked[n]
    <3>1. CASE n \in 1..Len(old.called)
      BY <3>1, <1>2, <1>5, <1>6 DEF Working
    <3>2. CASE n = Len(old.called) + 1
      <4>1. old.left[1] = old.looked[Len(old.called) + 1]
        BY <1>2, <1>3 DEF Working
      <4> QED BY <3>2, <4>1, <1>4, <1>5, <1>6
    <3> QED BY <3>1, <3>2, <2>8, <1>30, LastOrBefore
  <2>5. ASSUME NEW n \in 1..Len(me.left) PROVE me.left[n] = me.looked[Len(me.called) + n]
    <3>1. n + 1 \in 1..Len(old.left) /\ Len(old.called) + (n + 1) = Len(me.called) + n
      <4> DEFINE a == Len(old.called)
                 b == Len(old.left)
      <4>1. a \in Nat /\ b \in Nat /\ n \in 1..(b - 1) /\ Len(me.called) = a + 1
        BY <2>8, <1>30
      <4> HIDE DEF a, b
      <4>2. n + 1 \in 1..b /\ a + (n + 1) = (a + 1) + n
        BY <4>1
      <4> QED BY <4>1, <4>2 DEF a, b
    <3>2. old.left[n + 1] = old.looked[Len(old.called) + (n + 1)]
      BY <3>1, <1>2 DEF Working
    <3>3. me.left[n] = old.left[n + 1]
      BY <1>4, <1>6
    <3> QED BY <3>1, <3>2, <3>3, <1>6
  <2>6. me.down \in BOOLEAN /\ (bus # "health" => me.down = FALSE)
    BY <2>1, <1>2, <1>6 DEF Working
  <2> QED BY <2>2, <2>3, <2>4, <2>5, <2>6 DEF Working
<1>8. me.at \in {"calling", "failed"}
  BY <1>2, <1>6
<1>9. CallersAt'
  BY <1>1, <1>6, <1>7, <1>8, CallsOne DEF CallerStates, old, me
<1>10. Registry'
  BY <1>1, RegistryStays DEF BusInv
<1> QED BY <1>9, <1>10 DEF BusInv, BusGiven

Moved(me, at, of) == [me EXCEPT !.at = at, !.of = of]

LEMMA CallMoves ==
    ASSUME BusInv, NEW c \in BusCallers, NEW at, NEW of \in TopicNames,
           at = "looking" => bus \notin One,
           \/ at \in {"looking", "failed"} /\ caller[c].at = "idle"
           \/ at = "returned" /\ caller[c].at = "calling" /\ caller[c].left = <<>>,
           caller' = [caller EXCEPT ![c] = Moved(caller[c], at, of)],
           bus' = bus, subscribers' = subscribers, next_id' = next_id,
           uninitialized' = uninitialized
    PROVE  BusInv'
<1> DEFINE me == Moved(caller[c], at, of)
<1>1. caller[c] \in CallerStates
      /\ (caller[c].at = "idle" => Fresh(caller[c]))
      /\ (caller[c].at = "calling" => Working(caller[c]))
  BY DEF BusInv, CallersAt, CallerStates
<1>2. /\ me \in CallerStates /\ me.at = at
      /\ me.left = caller[c].left /\ me.called = caller[c].called
      /\ me.down = caller[c].down /\ me.looked = caller[c].looked
  BY <1>1 DEF CallerStates, Moved
<1> HIDE DEF me
<1>3. at = "looking" => Fresh(me)
  BY <1>1, <1>2 DEF Fresh
<1>4. at = "returned" => Working(me)
  BY <1>1, <1>2 DEF Working
<1>5. at \in {"looking", "failed", "returned"} /\ (at = "returned" => me.left = <<>>)
  BY <1>2
<1>8. me.at = "looking" => bus \notin One
  BY <1>2
<1>6. CallersAt'
  BY <1>2, <1>3, <1>4, <1>5, <1>8, CallsOne DEF CallerStates, me
<1>7. Registry'
  BY RegistryStays DEF BusInv
<1> QED BY <1>6, <1>7 DEF BusInv, BusGiven

LEMMA BusStep ==
    ASSUME BusInv, [Bus!Next]_BusVars
    PROVE  BusInv'
<1>0. Registry /\ BusGiven /\ CallersAt /\ Topics \subseteq TopicNames /\ Wildcard \in TopicNames
      /\ uninitialized \in Seq(TopicNames)
  BY DEF BusInv, TopicNames, Registry
<1>1. ASSUME NEW of \in TopicNames, Bus!Register(of) PROVE BusInv'
  BY <1>1, <1>0, Accepting DEF Bus!Register
<1>2. CASE Bus!Clear
  <2>1. Registry'
    BY <1>0, <1>2, EmptySeq DEF Bus!Clear, Registry, Ordered
  <2> QED BY <1>2, <2>1, CallersStay DEF BusInv, BusGiven, Bus!Clear
<1>3. CASE Bus!InitBegins \/ Bus!InitEnds
  <2>1. /\ bus' = bus /\ subscribers' = subscribers /\ next_id' = next_id
        /\ uninitialized' = uninitialized /\ caller' = caller
    BY <1>3 DEF Bus!InitBegins, Bus!InitEnds
  <2> QED BY <1>0, <2>1, RegistryStays, CallersStay DEF BusInv, BusGiven
<1>4. CASE Bus!Initializes
  <2>1. bus' = bus /\ caller' = caller /\ uninitialized # <<>>
    BY <1>4 DEF Bus!Initializes
  <2>2. CASE UNCHANGED <<subscribers, next_id, uninitialized>>
    BY <1>0, <2>1, <2>2, RegistryStays, CallersStay DEF BusInv, BusGiven
  <2>3. CASE Bus!Accepted(Head(uninitialized)) /\ uninitialized' = Tail(uninitialized)
    <3>1. Head(uninitialized) \in TopicNames /\ Tail(uninitialized) \in Seq(TopicNames)
      BY <1>0, <2>1
    <3> QED BY <3>1, <2>1, <2>3, Accepting
  <2> QED BY <1>4, <2>2, <2>3 DEF Bus!Initializes
<1>5. ASSUME NEW c \in BusCallers, NEW of \in Topics, Bus!Emit(c, of) PROVE BusInv'
  <2>1. PICK at \in {"looking", "failed"} :
          caller' = [caller EXCEPT ![c] = [@ EXCEPT !.at = at, !.of = of]]
    BY <1>5 DEF Bus!Emit
  <2>2. /\ caller[c].at = "idle" /\ bus' = bus /\ bus \notin One
        /\ subscribers' = subscribers
        /\ next_id' = next_id /\ uninitialized' = uninitialized
    BY <1>5 DEF Bus!Emit, One
  <2>3. caller' = [caller EXCEPT ![c] = Moved(caller[c], at, of)]
    BY <2>1 DEF Moved
  <2> QED BY <1>0, <2>2, <2>3, CallMoves
<1>6. ASSUME NEW c \in BusCallers, caller[c].at = "idle", NEW of, Bus!Missing(c, of)
      PROVE  BusInv'
  <2>1. caller[c] \in CallerStates
    BY <1>0 DEF CallersAt, CallerStates
  <2> DEFINE topic == caller[c].of
  <2>2. [caller[c] EXCEPT !.at = "failed"]
          = Moved(caller[c], "failed", topic)
    BY <2>1 DEF CallerStates, Moved
  <2>6. topic \in TopicNames
    BY <2>1 DEF CallerStates
  <2> HIDE DEF topic
  <2>3. /\ caller' = [caller EXCEPT ![c] = [caller[c] EXCEPT !.at = "failed"]]
        /\ bus' = bus /\ subscribers' = subscribers
        /\ next_id' = next_id /\ uninitialized' = uninitialized
    BY <1>6 DEF Bus!Missing, Bus!Goto
  <2>5. caller' = [caller EXCEPT ![c] = Moved(caller[c], "failed", topic)]
    BY <2>2, <2>3
  <2>7. /\ bus' = bus /\ subscribers' = subscribers
        /\ next_id' = next_id /\ uninitialized' = uninitialized
    BY <2>3
  <2> QED BY <1>6, <2>5, <2>6, <2>7, CallMoves
<1>7. ASSUME NEW c \in BusCallers, NEW of \in TopicNames, caller[c].at = "idle",
             bus \in One => Bus!Taken(of),
             Bus!Calling(c, of, Bus!HandlersOf(of))
      PROVE  BusInv'
  <2>1. Bus!HandlersOf(of) = Only(subscribers, Bus!Of({of}))
    BY BusSelects DEF Bus!HandlersOf
  <2> QED BY <1>0, <1>7, <2>1, OfIs, OneTaken, CallBegins
<1>8. ASSUME NEW c \in BusCallers, NEW of \in Topics,
             Bus!ExecuteCommand(c, of) \/ Bus!ExecuteQuery(c, of) \/ Bus!Publish(c, of)
      PROVE  BusInv'
  <2>1. CASE Bus!Publish(c, of)
    BY <2>1, <1>0, <1>7 DEF Bus!Publish, One
  <2>2. CASE Bus!ExecuteCommand(c, of)
    BY <2>2, <1>0, <1>6, <1>7 DEF Bus!ExecuteCommand
  <2>3. CASE Bus!ExecuteQuery(c, of)
    BY <2>3, <1>0, <1>6, <1>7 DEF Bus!ExecuteQuery
  <2> QED BY <1>8, <2>1, <2>2, <2>3
<1>9. ASSUME NEW c \in BusCallers, Bus!Looks(c) PROVE BusInv'
  <2>1. caller[c].of \in TopicNames /\ caller[c].at = "looking"
        /\ Bus!Calling(c, caller[c].of, Bus!MatchingListeners(caller[c].of))
    BY <1>0, <1>9 DEF Bus!Looks, CallersAt
  <2>2. Bus!MatchingListeners(caller[c].of)
          = Only(subscribers, Bus!Of({caller[c].of, Wildcard}))
    BY BusSelects DEF Bus!MatchingListeners
  <2>3. bus \notin One
    BY <1>0, <2>1 DEF CallersAt
  <2> QED BY <1>0, <2>1, <2>2, <2>3, OfIs, CallBegins
<1>10. ASSUME NEW c \in BusCallers, Bus!Check(c) PROVE BusInv'
  BY <1>0, <1>10, CallBegins DEF Bus!Check, Registry, One
<1>11. ASSUME NEW c \in BusCallers, Bus!Return(c) PROVE BusInv'
  <2>1. caller[c] \in CallerStates
    BY <1>0 DEF CallersAt, CallerStates
  <2> DEFINE topic == caller[c].of
  <2>2. [caller[c] EXCEPT !.at = "returned"]
          = Moved(caller[c], "returned", topic)
    BY <2>1 DEF CallerStates, Moved
  <2>6. topic \in TopicNames
    BY <2>1 DEF CallerStates
  <2> HIDE DEF topic
  <2>3. /\ caller' = [caller EXCEPT ![c] = [caller[c] EXCEPT !.at = "returned"]]
        /\ caller[c].at = "calling" /\ caller[c].left = <<>>
        /\ bus' = bus /\ subscribers' = subscribers
        /\ next_id' = next_id /\ uninitialized' = uninitialized
    BY <1>11 DEF Bus!Return, Bus!Goto
  <2>5. caller' = [caller EXCEPT ![c] =
                     Moved(caller[c], "returned", topic)]
    BY <2>2, <2>3
  <2>7. /\ caller[c].at = "calling" /\ caller[c].left = <<>>
        /\ bus' = bus /\ subscribers' = subscribers
        /\ next_id' = next_id /\ uninitialized' = uninitialized
    BY <2>3
  <2>8. /\ "returned" = "looking" => bus \notin One
        /\ \/ "returned" \in {"looking", "failed"} /\ caller[c].at = "idle"
           \/ "returned" = "returned" /\ caller[c].at = "calling" /\ caller[c].left = <<>>
    BY <2>7
  <2> QED BY <2>5, <2>6, <2>7, <2>8, CallMoves, Zenon
<1>12. CASE UNCHANGED BusVars
  <2>1. /\ bus' = bus /\ subscribers' = subscribers /\ next_id' = next_id
        /\ uninitialized' = uninitialized /\ caller' = caller
    BY <1>12 DEF BusVars
  <2> QED BY <1>0, <2>1, RegistryStays, CallersStay DEF BusInv, BusGiven
<1> QED BY <1>0, <1>1, <1>2, <1>3, <1>4, <1>5, <1>8, <1>9, <1>10, <1>11, <1>12, HandlerRan
        DEF Bus!Next, TopicNames

LEMMA BusCalls ==
    ASSUME BusInv
    PROVE  Bus!CallsWhatItFound
<1> SUFFICES ASSUME NEW c \in BusCallers, caller[c].at = "returned"
    PROVE  /\ caller[c].called = caller[c].looked
           /\ Ordered(caller[c].called)
           /\ bus \in One => Len(caller[c].called) = 1
           /\ bus # "health" => ~caller[c].down
  BY DEF Bus!CallsWhatItFound, Ordered, One
<1>1. Working(caller[c]) /\ caller[c].left = <<>>
  BY DEF BusInv, CallersAt
<1>2. Len(caller[c].called) = Len(caller[c].looked)
  <2>1. Len(caller[c].left) = 0
    BY <1>1, EmptySeq
  <2>2. Len(caller[c].called) \in Nat /\ Len(caller[c].called) + 0 = Len(caller[c].looked)
    BY <1>1, <2>1, LenOf DEF Working
  <2> QED BY <2>2
<1>3. caller[c].called = caller[c].looked
  BY <1>1, <1>2, SeqEqual DEF Working
<1> QED BY <1>1, <1>3 DEF Working

(* EventEmitter::emit_event, CommandBus and QueryBus::execute,             *)
(* EventBus::publish and HealthCheckService::check (events.rs, bus.rs,     *)
(* health.rs): a call that returns ran what it found, each once and in the *)
(* order of registration, for any callers, topics and registrations.       *)
THEOREM CallsWhatItFoundAlways ==
    ASSUME BusGiven PROVE PartsSpec => []CallsWhatItFound
<1>1. PartsInit => (part = "buses" => BusInv)
  BY BusBegins, PartsBegin
<1>2. (part = "buses" => BusInv) /\ [PartsNext]_parts => (part = "buses" => BusInv)'
  BY BusStep, PartsStep
<1>3. (part = "buses" => BusInv) => CallsWhatItFound
  BY BusCalls DEF CallsWhatItFound
<1> QED BY <1>1, <1>2, <1>3, PTL DEF PartsSpec

-----------------------------------------------------------------------------
(* Pipelines put together (Composition).                                   *)

Scope == {"execution", "global", "provider", "module", "controller",
          "protocol", "consumer", "route"}
Place == Scope \X Nat
Enhancer == [scope : Scope, n : Nat, of : Types \cup {NoValue},
             replaced : BOOLEAN]
Endpoint == [path : Paths, host : Hosts \cup {NoValue}, own : Seq(Types),
             asked : {"nothing", "on", "off"}, tags : SUBSET Hosts,
             validates : BOOLEAN, validation_disabled : BOOLEAN,
             pipeline : Seq(Enhancer)]

(* The places of what a pipeline consists of.                              *)
LEMMA PlacesAre ==
    ASSUME NEW p \in Seq(Enhancer)
    PROVE  /\ Composed!Places(p) \in Seq(Place)
           /\ Len(Composed!Places(p)) = Len(p)
           /\ \A k \in 1..Len(p) : /\ p[k] \in Enhancer
                                   /\ Composed!Places(p)[k] = <<p[k].scope, p[k].n>>
<1>1. Len(p) \in Nat /\ DOMAIN p = 1..Len(p)
  OBVIOUS
<1>2. \A k \in 1..Len(p) : p[k] \in Enhancer
  OBVIOUS
<1>3. \A k \in 1..Len(p) : <<p[k].scope, p[k].n>> \in Place
  BY <1>2 DEF Place, Enhancer
<1> QED BY <1>1, <1>2, <1>3 DEF Composed!Places

LEMMA PlacesJoin ==
    ASSUME NEW p \in Seq(Enhancer), NEW q \in Seq(Enhancer)
    PROVE  /\ p \o q \in Seq(Enhancer)
           /\ Composed!Places(p \o q)
                = Composed!Places(p) \o Composed!Places(q)
<1> DEFINE a == Len(p) b == Len(q)
<1>1. a \in Nat /\ b \in Nat
  OBVIOUS
<1>2. p \o q \in Seq(Enhancer) /\ Len(p \o q) = a + b
  OBVIOUS
<1>3. \A k \in 1..(a + b) : (p \o q)[k] = IF k <= a THEN p[k] ELSE q[k - a]
  OBVIOUS
<1> DEFINE P == Composed!Places(p) Q == Composed!Places(q)
           W == Composed!Places(p \o q)
<1>4. /\ P \in Seq(Place) /\ Len(P) = a
      /\ \A k \in 1..a : P[k] = <<p[k].scope, p[k].n>>
  BY PlacesAre
<1>5. /\ Q \in Seq(Place) /\ Len(Q) = b
      /\ \A k \in 1..b : Q[k] = <<q[k].scope, q[k].n>>
  BY PlacesAre
<1>6. /\ W \in Seq(Place) /\ Len(W) = a + b
      /\ \A k \in 1..(a + b) : W[k] = <<(p \o q)[k].scope, (p \o q)[k].n>>
  BY <1>2, PlacesAre
<1> HIDE DEF a, b, P, Q, W
<1>7. /\ P \o Q \in Seq(Place) /\ Len(P \o Q) = a + b
      /\ \A k \in 1..(a + b) :
            (P \o Q)[k] = IF k <= a THEN P[k] ELSE Q[k - a]
  BY <1>4, <1>5, ConcatProperties
<1>8. ASSUME NEW k \in 1..(a + b) PROVE W[k] = (P \o Q)[k]
  <2>1. CASE k <= a
    <3>1. k \in 1..a
      BY <1>1, <2>1
    <3> QED BY <1>3, <1>4, <1>6, <1>7, <2>1, <3>1
  <2>2. CASE ~(k <= a)
    <3>1. k - a \in 1..b
      BY <1>1, <2>2
    <3> QED BY <1>3, <1>5, <1>6, <1>7, <2>2, <3>1
  <2> QED BY <2>1, <2>2
<1>9. W = P \o Q
  BY <1>6, <1>7, <1>8, SeqEqual
<1> QED BY <1>2, <1>9 DEF P, Q, W

LEMMA EachIs ==
    ASSUME NEW s \in Scope, NEW m \in Nat
    PROVE  /\ Composed!Each(s, m) \in Seq(Place)
           /\ Len(Composed!Each(s, m)) = m
           /\ \A k \in 1..m : Composed!Each(s, m)[k] = <<s, k>>
<1>1. \A k \in 1..m : <<s, k>> \in Place
  BY DEF Place
<1> QED BY <1>1 DEF Composed!Each

(* What a scope declares next is behind the others of it.                  *)
LEMMA PlacesGrow ==
    ASSUME NEW p \in Seq(Enhancer), NEW s \in Composed!Scopes,
           NEW type \in Types,
           Composed!Places(p) = Composed!Each(s, Len(p))
    PROVE  LET e == Composed!Component(s, Len(p) + 1, type)
           IN  /\ Append(p, e) \in Seq(Enhancer)
               /\ Len(Append(p, e)) = Len(p) + 1
               /\ Composed!Places(Append(p, e))
                    = Composed!Each(s, Len(Append(p, e)))
<1> DEFINE m == Len(p)
           e == Composed!Component(s, m + 1, type)
           q == Append(p, e)
<1>1. m \in Nat /\ s \in Scope
  BY DEF Composed!Scopes, Scope
<1>2. e \in Enhancer /\ e.scope = s /\ e.n = m + 1
  BY <1>1 DEF Composed!Component, Enhancer
<1>3. /\ q \in Seq(Enhancer) /\ Len(q) = m + 1
      /\ \A k \in 1..m : q[k] = p[k]
      /\ q[m + 1] = e
  BY <1>2, AppendProperties
<1> DEFINE Q == Composed!Places(q) E == Composed!Each(s, m + 1)
<1>4. /\ Q \in Seq(Place) /\ Len(Q) = m + 1
      /\ \A k \in 1..(m + 1) : Q[k] = <<q[k].scope, q[k].n>>
  BY <1>3, PlacesAre
<1>a. m + 1 \in Nat
  BY <1>1
<1>5. /\ E \in Seq(Place) /\ Len(E) = m + 1
      /\ \A k \in 1..(m + 1) : E[k] = <<s, k>>
  BY <1>1, <1>a, EachIs
<1>b. \A k \in 1..m : Composed!Places(p)[k] = <<p[k].scope, p[k].n>>
  BY PlacesAre
<1>c. \A k \in 1..m : Composed!Each(s, m)[k] = <<s, k>>
  BY <1>1, EachIs
<1>6. \A k \in 1..m : <<p[k].scope, p[k].n>> = <<s, k>>
  BY <1>b, <1>c
<1> HIDE DEF m, e, q, Q, E
<1>7. ASSUME NEW k \in 1..(m + 1) PROVE Q[k] = E[k]
  <2>1. CASE k = m + 1
    BY <1>2, <1>3, <1>4, <1>5, <2>1
  <2>2. CASE k # m + 1
    <3>1. k \in 1..m
      BY <1>1, <2>2
    <3>2. k \in 1..(m + 1)
      OBVIOUS
    <3>3. q[k] = p[k] /\ Q[k] = <<q[k].scope, q[k].n>> /\ E[k] = <<s, k>>
      BY <1>3, <1>4, <1>5, <3>1, <3>2
    <3> QED BY <1>6, <3>1, <3>3
  <2> QED BY <2>1, <2>2
<1>8. Q = E
  BY <1>4, <1>5, <1>7, SeqEqual
<1> QED BY <1>3, <1>8 DEF m, e, q, Q, E

(* A component put behind the controller's is the last of them.            *)
LEMMA PlacesInsert ==
    ASSUME NEW p \in Seq(Enhancer), NEW m \in Nat, NEW own \in Nat,
           NEW type \in Types,
           Composed!Places(p)
             = Composed!Each("controller", m) \o Composed!Each("route", own)
    PROVE  LET e == Composed!Component("controller", m + 1, type)
               q == Composed!Inserted(p, m + 1, e)
           IN  /\ q \in Seq(Enhancer)
               /\ Composed!Places(q) = Composed!Each("controller", m + 1)
                                         \o Composed!Each("route", own)
<1> DEFINE e == Composed!Component("controller", m + 1, type)
           q == Composed!Inserted(p, m + 1, e)
           C == Composed!Each("controller", m)
           D == Composed!Each("controller", m + 1)
           R == Composed!Each("route", own)
           a == Len(p)
           P == Composed!Places(p)
           Q == Composed!Places(q)
<1>1. "controller" \in Scope /\ "route" \in Scope /\ a \in Nat
  BY DEF Scope
<1>2. e \in Enhancer /\ e.scope = "controller" /\ e.n = m + 1
  BY <1>1 DEF Composed!Component, Enhancer
<1>3. C \in Seq(Place) /\ Len(C) = m /\ \A k \in 1..m : C[k] = <<"controller", k>>
  BY <1>1, EachIs
<1>a. m + 1 \in Nat
  OBVIOUS
<1>4. /\ D \in Seq(Place) /\ Len(D) = m + 1
      /\ \A k \in 1..(m + 1) : D[k] = <<"controller", k>>
  BY <1>1, <1>a, EachIs
<1>5. R \in Seq(Place) /\ Len(R) = own /\ \A k \in 1..own : R[k] = <<"route", k>>
  BY <1>1, EachIs
<1>6. /\ P \in Seq(Place) /\ Len(P) = a
      /\ \A k \in 1..a : p[k] \in Enhancer /\ P[k] = <<p[k].scope, p[k].n>>
  BY PlacesAre
<1>7. P = C \o R
  OBVIOUS
<1> HIDE DEF C, D, R, P, e, a
<1>8. /\ a = m + own
      /\ \A k \in 1..(m + own) : P[k] = IF k <= m THEN C[k] ELSE R[k - m]
  <2>1. /\ Len(C \o R) = Len(C) + Len(R)
        /\ \A k \in 1..(Len(C) + Len(R)) :
              (C \o R)[k] = IF k <= Len(C) THEN C[k] ELSE R[k - Len(C)]
    BY <1>3, <1>5, ConcatProperties
  <2> QED BY <1>3, <1>5, <1>6, <1>7, <2>1
<1>9. /\ D \o R \in Seq(Place) /\ Len(D \o R) = (m + 1) + own
      /\ \A k \in 1..((m + 1) + own) :
            (D \o R)[k] = IF k <= m + 1 THEN D[k] ELSE R[k - (m + 1)]
  BY <1>4, <1>5, ConcatProperties
<1>10. q = [k \in 1..(a + 1) |->
              CASE k < m + 1 -> p[k] [] k = m + 1 -> e [] OTHER -> p[k - 1]]
  <2>1. (IF m + 1 <= a THEN m + 1 ELSE a + 1) = m + 1
    BY <1>1, <1>8
  <2> QED BY <2>1 DEF Composed!Inserted, a
<1>11. \A k \in 1..(a + 1) :
          /\ k <= m => q[k] = p[k] /\ k \in 1..a
          /\ k = m + 1 => q[k] = e
          /\ k > m + 1 => q[k] = p[k - 1] /\ k - 1 \in 1..a
  BY <1>1, <1>8, <1>10
<1>12. \A k \in 1..(a + 1) : q[k] \in Enhancer
  <2> TAKE k \in 1..(a + 1)
  <2>1. k <= m \/ k = m + 1 \/ k > m + 1
    BY <1>1
  <2> QED BY <1>2, <1>6, <1>11, <2>1
<1>13. q \in Seq(Enhancer) /\ Len(q) = a + 1
  <2>1. q \in [1..(a + 1) -> Enhancer] /\ a + 1 \in Nat
    BY <1>1, <1>10, <1>12
  <2> DEFINE b == a + 1
  <2> HIDE DEF q, b
  <2>2. q \in [1..b -> Enhancer] /\ b \in Nat
    BY <2>1 DEF b
  <2>3. q \in Seq(Enhancer) /\ DOMAIN q = 1..b
    BY <2>2
  <2>4. Len(q) = b
    BY <2>2, <2>3, LenOf
  <2> QED BY <2>3, <2>4 DEF b
<1>14. /\ Q \in Seq(Place) /\ Len(Q) = a + 1
       /\ \A k \in 1..(a + 1) : Q[k] = <<q[k].scope, q[k].n>>
  BY <1>13, PlacesAre
<1> HIDE DEF q, Q
<1>15. ASSUME NEW k \in 1..(a + 1) PROVE Q[k] = (D \o R)[k]
  <2>a. k \in Nat /\ 1 <= k
    BY <1>1
  <2>b. k <= m \/ k = m + 1 \/ k > m + 1
    BY <2>a
  <2>1. CASE k <= m
    <3>1. k \in 1..m /\ k \in 1..a /\ k \in 1..(m + 1)
      BY <1>11, <2>a, <2>1
    <3>2. Q[k] = P[k] /\ P[k] = C[k]
      BY <1>6, <1>8, <1>11, <1>14, <2>1, <3>1
    <3>3. (D \o R)[k] = D[k]
      BY <1>8, <1>9, <2>1, <3>1
    <3> QED BY <1>3, <1>4, <3>1, <3>2, <3>3
  <2>2. CASE k = m + 1
    <3>1. Q[k] = <<"controller", m + 1>>
      BY <1>2, <1>11, <1>14, <2>2
    <3> QED BY <1>4, <1>8, <1>9, <2>2, <3>1
  <2>3. CASE k > m + 1
    <3>1. k - 1 \in 1..a /\ ~(k - 1 <= m) /\ (k - 1) - m = k - (m + 1)
      BY <1>1, <1>11, <2>3
    <3>2. Q[k] = P[k - 1] /\ P[k - 1] = R[k - (m + 1)]
      BY <1>6, <1>8, <1>11, <1>14, <2>3, <3>1
    <3> QED BY <1>8, <1>9, <2>3, <3>1, <3>2
  <2> QED BY <2>b, <2>1, <2>2, <2>3
<1>16. Q = D \o R
  <2> DEFINE J == D \o R
             l == a + 1
  <2>1. J \in Seq(Place) /\ Len(J) = l
    BY <1>1, <1>8, <1>9
  <2>2. Q \in Seq(Place) /\ Len(Q) = l /\ \A k \in 1..l : Q[k] = J[k]
    BY <1>14, <1>15
  <2> HIDE DEF J, l
  <2>3. Q = J
    BY <2>1, <2>2, SeqEqual
  <2> QED BY <2>3 DEF J
<1> QED BY <1>13, <1>16 DEF q, Q, D, R, e

(* Overriding a component leaves it in its place.                          *)
LEMMA PlacesStay ==
    ASSUME NEW p \in Seq(Enhancer), NEW types
    PROVE  Composed!Places(Composed!Replaced(p, types)) = Composed!Places(p)
<1> DEFINE q == Composed!Replaced(p, types)
<1>1. Len(p) \in Nat /\ DOMAIN p = 1..Len(p)
  OBVIOUS
<1>2. DOMAIN q = DOMAIN p
  BY DEF Composed!Replaced
<1>3. ASSUME NEW k \in DOMAIN p
      PROVE  q[k].scope = p[k].scope /\ q[k].n = p[k].n
  <2>1. p[k] \in Enhancer
    BY <1>1
  <2> QED BY <2>1 DEF Composed!Replaced, Enhancer
<1> HIDE DEF q
<1>4. Composed!Places(q) = Composed!Places(p)
  BY <1>2, <1>3 DEF Composed!Places
<1> QED BY <1>4 DEF q

LEMMA ComposedSelects ==
    \A s, S : Composed!Only(s, S) = Only(s, S)
<1>1. \A S : Composed!Cardinality(S) = Cardinality(S)
  BY DEF Composed!Cardinality, Cardinality
<1>2. \A S, r : Composed!Nth(S, r) = Nth(S, r)
  BY <1>1 DEF Composed!Nth, Nth
<1> QED BY <1>1, <1>2 DEF Composed!Only, Only

(* A module's consumer puts into a route what it applies to the path.      *)
LEMMA PlacesConsumed ==
    ASSUME NEW path \in Paths,
           consumers \in Seq([only : SUBSET Paths, except : SUBSET Paths])
    PROVE  /\ Composed!Consumed(path) \in Seq(Enhancer)
           /\ Composed!Places(Composed!Consumed(path))
                = Composed!Only(Composed!Each("consumer", Len(consumers)),
                                Composed!ConsumedBy(path))
           /\ Composed!Places(Composed!Consumed(path)) \in Seq(Place)
<1> DEFINE m == Len(consumers)
           S == Composed!ConsumedBy(path)
           all == [n \in DOMAIN consumers |->
                     Composed!Component("consumer", n, NoValue)]
           E == Composed!Each("consumer", m)
<1>1. m \in Nat /\ DOMAIN consumers = 1..m /\ "consumer" \in Scope
  BY DEF Scope
<1>2. S \subseteq 1..m
  BY <1>1 DEF Composed!ConsumedBy
<1>3. \A n \in 1..m : /\ Composed!Component("consumer", n, NoValue) \in Enhancer
                      /\ Composed!Component("consumer", n, NoValue).scope = "consumer"
                      /\ Composed!Component("consumer", n, NoValue).n = n
  BY <1>1 DEF Composed!Component, Enhancer
<1>4. /\ all \in Seq(Enhancer) /\ Len(all) = m
      /\ \A n \in 1..m : all[n].scope = "consumer" /\ all[n].n = n
  BY <1>1, <1>3
<1>5. E \in Seq(Place) /\ Len(E) = m /\ \A n \in 1..m : E[n] = <<"consumer", n>>
  BY <1>1, EachIs
<1> HIDE DEF S, all, E, m
<1> DEFINE p == Only(all, S) e == Only(E, S) c == Cardinality(S)
<1>6. /\ p \in Seq(Enhancer) /\ Len(p) = c /\ c \in Nat
      /\ \A r \in 1..c : Nth(S, r) \in S /\ p[r] = all[Nth(S, r)]
  <2>1. S \subseteq 1..Len(all)
    BY <1>2, <1>4
  <2>2. all \in Seq(Enhancer)
    BY <1>4
  <2> QED BY <2>1, <2>2, OnlyIs
<1>7. /\ e \in Seq(Place) /\ Len(e) = c
      /\ \A r \in 1..c : e[r] = E[Nth(S, r)]
  <2>1. S \subseteq 1..Len(E)
    BY <1>2, <1>5
  <2>2. E \in Seq(Place)
    BY <1>5
  <2> QED BY <2>1, <2>2, OnlyIs
<1> DEFINE P == Composed!Places(p)
<1> HIDE DEF p, e, c, m
<1>8. /\ P \in Seq(Place) /\ Len(P) = c
      /\ \A r \in 1..c : P[r] = <<p[r].scope, p[r].n>>
  BY <1>6, PlacesAre
<1> HIDE DEF P
<1>9. \A r \in 1..c : P[r] = e[r]
  <2> TAKE r \in 1..c
  <2> DEFINE n == Nth(S, r)
  <2>1. n \in 1..m /\ p[r] = all[n] /\ e[r] = E[n]
    BY <1>2, <1>6, <1>7
  <2> HIDE DEF n
  <2>2. p[r].scope = "consumer" /\ p[r].n = n /\ e[r] = <<"consumer", n>>
    BY <1>4, <1>5, <2>1
  <2> QED BY <1>8, <2>2
<1>10. P = e
  BY <1>6, <1>7, <1>8, <1>9, SeqEqual
<1>11. Composed!Consumed(path) = p /\ e = Composed!Only(E, S)
  <2>1. S = {n \in DOMAIN consumers :
               /\ consumers[n].only = {} \/ path \in consumers[n].only
               /\ path \notin consumers[n].except}
    BY DEF S, Composed!ConsumedBy
  <2>2. Composed!Consumed(path) = Composed!Only(all, S)
    BY <2>1 DEF all, Composed!Consumed
  <2> QED BY <2>2, ComposedSelects DEF p, e
<1> QED BY <1>6, <1>8, <1>10, <1>11 DEF P, E, S, m

(* What the builders keep: every scope's components have the places in     *)
(* which they were declared, and a route, whenever it was added, has what  *)
(* its controller was given so far, before its own.                        *)
Owner == [host : Hosts \cup {NoValue}, tags : SUBSET Hosts, validates : BOOLEAN]
Applied == [only : SUBSET Paths, except : SUBSET Paths]

InPlace(l) ==
    /\ l \in [Composed!Scopes -> Seq(Enhancer)]
    /\ \A s \in Composed!Scopes :
          Composed!Places(l[s]) = Composed!Each(s, Len(l[s]))

(* A route whose controller has m components and declares c.               *)
Follows(x, m, c) ==
    /\ Composed!Places(x.pipeline)
         = Composed!Each("controller", m) \o Composed!Each("route", Len(x.own))
    /\ (x.validates <=> (x.asked # "off" /\ (x.asked = "on" \/ c.validates)))
    /\ (x.validation_disabled <=> x.asked = "off")
    /\ c.tags \subseteq x.tags
    /\ x.host = NoValue => c.host = NoValue

AllFollow(e, m, c) ==
    /\ e \in Seq(Endpoint)
    /\ \A r \in 1..Len(e) : Follows(e[r], m, c)

BuilderInv ==
    /\ family \in {"middleware", "component"} /\ validation \in BOOLEAN
    /\ InPlace(enhancers)
    /\ consumers \in Seq(Applied)
    /\ controller \in Owner
    /\ AllFollow(endpoints, Len(enhancers["controller"]), controller)
    /\ Composed!ScopesNest /\ Composed!DefaultsReach

LEMMA ScopesAre ==
    /\ Composed!Scopes \subseteq Scope
    /\ "controller" \in Composed!Scopes /\ "global" \in Composed!Scopes
    /\ "provider" \in Composed!Scopes /\ "module" \in Composed!Scopes
    /\ "execution" \in Composed!Scopes /\ "protocol" \in Composed!Scopes
    /\ "consumer" \in Scope /\ "route" \in Scope
BY DEF Composed!Scopes, Scope

LEMMA InPlaceIs ==
    ASSUME NEW l, InPlace(l), NEW s \in Composed!Scopes
    PROVE  /\ l[s] \in Seq(Enhancer) /\ Len(l[s]) \in Nat
           /\ Composed!Places(l[s]) = Composed!Each(s, Len(l[s]))
           /\ Composed!Each(s, Len(l[s])) \in Seq(Place)
<1>1. l[s] \in Seq(Enhancer)
  BY DEF InPlace
<1>2. Len(l[s]) \in Nat
  BY <1>1
<1>3. Composed!Each(s, Len(l[s])) \in Seq(Place)
  BY <1>2, ScopesAre, EachIs
<1> QED BY <1>1, <1>2, <1>3 DEF InPlace

LEMMA PrefixedIs ==
    ASSUME NEW x \in Endpoint, NEW p \in Seq(Enhancer), NEW v \in BOOLEAN
    PROVE  LET y == Composed!Prefixed(x, p, v)
           IN  /\ y \in Endpoint
               /\ y.pipeline = p \o x.pipeline
               /\ (y.validates <=> (x.validates \/ (v /\ ~x.validation_disabled)))
               /\ y.path = x.path /\ y.host = x.host /\ y.own = x.own
               /\ y.asked = x.asked /\ y.tags = x.tags
               /\ y.validation_disabled = x.validation_disabled
<1>1. x.pipeline \in Seq(Enhancer) /\ p \o x.pipeline \in Seq(Enhancer)
  BY PlacesJoin DEF Endpoint
<1> DEFINE j == p \o x.pipeline
<1>2. Composed!Prefixed(x, p, v)
        = [x EXCEPT !.pipeline = j,
                    !.validates = x.validates \/ (v /\ ~x.validation_disabled)]
  BY DEF Composed!Prefixed, Endpoint
<1>3. x.validates \/ (v /\ ~x.validation_disabled) \in BOOLEAN
  OBVIOUS
<1> HIDE DEF j
<1> DEFINE y == [x EXCEPT !.pipeline = j,
                    !.validates = x.validates \/ (v /\ ~x.validation_disabled)]
<1>4. /\ y \in Endpoint
      /\ y.pipeline = j
      /\ y.validates = (x.validates \/ (v /\ ~x.validation_disabled))
      /\ y.path = x.path /\ y.host = x.host /\ y.own = x.own
      /\ y.asked = x.asked /\ y.tags = x.tags
      /\ y.validation_disabled = x.validation_disabled
  BY <1>1 DEF Endpoint, j
<1> QED BY <1>2, <1>4 DEF j

(* Each call of a builder.                                                 *)
LEMMA NothingBuilt ==
    ASSUME composed' = NoValue
    PROVE  Composed!ScopesNest' /\ Composed!DefaultsReach'
BY DEF Composed!ScopesNest, Composed!DefaultsReach

LEMMA UseFollows ==
    ASSUME BuilderInv, NEW scope \in Composed!Scopes, NEW type \in Types,
           Composed!Use(scope, type)
    PROVE  BuilderInv'
<1> DEFINE into == IF scope = "execution" THEN {scope, "global"} ELSE {scope}
           e(s) == Composed!Component(s, Len(enhancers[s]) + 1, type)
<1>1. /\ enhancers' = [s \in Composed!Scopes |->
            IF s \notin into THEN enhancers[s] ELSE Append(enhancers[s], e(s))]
      /\ scope # "controller"
      /\ UNCHANGED <<family, consumers, controller, endpoints, validation,
                     composed>>
      /\ composed = NoValue
  BY DEF Composed!Use, Composed!Calls
<1>2. ASSUME NEW s \in Composed!Scopes
      PROVE  /\ enhancers'[s] \in Seq(Enhancer)
             /\ Composed!Places(enhancers'[s])
                  = Composed!Each(s, Len(enhancers'[s]))
  <2>1. InPlace(enhancers)
    BY DEF BuilderInv
  <2>2. CASE s \notin into
    <3>1. enhancers'[s] = enhancers[s]
      BY <1>1, <2>2
    <3> QED BY <2>1, <3>1, InPlaceIs
  <2>3. CASE s \in into
    <3>1. enhancers'[s] = Append(enhancers[s], e(s))
      BY <1>1, <2>3
    <3> QED BY <2>1, <3>1, InPlaceIs, PlacesGrow
  <2> QED BY <2>2, <2>3
<1>3. InPlace(enhancers')
  BY <1>1, <1>2 DEF InPlace
<1>4. enhancers'["controller"] = enhancers["controller"]
  BY <1>1 DEF Composed!Scopes
<1>5. Composed!ScopesNest' /\ Composed!DefaultsReach'
  BY <1>1, NothingBuilt
<1> QED BY <1>1, <1>3, <1>4, <1>5 DEF BuilderInv

LEMMA OthersFollow ==
    ASSUME BuilderInv,
           \/ \E only, except \in SUBSET Paths : Composed!Apply(only, except)
           \/ \E type \in Types : Composed!Override(type)
           \/ Composed!UseGlobalValidation
    PROVE  BuilderInv'
<1>1. /\ UNCHANGED <<family, enhancers, controller, endpoints, composed>>
      /\ composed = NoValue
  BY DEF Composed!Apply, Composed!Override, Composed!UseGlobalValidation,
     Composed!Calls
<1>2. consumers' \in Seq(Applied) /\ validation' \in BOOLEAN
  <2>1. CASE \E only, except \in SUBSET Paths : Composed!Apply(only, except)
    <3>1. PICK only, except \in SUBSET Paths : Composed!Apply(only, except)
      BY <2>1
    <3>2. [only |-> only, except |-> except] \in Applied
      BY DEF Applied
    <3>3. /\ consumers' = Append(consumers, [only |-> only, except |-> except])
          /\ validation' = validation
      BY <3>1 DEF Composed!Apply
    <3> QED BY <3>2, <3>3, AppendProperties DEF BuilderInv
  <2>2. CASE \E type \in Types : Composed!Override(type)
    BY <2>2 DEF BuilderInv, Composed!Override
  <2>3. CASE Composed!UseGlobalValidation
    BY <2>3 DEF BuilderInv, Composed!UseGlobalValidation
  <2> QED BY <2>1, <2>2, <2>3
<1>3. Composed!ScopesNest' /\ Composed!DefaultsReach'
  BY <1>1, NothingBuilt
<1> QED BY <1>1, <1>2, <1>3 DEF BuilderInv

LEMMA AllFollowIs ==
    ASSUME NEW m, NEW c, NEW n \in Nat, NEW e,
           e = [r \in 1..n |-> e[r]],
           \A r \in 1..n : e[r] \in Endpoint /\ Follows(e[r], m, c)
    PROVE  AllFollow(e, m, c)
<1>1. e \in [1..n -> Endpoint]
  OBVIOUS
<1>2. e \in Seq(Endpoint) /\ Len(e) = n
  BY <1>1
<1> QED BY <1>2 DEF AllFollow

LEMMA EndpointIs ==
    ASSUME BuilderInv
    PROVE  /\ Len(endpoints) \in Nat /\ DOMAIN endpoints = 1..Len(endpoints)
           /\ \A r \in 1..Len(endpoints) :
                 /\ endpoints[r] \in Endpoint
                 /\ Follows(endpoints[r], Len(enhancers["controller"]), controller)
           /\ Len(enhancers["controller"]) \in Nat
           /\ enhancers["controller"] \in Seq(Enhancer)
           /\ controller \in Owner
<1>1. endpoints \in Seq(Endpoint)
  BY DEF BuilderInv, AllFollow
<1>2. /\ Len(enhancers["controller"]) \in Nat
      /\ enhancers["controller"] \in Seq(Enhancer)
  BY ScopesAre, InPlaceIs DEF BuilderInv
<1>3. \A r \in 1..Len(endpoints) :
         Follows(endpoints[r], Len(enhancers["controller"]), controller)
  BY DEF BuilderInv, AllFollow
<1>4. controller \in Owner
  BY DEF BuilderInv
<1> QED BY <1>1, <1>2, <1>3, <1>4, LenOf

LEMMA ControllerUsesFollows ==
    ASSUME BuilderInv, NEW type \in Types, Composed!ControllerUses(type)
    PROVE  BuilderInv'
<1> DEFINE m == Len(enhancers["controller"])
           e == Composed!Component("controller", m + 1, type)
           n == Len(endpoints)
<1>1. /\ enhancers' = [enhancers EXCEPT !["controller"] =
                          Append(enhancers["controller"], e)]
      /\ endpoints' = [r \in DOMAIN endpoints |->
            [endpoints[r] EXCEPT !.pipeline =
                Composed!Inserted(endpoints[r].pipeline, m + 1, e)]]
      /\ UNCHANGED <<family, consumers, controller, validation, composed>>
      /\ composed = NoValue
  BY DEF Composed!ControllerUses, Composed!Calls
<1>2. /\ n \in Nat /\ DOMAIN endpoints = 1..n /\ m \in Nat
      /\ \A r \in 1..n : /\ endpoints[r] \in Endpoint
                         /\ Follows(endpoints[r], m, controller)
  BY EndpointIs
<1>3. /\ Append(enhancers["controller"], e) \in Seq(Enhancer)
      /\ Len(Append(enhancers["controller"], e)) = m + 1
      /\ Composed!Places(Append(enhancers["controller"], e))
           = Composed!Each("controller", Len(Append(enhancers["controller"], e)))
  BY ScopesAre, InPlaceIs, PlacesGrow DEF BuilderInv
<1>4. InPlace(enhancers)
  BY DEF BuilderInv
<1>5. InPlace(enhancers') /\ Len(enhancers'["controller"]) = m + 1
  <2>1. enhancers'["controller"] = Append(enhancers["controller"], e)
    BY <1>1, <1>4, ScopesAre DEF InPlace
  <2>2. \A s \in Composed!Scopes :
           s # "controller" => enhancers'[s] = enhancers[s]
    BY <1>1, <1>4 DEF InPlace
  <2>3. enhancers' \in [Composed!Scopes -> Seq(Enhancer)]
    BY <1>1, <1>3, <1>4 DEF InPlace
  <2> HIDE DEF e, m
  <2>4. ASSUME NEW s \in Composed!Scopes
        PROVE  Composed!Places(enhancers'[s])
                 = Composed!Each(s, Len(enhancers'[s]))
    BY <1>3, <1>4, <2>1, <2>2 DEF InPlace
  <2> QED BY <1>3, <2>1, <2>3, <2>4 DEF InPlace
<1> HIDE DEF m, n, e
<1>6. ASSUME NEW r \in 1..n
      PROVE  /\ endpoints'[r] \in Endpoint
             /\ Follows(endpoints'[r], m + 1, controller)
  <2> DEFINE x == endpoints[r]
             q == Composed!Inserted(x.pipeline, m + 1, e)
             y == [x EXCEPT !.pipeline = q]
  <2>1. endpoints'[r] = y /\ x \in Endpoint /\ Follows(x, m, controller)
    BY <1>1, <1>2
  <2> HIDE DEF x
  <2>2. /\ x.pipeline \in Seq(Enhancer) /\ x.own \in Seq(Types)
        /\ Len(x.own) \in Nat
    BY <2>1 DEF Endpoint
  <2>3. Composed!Places(x.pipeline)
          = Composed!Each("controller", m) \o Composed!Each("route", Len(x.own))
    BY <2>1 DEF Follows
  <2>4. /\ q \in Seq(Enhancer)
        /\ Composed!Places(q) = Composed!Each("controller", m + 1)
                                  \o Composed!Each("route", Len(x.own))
    BY <1>2, <2>2, <2>3, PlacesInsert DEF e
  <2> HIDE DEF q
  <2>5. /\ y \in Endpoint /\ y.pipeline = q
        /\ y.validates = x.validates /\ y.asked = x.asked
        /\ y.validation_disabled = x.validation_disabled
        /\ y.own = x.own /\ y.tags = x.tags /\ y.host = x.host
    BY <2>1, <2>4 DEF Endpoint
  <2> HIDE DEF y
  <2>6. Follows(y, m + 1, controller)
    BY <2>1, <2>4, <2>5 DEF Follows
  <2> QED BY <2>1, <2>5, <2>6
<1>7. endpoints' = [r \in 1..n |-> endpoints'[r]]
  BY <1>1, <1>2
<1>8. AllFollow(endpoints', m + 1, controller)
  BY <1>2, <1>6, <1>7, AllFollowIs
<1>9. Composed!ScopesNest' /\ Composed!DefaultsReach'
  BY <1>1, NothingBuilt
<1> QED BY <1>1, <1>5, <1>8, <1>9 DEF BuilderInv

(* What changes the controller changes its routes, and nothing else.       *)
LEMMA DeclaringFollows ==
    ASSUME BuilderInv,
           UNCHANGED <<family, enhancers, consumers, validation, composed>>,
           composed = NoValue, controller' \in Owner,
           endpoints' = [r \in DOMAIN endpoints |-> endpoints'[r]],
           \A r \in DOMAIN endpoints :
              /\ endpoints'[r] \in Endpoint
              /\ endpoints'[r].pipeline = endpoints[r].pipeline
              /\ endpoints'[r].own = endpoints[r].own
              /\ endpoints'[r].asked = endpoints[r].asked
              /\ endpoints'[r].validation_disabled
                   = endpoints[r].validation_disabled
              /\ (endpoints'[r].validates <=>
                    (endpoints[r].asked # "off"
                     /\ (endpoints[r].asked = "on" \/ controller'.validates)))
              /\ controller'.tags \subseteq endpoints'[r].tags
              /\ endpoints'[r].host = NoValue => controller'.host = NoValue
    PROVE  BuilderInv'
<1> DEFINE m == Len(enhancers["controller"])
           n == Len(endpoints)
<1>1. /\ n \in Nat /\ DOMAIN endpoints = 1..n
      /\ \A r \in 1..n : Follows(endpoints[r], m, controller)
  BY EndpointIs
<1> HIDE DEF m, n
<1>2. ASSUME NEW r \in 1..n
      PROVE  endpoints'[r] \in Endpoint /\ Follows(endpoints'[r], m, controller')
  BY <1>1 DEF Follows
<1>3. endpoints' = [r \in 1..n |-> endpoints'[r]]
  BY <1>1
<1>4. AllFollow(endpoints', m, controller')
  BY <1>1, <1>2, <1>3, AllFollowIs
<1>5. Composed!ScopesNest' /\ Composed!DefaultsReach'
  BY NothingBuilt
<1> QED BY <1>4, <1>5 DEF BuilderInv, m

LEMMA DeclarationsFollow ==
    ASSUME BuilderInv,
           \/ \E host \in Hosts : Composed!WithHost(host) \/ Composed!WithTag(host)
           \/ Composed!WithoutHost
           \/ Composed!ControllerValidates
    PROVE  BuilderInv'
<1> DEFINE n == Len(endpoints) m == Len(enhancers["controller"])
<1>1. /\ n \in Nat /\ DOMAIN endpoints = 1..n
      /\ \A r \in 1..n : endpoints[r] \in Endpoint
      /\ \A r \in 1..n : Follows(endpoints[r], m, controller)
      /\ controller \in Owner
  BY EndpointIs
<1> HIDE DEF n, m
<1>2. ASSUME NEW host \in Hosts, Composed!WithHost(host) PROVE BuilderInv'
  <2>1. /\ controller' = [controller EXCEPT !.host = host]
        /\ endpoints' = [r \in DOMAIN endpoints |->
              [endpoints[r] EXCEPT !.host =
                 IF endpoints[r].host = NoValue THEN host ELSE endpoints[r].host]]
        /\ UNCHANGED <<family, enhancers, consumers, validation, composed>>
        /\ composed = NoValue
    BY <1>2 DEF Composed!WithHost, Composed!Calls
  <2>2. /\ controller' \in Owner /\ controller'.host = host
        /\ controller'.tags = controller.tags
        /\ controller'.validates = controller.validates
    BY <1>1, <2>1 DEF Owner
  <2>3. ASSUME NEW r \in DOMAIN endpoints
        PROVE /\ endpoints'[r] \in Endpoint
              /\ endpoints'[r].pipeline = endpoints[r].pipeline
              /\ endpoints'[r].own = endpoints[r].own
              /\ endpoints'[r].asked = endpoints[r].asked
              /\ endpoints'[r].validation_disabled
                   = endpoints[r].validation_disabled
              /\ endpoints'[r].validates = endpoints[r].validates
              /\ endpoints'[r].tags = endpoints[r].tags
              /\ endpoints'[r].host = NoValue => host = NoValue
    BY <1>1, <2>1 DEF Endpoint
  <2>4. endpoints' = [r \in DOMAIN endpoints |-> endpoints'[r]]
    BY <2>1
  <2>5. \A r \in DOMAIN endpoints :
           /\ (endpoints[r].validates <=>
                 (endpoints[r].asked # "off"
                  /\ (endpoints[r].asked = "on" \/ controller.validates)))
           /\ controller.tags \subseteq endpoints[r].tags
    BY <1>1 DEF Follows
  <2> QED BY <2>1, <2>2, <2>3, <2>4, <2>5, DeclaringFollows
<1>3. ASSUME NEW tag \in Hosts, Composed!WithTag(tag) PROVE BuilderInv'
  <2>1. /\ controller' = [controller EXCEPT !.tags = controller.tags \cup {tag}]
        /\ endpoints' = [r \in DOMAIN endpoints |->
              [endpoints[r] EXCEPT !.tags = endpoints[r].tags \cup {tag}]]
        /\ UNCHANGED <<family, enhancers, consumers, validation, composed>>
        /\ composed = NoValue
    BY <1>3 DEF Composed!WithTag, Composed!Calls
  <2>2. /\ controller' \in Owner /\ controller'.host = controller.host
        /\ controller'.tags = controller.tags \cup {tag}
        /\ controller'.validates = controller.validates
    BY <1>1, <2>1 DEF Owner
  <2>3. ASSUME NEW r \in DOMAIN endpoints
        PROVE /\ endpoints'[r] \in Endpoint
              /\ endpoints'[r].pipeline = endpoints[r].pipeline
              /\ endpoints'[r].own = endpoints[r].own
              /\ endpoints'[r].asked = endpoints[r].asked
              /\ endpoints'[r].validation_disabled
                   = endpoints[r].validation_disabled
              /\ endpoints'[r].validates = endpoints[r].validates
              /\ endpoints'[r].tags = endpoints[r].tags \cup {tag}
              /\ endpoints'[r].host = endpoints[r].host
    BY <1>1, <2>1 DEF Endpoint
  <2>4. endpoints' = [r \in DOMAIN endpoints |-> endpoints'[r]]
    BY <2>1
  <2>5. \A r \in DOMAIN endpoints :
           /\ (endpoints[r].validates <=>
                 (endpoints[r].asked # "off"
                  /\ (endpoints[r].asked = "on" \/ controller.validates)))
           /\ controller.tags \subseteq endpoints[r].tags
           /\ endpoints[r].host = NoValue => controller.host = NoValue
    BY <1>1 DEF Follows
  <2> QED BY <2>1, <2>2, <2>3, <2>4, <2>5, DeclaringFollows
<1>4. ASSUME Composed!WithoutHost PROVE BuilderInv'
  <2>1. /\ controller' = [controller EXCEPT !.host = NoValue]
        /\ endpoints' = [r \in DOMAIN endpoints |->
              [endpoints[r] EXCEPT !.host = NoValue]]
        /\ UNCHANGED <<family, enhancers, consumers, validation, composed>>
        /\ composed = NoValue
    BY <1>4 DEF Composed!WithoutHost, Composed!Calls
  <2>2. /\ controller' \in Owner /\ controller'.host = NoValue
        /\ controller'.tags = controller.tags
        /\ controller'.validates = controller.validates
    BY <1>1, <2>1 DEF Owner
  <2>3. ASSUME NEW r \in DOMAIN endpoints
        PROVE /\ endpoints'[r] \in Endpoint
              /\ endpoints'[r].pipeline = endpoints[r].pipeline
              /\ endpoints'[r].own = endpoints[r].own
              /\ endpoints'[r].asked = endpoints[r].asked
              /\ endpoints'[r].validation_disabled
                   = endpoints[r].validation_disabled
              /\ endpoints'[r].validates = endpoints[r].validates
              /\ endpoints'[r].tags = endpoints[r].tags
    BY <1>1, <2>1 DEF Endpoint
  <2>4. endpoints' = [r \in DOMAIN endpoints |-> endpoints'[r]]
    BY <2>1
  <2>5. \A r \in DOMAIN endpoints :
           /\ (endpoints[r].validates <=>
                 (endpoints[r].asked # "off"
                  /\ (endpoints[r].asked = "on" \/ controller.validates)))
           /\ controller.tags \subseteq endpoints[r].tags
    BY <1>1 DEF Follows
  <2> QED BY <2>1, <2>2, <2>3, <2>4, <2>5, DeclaringFollows
<1>5. ASSUME Composed!ControllerValidates PROVE BuilderInv'
  <2>1. /\ controller' = [controller EXCEPT !.validates = TRUE]
        /\ endpoints' = [r \in DOMAIN endpoints |->
              Composed!Prefixed(endpoints[r], <<>>, TRUE)]
        /\ UNCHANGED <<family, enhancers, consumers, validation, composed>>
        /\ composed = NoValue
    BY <1>5 DEF Composed!ControllerValidates, Composed!Calls
  <2>2. /\ controller' \in Owner /\ controller'.host = controller.host
        /\ controller'.tags = controller.tags
        /\ controller'.validates = TRUE
    BY <1>1, <2>1 DEF Owner
  <2>3. ASSUME NEW r \in DOMAIN endpoints
        PROVE /\ endpoints'[r] \in Endpoint
              /\ endpoints'[r].pipeline = endpoints[r].pipeline
              /\ endpoints'[r].own = endpoints[r].own
              /\ endpoints'[r].asked = endpoints[r].asked
              /\ endpoints'[r].validation_disabled
                   = endpoints[r].validation_disabled
              /\ (endpoints'[r].validates <=>
                   (endpoints[r].validates \/ ~endpoints[r].validation_disabled))
              /\ endpoints'[r].tags = endpoints[r].tags
              /\ endpoints'[r].host = endpoints[r].host
    <3> DEFINE x == endpoints[r]
    <3>1. x \in Endpoint /\ endpoints'[r] = Composed!Prefixed(x, <<>>, TRUE)
      BY <1>1, <2>1
    <3> HIDE DEF x
    <3>2. x.pipeline \in Seq(Enhancer) /\ <<>> \in Seq(Enhancer)
      BY <3>1 DEF Endpoint
    <3>3. <<>> \o x.pipeline = x.pipeline
      BY <3>2
    <3> DEFINE y == Composed!Prefixed(x, <<>>, TRUE)
    <3>4. /\ y \in Endpoint
          /\ y.pipeline = <<>> \o x.pipeline
          /\ (y.validates <=>
                (x.validates \/ (TRUE /\ ~x.validation_disabled)))
          /\ y.path = x.path /\ y.host = x.host /\ y.own = x.own
          /\ y.asked = x.asked /\ y.tags = x.tags
          /\ y.validation_disabled = x.validation_disabled
      BY <3>1, <3>2, PrefixedIs
    <3> HIDE DEF y
    <3>5. endpoints'[r] = y
      BY <3>1 DEF y
    <3> QED BY <3>3, <3>4, <3>5 DEF x
  <2>4. endpoints' = [r \in DOMAIN endpoints |-> endpoints'[r]]
    BY <2>1
  <2>5. \A r \in DOMAIN endpoints :
           /\ (endpoints[r].validates <=>
                 (endpoints[r].asked # "off"
                  /\ (endpoints[r].asked = "on" \/ controller.validates)))
           /\ (endpoints[r].validation_disabled <=> endpoints[r].asked = "off")
           /\ controller.tags \subseteq endpoints[r].tags
           /\ endpoints[r].host = NoValue => controller.host = NoValue
    BY <1>1 DEF Follows
  <2> QED BY <2>1, <2>2, <2>3, <2>4, <2>5, DeclaringFollows
<1> QED BY <1>2, <1>3, <1>4, <1>5

LEMMA RouteFollows ==
    ASSUME BuilderInv, NEW path \in Paths, NEW host \in Hosts \cup {NoValue},
           NEW asks \in {"nothing", "on", "off"},
           NEW k \in Nat, NEW own \in [1..k -> Types],
           Composed!Route(path, host, own, asks)
    PROVE  BuilderInv'
<1> DEFINE m == Len(enhancers["controller"])
           n == Len(endpoints)
           p == [i \in DOMAIN own |-> Composed!Component("route", i, own[i])]
           h == IF host = NoValue THEN controller.host ELSE host
           route == [path |-> path, host |-> host, own |-> own,
                     asked |-> asks, tags |-> {}, validates |-> asks = "on",
                     validation_disabled |-> asks = "off", pipeline |-> p]
           x == [route EXCEPT !.host = h, !.tags = controller.tags]
           c == enhancers["controller"]
           v == controller.validates
           y == Composed!Prefixed(x, c, v)
           E == Composed!Each("route", k)
<1>1. /\ n \in Nat /\ m \in Nat
      /\ enhancers["controller"] \in Seq(Enhancer)
      /\ endpoints \in Seq(Endpoint)
      /\ \A r \in 1..n : Follows(endpoints[r], m, controller)
      /\ controller \in Owner
  BY EndpointIs DEF BuilderInv, AllFollow
<1>2. /\ Composed!Places(enhancers["controller"]) = Composed!Each("controller", m)
  BY ScopesAre, InPlaceIs DEF BuilderInv
<1>3. /\ endpoints' = Append(endpoints, y)
      /\ UNCHANGED <<family, enhancers, consumers, controller, validation,
                     composed>>
      /\ composed = NoValue
  <2> DEFINE hosted == [route EXCEPT !.host = IF @ = NoValue
                                              THEN controller.host ELSE @,
                                     !.tags = controller.tags]
  <2>1. /\ endpoints' = Append(endpoints, Composed!Prefixed(hosted, c, v))
        /\ UNCHANGED <<family, enhancers, consumers, controller, validation,
                       composed>>
        /\ composed = NoValue
    BY DEF Composed!Route, Composed!Calls
  <2>2. hosted = x
    OBVIOUS
  <2> HIDE DEF hosted, x
  <2> QED BY <2>1, <2>2
<1>4. own \in Seq(Types) /\ Len(own) = k /\ DOMAIN own = 1..k
  OBVIOUS
<1>5. \A i \in 1..k : /\ Composed!Component("route", i, own[i]) \in Enhancer
                      /\ Composed!Component("route", i, own[i]).scope = "route"
                      /\ Composed!Component("route", i, own[i]).n = i
  BY ScopesAre DEF Composed!Component, Enhancer
<1>6. p \in Seq(Enhancer) /\ Len(p) = k /\ \A i \in 1..k : p[i].scope = "route" /\ p[i].n = i
  BY <1>4, <1>5
<1>7. E \in Seq(Place) /\ Len(E) = k /\ \A i \in 1..k : E[i] = <<"route", i>>
  BY ScopesAre, EachIs
<1> HIDE DEF p, E, n, m
<1>8. Composed!Places(p) = E
  <2>1. /\ Composed!Places(p) \in Seq(Place) /\ Len(Composed!Places(p)) = k
        /\ \A i \in 1..k : Composed!Places(p)[i] = <<p[i].scope, p[i].n>>
    BY <1>6, PlacesAre
  <2>2. \A i \in 1..k : Composed!Places(p)[i] = E[i]
    BY <1>6, <1>7, <2>1
  <2> QED BY <1>7, <2>1, <2>2, SeqEqual
<1>9. /\ x \in Endpoint
      /\ x.pipeline = p /\ x.own = own /\ x.asked = asks
      /\ (x.validates <=> asks = "on")
      /\ (x.validation_disabled <=> asks = "off")
      /\ x.tags = controller.tags
      /\ x.host = NoValue => controller.host = NoValue
  BY <1>1, <1>4, <1>6 DEF Endpoint, Owner
<1>10. controller.validates \in BOOLEAN
  BY <1>1 DEF Owner
<1>a. c \in Seq(Enhancer) /\ v \in BOOLEAN
      /\ Composed!Places(c) = Composed!Each("controller", m)
  BY <1>1, <1>2, <1>10
<1> HIDE DEF x, h, c, v
<1>11. /\ y \in Endpoint
       /\ y.pipeline = c \o x.pipeline
       /\ (y.validates <=> (x.validates \/ (v /\ ~x.validation_disabled)))
       /\ y.path = x.path /\ y.host = x.host /\ y.own = x.own
       /\ y.asked = x.asked /\ y.tags = x.tags
       /\ y.validation_disabled = x.validation_disabled
  BY <1>a, <1>9, PrefixedIs
<1> HIDE DEF y
<1>12. Composed!Places(y.pipeline) = Composed!Each("controller", m) \o E
  <2>1. Composed!Places(c \o p) = Composed!Places(c) \o Composed!Places(p)
    BY <1>a, <1>6, PlacesJoin
  <2> QED BY <1>a, <1>8, <1>9, <1>11, <2>1
<1>13. Follows(y, m, controller)
  BY <1>4, <1>9, <1>11, <1>12 DEF Follows, E, v
<1>14. /\ Append(endpoints, y) \in Seq(Endpoint)
       /\ Len(Append(endpoints, y)) = n + 1
       /\ \A r \in 1..n : Append(endpoints, y)[r] = endpoints[r]
       /\ Append(endpoints, y)[n + 1] = y
  BY <1>1, <1>11, AppendProperties DEF n
<1>15. ASSUME NEW r \in 1..(n + 1)
       PROVE  Follows(Append(endpoints, y)[r], m, controller)
  <2>1. r = n + 1 \/ r \in 1..n
    BY <1>1
  <2> QED BY <1>1, <1>13, <1>14, <2>1
<1>16. AllFollow(endpoints', m, controller)
  BY <1>3, <1>14, <1>15 DEF AllFollow
<1>17. Composed!ScopesNest' /\ Composed!DefaultsReach'
  BY <1>3, NothingBuilt
<1> QED BY <1>3, <1>16, <1>17 DEF BuilderInv, m

(* What build makes of a route.                                            *)
Declared(s) == Composed!Each(s, Len(enhancers[s]))
AppliedTo(path) == Composed!Only(Composed!Each("consumer", Len(consumers)),
                                 Composed!ConsumedBy(path))

LEMMA JoinsAgain ==
    ASSUME NEW T
    PROVE  /\ \A s, t, u \in Seq(T) : s \o (t \o u) = (s \o t) \o u
           /\ \A s, t \in Seq(T) : s \o t \in Seq(T)
<1>1. \A s, t, u \in Seq(T) : s \o (t \o u) = (s \o t) \o u
  BY ConcatAssociative
<1>2. \A s, t \in Seq(T) : s \o t \in Seq(T)
  BY ConcatProperties
<1> QED BY <1>1, <1>2

LEMMA Associated ==
    \A a, b, c, d, e, f \in Seq(Place) :
       (a \o b) \o (c \o (d \o (e \o f)))
         = ((((a \o b) \o c) \o d) \o e) \o f
<1> DEFINE Join(s, t) == s \o t S == Seq(Place)
<1> SUFFICES ASSUME NEW a \in S, NEW b \in S, NEW c \in S,
                    NEW d \in S, NEW e \in S, NEW f \in S
             PROVE  Join(Join(a, b), Join(c, Join(d, Join(e, f))))
                      = Join(Join(Join(Join(Join(a, b), c), d), e), f)
  OBVIOUS
<1>1. /\ \A s, t, u \in S : Join(s, Join(t, u)) = Join(Join(s, t), u)
      /\ \A s, t \in S : Join(s, t) \in S
  BY JoinsAgain
<1> HIDE DEF Join, S
<1>2. a \in S /\ b \in S /\ c \in S /\ d \in S /\ e \in S /\ f \in S
  OBVIOUS
<1>3. Join(a, b) \in S /\ Join(e, f) \in S
  BY <1>1, <1>2
<1>4. Join(Join(a, b), c) \in S /\ Join(d, Join(e, f)) \in S
  BY <1>1, <1>2, <1>3
<1>5. Join(Join(Join(a, b), c), d) \in S
  BY <1>1, <1>2, <1>4
<1> QED BY <1>1, <1>2, <1>3, <1>4, <1>5

LEMMA AssociatedFour ==
    \A a, b, c, d \in Seq(Place) :
       a \o (b \o (c \o d)) = ((a \o b) \o c) \o d
<1> DEFINE Join(s, t) == s \o t S == Seq(Place)
<1> SUFFICES ASSUME NEW a \in S, NEW b \in S, NEW c \in S, NEW d \in S
             PROVE  Join(a, Join(b, Join(c, d))) = Join(Join(Join(a, b), c), d)
  OBVIOUS
<1>1. /\ \A s, t, u \in S : Join(s, Join(t, u)) = Join(Join(s, t), u)
      /\ \A s, t \in S : Join(s, t) \in S
  BY JoinsAgain
<1> HIDE DEF Join, S
<1>2. a \in S /\ b \in S /\ c \in S /\ d \in S
  OBVIOUS
<1>3. Join(c, d) \in S /\ Join(a, b) \in S
  BY <1>1, <1>2
<1>4. Join(a, Join(b, Join(c, d))) = Join(Join(a, b), Join(c, d))
  BY <1>1, <1>2, <1>3
<1> QED BY <1>1, <1>2, <1>3, <1>4

LEMMA DeclaredPlaces ==
    ASSUME BuilderInv, NEW s \in Composed!Scopes
    PROVE  /\ enhancers[s] \in Seq(Enhancer)
           /\ Composed!Places(enhancers[s]) = Declared(s)
           /\ Declared(s) \in Seq(Place)
BY InPlaceIs DEF BuilderInv, Declared

LEMMA RoutePrepared ==
    ASSUME BuilderInv, NEW x \in Endpoint,
           Follows(x, Len(enhancers["controller"]), controller)
    PROVE  LET y == Composed!PreparedRoute(x)
           IN  /\ y \in Endpoint
               /\ Composed!Places(y.pipeline)
                    = ((((Declared("global") \o Declared("provider"))
                       \o Declared("module")) \o AppliedTo(x.path))
                       \o Declared("controller"))
                       \o Composed!Each("route", Len(x.own))
               /\ (y.validates <=>
                     (x.validates \/ (validation /\ ~x.validation_disabled)))
               /\ y.host = x.host /\ y.asked = x.asked /\ y.tags = x.tags
<1> DEFINE d == Composed!Consumed(x.path)
           o == enhancers["module"]
           g == enhancers["global"]
           v == enhancers["provider"]
           t == g \o v
           x1 == Composed!Prefixed(x, d, FALSE)
           x2 == Composed!Prefixed(x1, o, FALSE)
           x3 == Composed!Prefixed(x2, t, validation)
           F == Composed!Each("route", Len(x.own))
           C == Declared("controller")
<1>1. Composed!PreparedRoute(x) = x3
  BY DEF Composed!PreparedRoute
<1>2. /\ x.path \in Paths /\ x.pipeline \in Seq(Enhancer)
      /\ Len(x.own) \in Nat
  BY DEF Endpoint
<1>3. consumers \in Seq([only : SUBSET Paths, except : SUBSET Paths])
  BY DEF BuilderInv, Applied
<1>4. /\ d \in Seq(Enhancer) /\ Composed!Places(d) = AppliedTo(x.path)
      /\ AppliedTo(x.path) \in Seq(Place)
  BY <1>2, <1>3, PlacesConsumed DEF AppliedTo
<1>5. /\ o \in Seq(Enhancer) /\ Composed!Places(o) = Declared("module")
      /\ Declared("module") \in Seq(Place)
  BY ScopesAre, DeclaredPlaces
<1>6. /\ g \in Seq(Enhancer) /\ Composed!Places(g) = Declared("global")
      /\ Declared("global") \in Seq(Place)
  BY ScopesAre, DeclaredPlaces
<1>7. /\ v \in Seq(Enhancer) /\ Composed!Places(v) = Declared("provider")
      /\ Declared("provider") \in Seq(Place)
  BY ScopesAre, DeclaredPlaces
<1>8. C \in Seq(Place)
  BY ScopesAre, DeclaredPlaces
<1>9. F \in Seq(Place)
  BY <1>2, ScopesAre, EachIs
<1>10. Composed!Places(x.pipeline) = C \o F
  BY DEF Follows, Declared
<1> HIDE DEF d, o, g, v, F, C
<1>11. /\ t \in Seq(Enhancer)
       /\ Composed!Places(t) = Declared("global") \o Declared("provider")
  BY <1>6, <1>7, PlacesJoin
<1>12. validation \in BOOLEAN
  BY DEF BuilderInv
<1> HIDE DEF t
<1>13. /\ x1 \in Endpoint /\ x1.pipeline = d \o x.pipeline
       /\ (x1.validates <=> (x.validates \/ (FALSE /\ ~x.validation_disabled)))
       /\ x1.path = x.path /\ x1.host = x.host /\ x1.own = x.own
       /\ x1.asked = x.asked /\ x1.tags = x.tags
       /\ x1.validation_disabled = x.validation_disabled
  BY <1>4, PrefixedIs
<1> HIDE DEF x1
<1>14. /\ x2 \in Endpoint /\ x2.pipeline = o \o x1.pipeline
       /\ (x2.validates <=> (x1.validates \/ (FALSE /\ ~x1.validation_disabled)))
       /\ x2.path = x1.path /\ x2.host = x1.host /\ x2.own = x1.own
       /\ x2.asked = x1.asked /\ x2.tags = x1.tags
       /\ x2.validation_disabled = x1.validation_disabled
  BY <1>5, <1>13, PrefixedIs
<1> HIDE DEF x2
<1>15. /\ x3 \in Endpoint /\ x3.pipeline = t \o x2.pipeline
       /\ (x3.validates <=> (x2.validates \/ (validation /\ ~x2.validation_disabled)))
       /\ x3.path = x2.path /\ x3.host = x2.host /\ x3.own = x2.own
       /\ x3.asked = x2.asked /\ x3.tags = x2.tags
       /\ x3.validation_disabled = x2.validation_disabled
  <2>1. x2 \in Endpoint /\ t \in Seq(Enhancer)
    BY <1>11, <1>14
  <2> QED BY <1>12, <2>1, PrefixedIs
<1> HIDE DEF x3
<1>16. Composed!Places(x1.pipeline) = AppliedTo(x.path) \o (C \o F)
  <2>1. Composed!Places(d \o x.pipeline)
          = Composed!Places(d) \o Composed!Places(x.pipeline)
    BY <1>2, <1>4, PlacesJoin
  <2> QED BY <1>4, <1>10, <1>13, <2>1
<1>17. Composed!Places(x2.pipeline)
         = Declared("module") \o (AppliedTo(x.path) \o (C \o F))
  <2>1. x1.pipeline \in Seq(Enhancer)
    BY <1>13 DEF Endpoint
  <2>2. Composed!Places(o \o x1.pipeline)
          = Composed!Places(o) \o Composed!Places(x1.pipeline)
    BY <1>5, <2>1, PlacesJoin
  <2> QED BY <1>5, <1>14, <1>16, <2>2
<1>18. Composed!Places(x3.pipeline)
         = (Declared("global") \o Declared("provider"))
           \o (Declared("module") \o (AppliedTo(x.path) \o (C \o F)))
  <2>1. x2.pipeline \in Seq(Enhancer)
    BY <1>14 DEF Endpoint
  <2>2. Composed!Places(t \o x2.pipeline)
          = Composed!Places(t) \o Composed!Places(x2.pipeline)
    BY <1>11, <2>1, PlacesJoin
  <2> QED BY <1>11, <1>15, <1>17, <2>2
<1>19. Composed!Places(x3.pipeline)
         = ((((Declared("global") \o Declared("provider"))
            \o Declared("module")) \o AppliedTo(x.path)) \o C) \o F
  <2> DEFINE P == Composed!Places(x3.pipeline)
             D1 == Declared("global") D2 == Declared("provider")
             D3 == Declared("module") D4 == AppliedTo(x.path)
  <2>1. /\ D1 \in Seq(Place) /\ D2 \in Seq(Place) /\ D3 \in Seq(Place)
        /\ D4 \in Seq(Place)
    BY <1>4, <1>5, <1>6, <1>7
  <2>2. P = (D1 \o D2) \o (D3 \o (D4 \o (C \o F)))
    BY <1>18
  <2> DEFINE Join(u, w) == u \o w S == Seq(Place)
  <2>3. /\ D1 \in S /\ D2 \in S /\ D3 \in S /\ D4 \in S
        /\ C \in S /\ F \in S
    BY <1>8, <1>9, <2>1
  <2>4. P = Join(Join(D1, D2), Join(D3, Join(D4, Join(C, F))))
    BY <2>2
  <2>5. \A a, b, c, k, l, e \in S :
           Join(Join(a, b), Join(c, Join(k, Join(l, e))))
             = Join(Join(Join(Join(Join(a, b), c), k), l), e)
    BY Associated
  <2> HIDE DEF P, D1, D2, D3, D4, Join, S
  <2>6. P = Join(Join(Join(Join(Join(D1, D2), D3), D4), C), F)
    BY <2>3, <2>4, <2>5
  <2> QED BY <2>6 DEF P, D1, D2, D3, D4, Join
<1> QED BY <1>1, <1>13, <1>14, <1>15, <1>19 DEF C, F

LEMMA ProtocolPrepared ==
    ASSUME BuilderInv, NEW p \in Seq(Enhancer), NEW F,
           Composed!Places(p) = F, F \in Seq(Place)
    PROVE  /\ Composed!Protocol(p) \in Seq(Enhancer)
           /\ Composed!Places(Composed!Protocol(p))
                = ((Declared("execution") \o Declared("protocol"))
                   \o Declared("provider")) \o F
<1> DEFINE e == enhancers["execution"]
           q == enhancers["protocol"]
           v == enhancers["provider"]
           A == Declared("execution")
           B == Declared("protocol")
           C == Declared("provider")
<1>1. /\ e \in Seq(Enhancer) /\ Composed!Places(e) = A /\ A \in Seq(Place)
  BY ScopesAre, DeclaredPlaces
<1>2. /\ q \in Seq(Enhancer) /\ Composed!Places(q) = B /\ B \in Seq(Place)
  BY ScopesAre, DeclaredPlaces
<1>3. /\ v \in Seq(Enhancer) /\ Composed!Places(v) = C /\ C \in Seq(Place)
  BY ScopesAre, DeclaredPlaces
<1>4. Composed!Protocol(p) = e \o (q \o (v \o p))
  BY DEF Composed!Protocol
<1> HIDE DEF e, q, v, A, B, C
<1>5. v \o p \in Seq(Enhancer) /\ Composed!Places(v \o p) = C \o F
  BY <1>3, PlacesJoin
<1>6. /\ q \o (v \o p) \in Seq(Enhancer)
      /\ Composed!Places(q \o (v \o p)) = B \o (C \o F)
  BY <1>2, <1>5, PlacesJoin
<1>7. /\ e \o (q \o (v \o p)) \in Seq(Enhancer)
      /\ Composed!Places(e \o (q \o (v \o p))) = A \o (B \o (C \o F))
  BY <1>1, <1>6, PlacesJoin
<1>8. A \o (B \o (C \o F)) = ((A \o B) \o C) \o F
  <2> DEFINE Join(u, w) == u \o w S == Seq(Place)
  <2>1. A \in S /\ B \in S /\ C \in S /\ F \in S
    BY <1>1, <1>2, <1>3
  <2>2. \A a, b, c, d \in S :
           Join(a, Join(b, Join(c, d))) = Join(Join(Join(a, b), c), d)
    BY AssociatedFour
  <2> HIDE DEF Join, S
  <2>3. Join(A, Join(B, Join(C, F))) = Join(Join(Join(A, B), C), F)
    BY <2>1, <2>2
  <2> QED BY <2>3 DEF Join
<1> QED BY <1>4, <1>7, <1>8 DEF A, B, C

LEMMA BuildNests ==
    ASSUME BuilderInv, Composed!Build PROVE BuilderInv'
<1> DEFINE n == Len(endpoints)
           y(r) == Composed!PreparedRoute(endpoints[r])
           z(r) == [y(r) EXCEPT !.pipeline =
                      Composed!Replaced(y(r).pipeline, overrides)]
           own == [i \in DOMAIN endpoints[1].own |->
                     Composed!Component("route", i, endpoints[1].own[i])]
           http == [r \in 1..n |-> z(r)]
           proto == IF family = "component"
                    THEN Composed!Replaced(Composed!Protocol(own), overrides)
                    ELSE <<>>
<1>1. /\ n \in Nat /\ DOMAIN endpoints = 1..n /\ endpoints \in Seq(Endpoint)
      /\ \A r \in 1..n :
            /\ endpoints[r] \in Endpoint
            /\ Follows(endpoints[r], Len(enhancers["controller"]), controller)
  BY EndpointIs DEF BuilderInv, AllFollow
<1>2. /\ UNCHANGED <<family, enhancers, consumers, controller, endpoints,
                     validation, overrides>>
      /\ endpoints # <<>>
  BY DEF Composed!Build
<1>3. composed' = [http |-> http, protocol |-> proto]
  <2> DEFINE prepared == [r \in DOMAIN endpoints |->
                            Composed!PreparedRoute(endpoints[r])]
             all == [r \in DOMAIN prepared |->
                       [prepared[r] EXCEPT !.pipeline =
                          Composed!Replaced(prepared[r].pipeline, overrides)]]
  <2>1. composed' = [http |-> all, protocol |-> proto]
    BY DEF Composed!Build
  <2>2. all = http
    <3>1. DOMAIN prepared = 1..n /\ \A r \in 1..n : prepared[r] = y(r)
      BY <1>1
    <3> HIDE DEF prepared, y, n
    <3> QED BY <3>1
  <2> HIDE DEF all, http, proto
  <2> QED BY <2>1, <2>2
<1>4. 1 \in 1..n
  BY <1>1, <1>2
<1> HIDE DEF n, y, own
<1>5. ASSUME NEW r \in 1..n
      PROVE  /\ Composed!Places(z(r).pipeline)
                  = ((((Declared("global") \o Declared("provider"))
                       \o Declared("module")) \o AppliedTo(endpoints[r].path))
                       \o Declared("controller"))
                       \o Composed!Each("route", Len(endpoints[r].own))
             /\ (z(r).validates <=>
                   /\ z(r).asked # "off"
                   /\ z(r).asked = "on" \/ controller.validates \/ validation)
             /\ controller.tags \subseteq z(r).tags
             /\ z(r).host = NoValue => controller.host = NoValue
  <2> DEFINE x == endpoints[r] w == y(r) p == w.pipeline
             q == Composed!Replaced(p, overrides)
             N == ((((Declared("global") \o Declared("provider"))
                       \o Declared("module")) \o AppliedTo(x.path))
                       \o Declared("controller"))
                       \o Composed!Each("route", Len(x.own))
  <2>1. x \in Endpoint /\ Follows(x, Len(enhancers["controller"]), controller)
    BY <1>1
  <2>2. w = Composed!PreparedRoute(x)
    BY DEF y
  <2> HIDE DEF x, w, N
  <2>3. /\ w \in Endpoint /\ Composed!Places(w.pipeline) = N
        /\ (w.validates <=> (x.validates \/ (validation /\ ~x.validation_disabled)))
        /\ w.host = x.host /\ w.asked = x.asked /\ w.tags = x.tags
    BY <2>1, <2>2, RoutePrepared DEF N
  <2>4. p \in Seq(Enhancer)
    BY <2>3 DEF Endpoint
  <2>5. Composed!Places(q) = N
    BY <2>3, <2>4, PlacesStay
  <2>6. z(r) = [w EXCEPT !.pipeline = q]
    BY DEF w
  <2> HIDE DEF q, z
  <2>7. /\ z(r).pipeline = q /\ z(r).validates = w.validates
        /\ z(r).host = w.host /\ z(r).asked = w.asked /\ z(r).tags = w.tags
    BY <2>3, <2>6 DEF Endpoint
  <2>8. /\ (x.validates <=> (x.asked # "off" /\ (x.asked = "on" \/ controller.validates)))
        /\ (x.validation_disabled <=> x.asked = "off")
        /\ controller.tags \subseteq x.tags
        /\ x.host = NoValue => controller.host = NoValue
    BY <2>1 DEF Follows
  <2>9. Composed!Places(z(r).pipeline) = N
    BY <2>5, <2>7
  <2> QED BY <2>3, <2>7, <2>8, <2>9 DEF N, x
<1>6. family = "component" =>
         Composed!Places(proto)
           = ((Declared("execution") \o Declared("protocol"))
                \o Declared("provider"))
                \o Composed!Each("route", Len(endpoints[1].own))
  <2> DEFINE x == endpoints[1] k == Len(x.own)
             F == Composed!Each("route", k)
             c == Composed!Protocol(own)
  <2>1. x \in Endpoint
    BY <1>1, <1>4
  <2>2. /\ x.own \in Seq(Types) /\ k \in Nat /\ DOMAIN x.own = 1..k
        /\ \A i \in 1..k : x.own[i] \in Types
    BY <2>1, LenOf DEF Endpoint
  <2>3. own = [i \in DOMAIN x.own |-> Composed!Component("route", i, x.own[i])]
    BY DEF own
  <2> HIDE DEF x, k, F
  <2>4. \A i \in 1..k :
           /\ Composed!Component("route", i, x.own[i]) \in Enhancer
           /\ Composed!Component("route", i, x.own[i]).scope = "route"
           /\ Composed!Component("route", i, x.own[i]).n = i
    BY <2>2, ScopesAre DEF Composed!Component, Enhancer
  <2>5. /\ own \in Seq(Enhancer) /\ Len(own) = k
        /\ \A i \in 1..k : own[i].scope = "route" /\ own[i].n = i
    BY <2>2, <2>3, <2>4
  <2>6. F \in Seq(Place) /\ Len(F) = k /\ \A i \in 1..k : F[i] = <<"route", i>>
    BY <2>2, ScopesAre, EachIs DEF F
  <2>7. Composed!Places(own) = F
    <3>1. /\ Composed!Places(own) \in Seq(Place)
          /\ Len(Composed!Places(own)) = k
          /\ \A i \in 1..k : Composed!Places(own)[i] = <<own[i].scope, own[i].n>>
      BY <2>5, PlacesAre
    <3>2. \A i \in 1..k : Composed!Places(own)[i] = F[i]
      BY <2>5, <2>6, <3>1
    <3> QED BY <2>6, <3>1, <3>2, SeqEqual
  <2>8. /\ c \in Seq(Enhancer)
        /\ Composed!Places(c)
             = ((Declared("execution") \o Declared("protocol"))
                  \o Declared("provider")) \o F
    BY <2>5, <2>6, <2>7, ProtocolPrepared
  <2> HIDE DEF c
  <2>9. Composed!Places(Composed!Replaced(c, overrides)) = Composed!Places(c)
    BY <2>8, PlacesStay
  <2>10. family = "component" => proto = Composed!Replaced(c, overrides)
    BY DEF c
  <2> HIDE DEF proto
  <2> QED BY <2>8, <2>9, <2>10 DEF F, k, x
<1> HIDE DEF z, proto
<1>7. composed'.http = http /\ composed'.protocol = proto
  BY <1>3
<1>8. /\ \A r \in 1..n : http[r] = z(r)
      /\ DOMAIN http = 1..n
  OBVIOUS
<1> HIDE DEF http
<1>9. Composed!ScopesNest'
  <2>1. \A r \in 1..n :
           Composed!Places(composed'.http[r].pipeline)
             = ((((Declared("global") \o Declared("provider"))
                \o Declared("module")) \o AppliedTo(endpoints[r].path))
                \o Declared("controller"))
                \o Composed!Each("route", Len(endpoints[r].own))
    BY <1>5, <1>7, <1>8
  <2>2. family = "component" =>
           Composed!Places(composed'.protocol)
             = ((Declared("execution") \o Declared("protocol"))
                  \o Declared("provider"))
                  \o Composed!Each("route", Len(endpoints[1].own))
    BY <1>6, <1>7
  <2>3. DOMAIN endpoints = 1..n
    BY <1>1
  <2> QED
    BY <1>2, <2>1, <2>2, <2>3 DEF Composed!ScopesNest, Declared, AppliedTo,
       Composed!ConsumedBy
<1>10. Composed!DefaultsReach'
  <2>1. \A r \in DOMAIN composed'.http :
           /\ (composed'.http[r].validates <=>
                 /\ composed'.http[r].asked # "off"
                 /\ composed'.http[r].asked = "on" \/ controller.validates
                    \/ validation)
           /\ controller.tags \subseteq composed'.http[r].tags
           /\ composed'.http[r].host = NoValue => controller.host = NoValue
    BY <1>5, <1>7, <1>8
  <2> QED BY <1>2, <2>1 DEF Composed!DefaultsReach
<1> QED BY <1>2, <1>9, <1>10 DEF BuilderInv

OwnGiven == MaxOwn \in Nat

LEMMA BuilderBegins ==
    ASSUME Composed!Init PROVE BuilderInv
<1>1. /\ family \in {"middleware", "component"}
      /\ enhancers = [s \in Composed!Scopes |-> <<>>]
      /\ consumers = <<>> /\ endpoints = <<>> /\ validation = FALSE
      /\ controller = [host |-> NoValue, tags |-> {}, validates |-> FALSE]
      /\ composed = NoValue
  BY DEF Composed!Init
<1>2. /\ <<>> \in Seq(Enhancer) /\ Len(<<>>) = 0
      /\ Composed!Places(<<>>) = <<>>
  BY DEF Composed!Places
<1>3. \A s \in Composed!Scopes : Composed!Each(s, 0) = <<>>
  BY DEF Composed!Each
<1>4. InPlace(enhancers)
  BY <1>1, <1>2, <1>3 DEF InPlace
<1>5. AllFollow(endpoints, Len(enhancers["controller"]), controller)
  BY <1>1 DEF AllFollow
<1>6. controller \in Owner /\ consumers \in Seq(Applied)
  BY <1>1 DEF Owner
<1>7. Composed!ScopesNest /\ Composed!DefaultsReach
  BY <1>1 DEF Composed!ScopesNest, Composed!DefaultsReach
<1> QED BY <1>1, <1>4, <1>5, <1>6, <1>7 DEF BuilderInv

LEMMA BuilderStep ==
    ASSUME OwnGiven, BuilderInv, [Composed!Next]_ComposedVars
    PROVE  BuilderInv'
<1>1. CASE UNCHANGED ComposedVars
  BY <1>1 DEF ComposedVars, BuilderInv, Composed!ScopesNest,
     Composed!DefaultsReach, Composed!ConsumedBy
<1>2. ASSUME NEW scope \in Composed!Scopes, NEW type \in Types,
             Composed!Use(scope, type)
      PROVE  BuilderInv'
  BY <1>2, UseFollows
<1>3. ASSUME NEW type \in Types, Composed!ControllerUses(type)
      PROVE  BuilderInv'
  BY <1>3, ControllerUsesFollows
<1>4. ASSUME NEW path \in Paths, NEW host \in Hosts \cup {NoValue},
             NEW asks \in {"nothing", "on", "off"},
             NEW own \in UNION {[1..n -> Types] : n \in 0..MaxOwn},
             Composed!Route(path, host, own, asks)
      PROVE  BuilderInv'
  <2>1. PICK k \in 0..MaxOwn : own \in [1..k -> Types]
    OBVIOUS
  <2>2. k \in Nat
    BY <2>1 DEF OwnGiven
  <2> QED BY <1>4, <2>1, <2>2, RouteFollows
<1>5. ASSUME \/ \E only, except \in SUBSET Paths : Composed!Apply(only, except)
             \/ \E type \in Types : Composed!Override(type)
             \/ Composed!UseGlobalValidation
      PROVE  BuilderInv'
  BY <1>5, OthersFollow
<1>6. ASSUME \/ \E host \in Hosts :
                   Composed!WithHost(host) \/ Composed!WithTag(host)
             \/ Composed!WithoutHost
             \/ Composed!ControllerValidates
      PROVE  BuilderInv'
  BY <1>6, DeclarationsFollow
<1>7. CASE Composed!Build
  BY <1>7, BuildNests
<1>8. CASE Composed!Next
  BY <1>2, <1>3, <1>4, <1>5, <1>6, <1>7, <1>8 DEF Composed!Next
<1> QED BY <1>1, <1>8

(* Whatever the order of the builders' calls, the pipeline of a route, a   *)
(* gateway or a pattern runs the components of each scope once, in order,  *)
(* and the scopes from the outside in; defaults reach every route          *)
(* (controller.rs, with_* and route; route/pipeline.rs; builder.rs), and   *)
(* handlers know what was declared for them (HandlersKnowAlways).          *)
THEOREM ScopesNestAlways ==
    ASSUME BuildersGiven, OwnGiven PROVE PartsSpec => []ScopesNest
<1> DEFINE Inv == /\ part = "handlers" => HandlerInv
                  /\ part = "composition" => BuilderInv
<1>1. PartsInit => Inv
  BY HandlerInit, BuilderBegins, PartsBegin
<1>2. Inv /\ [PartsNext]_parts => Inv'
  BY HandlerStep, BuilderStep, PartsStep
<1>3. Inv => ScopesNest
  <2>1. HandlerInv => Handlers!MetadataReaches /\ Handlers!ValidationMerges
          /\ Handlers!NamesAreUnique
    BY DEF HandlerInv
  <2>2. BuilderInv => Composed!ScopesNest /\ Composed!DefaultsReach
    BY DEF BuilderInv
  <2> QED BY <2>1, <2>2 DEF ScopesNest, HandlersKnow
<1> HIDE DEF Inv
<1> QED BY <1>1, <1>2, <1>3, PTL DEF PartsSpec

-----------------------------------------------------------------------------
(* One exchange (HttpExchange).                                            *)

Lengths == Seq(Nat \cup {NoValue})
Ranges == Seq([of : STRING, q : Nat])
IsError(e) ==
    /\ e = [kind |-> e.kind, status |-> e.status]
    /\ IF e.kind = "HttpException" THEN e.status \in Nat ELSE e.status = NoValue
Answer == [status : Nat, size : Nat, lengths : Lengths,
           stream : {NoValue, "sse", "file"}, id : Nat \cup {NoValue},
           allow : {NoValue}]

ExchangeGiven ==
    /\ NoValue \notin Nat /\ NoValue \notin {"sse", "file"}
    /\ NoValue \notin [specificity : Nat, q : Nat]
    /\ \A k, s : NoValue # [kind |-> k, status |-> s]
    /\ \A t \in Tables :
          /\ t \in Seq([method : Exchange!Standard \cup {"ALL"},
                        handler : STRING, status : Nat \cup {NoValue}])
          /\ \A i \in DOMAIN t :
                t[i].handler \notin {"sse", "plain"} => t[i].status \in Nat
    /\ \A q \in Incoming : q.lengths \in Lengths /\ q.accept \in Ranges
    /\ \A r \in Results : r \in Answer /\ r.stream = NoValue
    /\ \A e \in Errors : IsError(e)

(* What is sent of a response: a response that is valid, or the error that *)
(* it is not.                                                              *)
Streamed(r) == r \in Answer /\ (r.stream # NoValue => r.id \in Nat)

Finished(r) == Exchange!StripHeadBody(Exchange!WithAllowHeader(Exchange!ToAxum(r)))

StatusOf(e) ==
    IF Exchange!HttpStatusCode(e) \in 200..999 \ {204, 304}
    THEN Exchange!HttpStatusCode(e) ELSE 500

LEMMA ExchangeSets ==
    /\ \A S : Exchange!Cardinality(S) = Cardinality(S)
    /\ \A s : Exchange!ToSet(s) = {s[i] : i \in DOMAIN s}
BY DEF Exchange!Cardinality, Cardinality, Exchange!ToSet

(* Values of content-length that do not conflict are one.                  *)
LEMMA OneLength ==
    ASSUME NEW s \in Lengths, s # <<>>, Exchange!LengthsOk(s)
    PROVE  \A n \in Exchange!ToSet(s) : n = s[1]
<1> DEFINE S == {s[i] : i \in DOMAIN s}
<1>1. Exchange!ToSet(s) = S /\ Cardinality(S) <= 1
  BY ExchangeSets DEF Exchange!LengthsOk
<1>2. Len(s) \in Nat /\ DOMAIN s = 1..Len(s) /\ 1 \in DOMAIN s
  BY DEF Lengths
<1>3. s \in Surjection(1..Len(s), S)
  <2>1. s \in [1..Len(s) -> Nat \cup {NoValue}]
    BY DEF Lengths
  <2>2. s = [i \in 1..Len(s) |-> s[i]] /\ \A i \in 1..Len(s) : s[i] \in S
    BY <2>1, <1>2
  <2>3. s \in [1..Len(s) -> S]
    BY <2>2
  <2>4. \A n \in S : \E i \in 1..Len(s) : s[i] = n
    BY <1>2
  <2> QED BY <2>3, <2>4 DEF Surjection
<1>4. IsFiniteSet(1..Len(s))
  BY <1>2, FS_Interval
<1>5. IsFiniteSet(S)
  BY <1>3, <1>4, FS_Surjection
<1>6. SUFFICES ASSUME NEW n \in S, n # s[1] PROVE FALSE
  BY <1>1
<1>7. s[1] \in S
  BY <1>2
<1> HIDE DEF S
<1>8. {n, s[1]} \subseteq S
  BY <1>6, <1>7
<1>9. Cardinality({n, s[1]}) = 2
  <2>1. IsFiniteSet({s[1]}) /\ Cardinality({s[1]}) = 1
    BY FS_Singleton
  <2>2. {n, s[1]} = {s[1]} \cup {n} /\ n \notin {s[1]}
    BY <1>6
  <2> DEFINE T == {s[1]} P == {n, s[1]}
  <2>3. IsFiniteSet(T) /\ Cardinality(T) = 1 /\ n \notin T /\ P = T \cup {n}
    BY <2>1, <2>2
  <2> HIDE DEF T, P
  <2>4. Cardinality(T \cup {n}) = Cardinality(T) + 1
    BY <2>3, FS_AddElement
  <2>5. Cardinality(P) = 2
    BY <2>3, <2>4
  <2> QED BY <2>5 DEF P
<1>10. Cardinality({n, s[1]}) <= Cardinality(S) /\ Cardinality(S) \in Nat
  BY <1>5, <1>8, FS_Subset, FS_CardinalityType
<1> QED BY <1>1, <1>9, <1>10

LEMMA InternalError ==
    Exchange!FromError(Exchange!FromHttpStatus(500)) = Exchange!Response(500, 1)
<1> DEFINE S == {k \in DOMAIN Exchange!KindStatus : Exchange!KindStatus[k] = 500}
           k == CHOOSE k \in S : TRUE
<1>1. "InternalServerError" \in S
  BY DEF Exchange!KindStatus
<1>2. k \in S
  BY <1>1
<1>3. "HttpException" \notin DOMAIN Exchange!KindStatus
  BY DEF Exchange!KindStatus
<1>4. k \in DOMAIN Exchange!KindStatus /\ Exchange!KindStatus[k] = 500 /\ k # "HttpException"
  BY <1>2, <1>3
<1>5. Exchange!FromHttpStatus(500) = Exchange!Kind(k)
  BY <1>1 DEF Exchange!FromHttpStatus
<1> HIDE DEF k
<1>6. Exchange!HttpStatusCode(Exchange!Kind(k)) = 500
  BY <1>4 DEF Exchange!HttpStatusCode, Exchange!Kind
<1> QED BY <1>5, <1>6 DEF Exchange!FromError

LEMMA AnswersMade ==
    ASSUME NEW status \in Nat, NEW size \in Nat
    PROVE  LET r == Exchange!Response(status, size)
           IN  /\ Streamed(r) /\ r.status = status /\ r.size = size
               /\ r.lengths = <<>> /\ r.stream = NoValue
               /\ r.id = NoValue /\ r.allow = NoValue
<1>1. <<>> \in Lengths
  BY DEF Lengths
<1> QED BY <1>1 DEF Exchange!Response, Streamed, Answer

LEMMA SendsValid ==
    ASSUME NEW r, Streamed(r)
    PROVE  LET x == Exchange!ToAxum(r)
           IN  Streamed(x) /\ Exchange!ResponseValid(x)
<1>1. CASE Exchange!ResponseValid(r) /\ r.id \notin consumed
  BY <1>1 DEF Exchange!ToAxum
<1>2. CASE ~(Exchange!ResponseValid(r) /\ r.id \notin consumed)
  <2> DEFINE x == Exchange!Response(500, 1)
  <2>1. Exchange!ToAxum(r) = x
    BY <1>2, InternalError DEF Exchange!ToAxum
  <2>2. /\ Streamed(x) /\ x.status = 500 /\ x.size = 1 /\ x.lengths = <<>>
        /\ x.stream = NoValue
    BY AnswersMade
  <2> HIDE DEF x
  <2>3. Exchange!LengthsOk(x.lengths)
    <3>1. Exchange!ToSet(x.lengths) = {}
      BY <2>2, ExchangeSets
    <3> QED BY <3>1, ExchangeSets, FS_EmptySet DEF Exchange!LengthsOk
  <2> QED BY <2>1, <2>2, <2>3 DEF Exchange!ResponseValid, Exchange!AllowsBody
<1> QED BY <1>1, <1>2

(* What is sent of what is valid.                                          *)
LEMMA Finishing ==
    ASSUME NEW r, Streamed(r)
    PROVE  LET s == Finished(r) x == Exchange!ToAxum(r)
           IN  /\ s.status = x.status /\ s.lengths = x.lengths
               /\ s.stream = (IF incoming.method = "HEAD" THEN NoValue ELSE x.stream)
               /\ s.size = (IF incoming.method = "HEAD" THEN 0 ELSE x.size)
               /\ s.allow # NoValue => s.allow = Exchange!AllowedMethods
<1> DEFINE x == Exchange!ToAxum(r) y == Exchange!WithAllowHeader(x)
<1>1. x \in Answer
  BY SendsValid DEF Streamed
<1> HIDE DEF x
<1>2. /\ y.status = x.status /\ y.lengths = x.lengths /\ y.stream = x.stream
      /\ y.size = x.size /\ (y.allow # NoValue => y.allow = Exchange!AllowedMethods)
      /\ DOMAIN y = {"status", "size", "lengths", "stream", "id", "allow"}
  BY <1>1 DEF Exchange!WithAllowHeader, Answer
<1> HIDE DEF y
<1>3. Finished(r) = Exchange!StripHeadBody(y)
  BY DEF Finished, x, y
<1> QED BY <1>2, <1>3 DEF Exchange!StripHeadBody, x

LEMMA SentIsTrue ==
    ASSUME ExchangeGiven, NEW r, Streamed(r)
    PROVE  LET s == Finished(r)
           IN  /\ s.allow # NoValue => s.allow = Exchange!AllowedMethods
               /\ s.stream = "sse" => s.lengths = <<>>
               /\ s.stream = NoValue /\ incoming.method # "HEAD" =>
                     \A n \in Exchange!ToSet(s.lengths) : n = s.size
               /\ s.size > 0 => s.status \notin {204, 304}
<1> DEFINE x == Exchange!ToAxum(r) s == Finished(r)
<1>1. /\ s.status = x.status /\ s.lengths = x.lengths
      /\ s.stream = (IF incoming.method = "HEAD" THEN NoValue ELSE x.stream)
      /\ s.size = (IF incoming.method = "HEAD" THEN 0 ELSE x.size)
      /\ s.allow # NoValue => s.allow = Exchange!AllowedMethods
  BY Finishing
<1>2. x \in Answer /\ Exchange!ResponseValid(x)
  BY SendsValid DEF Streamed
<1> HIDE DEF x, s
<1>3. x.lengths \in Lengths /\ x.size \in Nat /\ "sse" # "file"
  BY <1>2 DEF Answer
<1>4. s.stream = "sse" => s.lengths = <<>>
  <2> SUFFICES ASSUME s.stream = "sse", x.lengths # <<>> PROVE FALSE
    BY <1>1
  <2>1. x.stream = NoValue \/ x.stream = "file"
    BY <1>2 DEF Exchange!ResponseValid
  <2>2. NoValue # "sse"
    <3>1. NoValue \notin {"sse", "file"}
      BY DEF ExchangeGiven
    <3> QED BY <3>1
  <2> QED BY <1>1, <1>3, <2>1, <2>2
<1>5. s.stream = NoValue /\ incoming.method # "HEAD" =>
          \A n \in Exchange!ToSet(s.lengths) : n = s.size
  <2> SUFFICES ASSUME x.stream = NoValue, incoming.method # "HEAD"
               PROVE  \A n \in Exchange!ToSet(x.lengths) : n = x.size
    BY <1>1
  <2>1. CASE x.lengths = <<>>
    <3>1. Exchange!ToSet(x.lengths) = {}
      BY <2>1, ExchangeSets
    <3> QED BY <3>1
  <2>2. CASE x.lengths # <<>>
    <3>1. x.lengths[1] = x.size /\ Exchange!LengthsOk(x.lengths)
      BY <1>2, <2>2 DEF Exchange!ResponseValid
    <3> QED BY <1>3, <2>2, <3>1, OneLength
  <2> QED BY <2>1, <2>2
<1>6. s.size > 0 => s.status \notin {204, 304}
  <2> SUFFICES ASSUME s.size > 0 PROVE x.status \notin {204, 304}
    BY <1>1
  <2>1. x.size > 0
    BY <1>1
  <2> QED BY <1>2, <2>1 DEF Exchange!ResponseValid, Exchange!AllowsBody
<1> QED BY <1>1, <1>4, <1>5, <1>6 DEF s

(* The error that nobody answers keeps its status, if that allows a body.  *)
LEMMA ErrorSent ==
    ASSUME ExchangeGiven, consumed \subseteq Nat, NEW e, IsError(e)
    PROVE  Finished(Exchange!FromError(e)).status = StatusOf(e)
<1> DEFINE c == Exchange!HttpStatusCode(e) r == Exchange!Response(c, 1)
<1>1. Exchange!FromError(e) = r
  BY DEF Exchange!FromError
<1>2. /\ r.status = c /\ r.size = 1 /\ r.lengths = <<>>
      /\ r.stream = NoValue /\ r.id = NoValue
  BY DEF Exchange!Response
<1>3. Exchange!LengthsOk(r.lengths)
  <2>1. Exchange!ToSet(r.lengths) = {}
    BY <1>2, ExchangeSets
  <2> QED BY <2>1, ExchangeSets, FS_EmptySet DEF Exchange!LengthsOk
<1> HIDE DEF r
<1>4. Exchange!ResponseValid(r) <=> (c \in 100..999 /\ c \notin (100..199) \cup {204, 304})
  BY <1>2, <1>3 DEF Exchange!ResponseValid, Exchange!AllowsBody
<1>5. r.id \notin consumed
  BY <1>2 DEF ExchangeGiven
<1> HIDE DEF c
<1>6. (c \in 100..999 /\ c \notin (100..199) \cup {204, 304})
         <=> c \in 200..999 \ {204, 304}
  <2>1. CASE c \in Int
    <3>1. /\ c \in 100..999 <=> (100 <= c /\ c <= 999)
          /\ c \in 100..199 <=> (100 <= c /\ c <= 199)
          /\ c \in 200..999 <=> (200 <= c /\ c <= 999)
      BY <2>1
    <3>2. (100 <= c /\ c <= 999) /\ ~(100 <= c /\ c <= 199)
            <=> (200 <= c /\ c <= 999)
      BY <2>1
    <3> QED BY <3>1, <3>2
  <2>2. CASE c \notin Int
    BY <2>2
  <2> QED BY <2>1, <2>2
<1>7. Exchange!ToAxum(r) = IF c \in 200..999 \ {204, 304} THEN r
                           ELSE Exchange!Response(500, 1)
  BY <1>4, <1>5, <1>6, InternalError DEF Exchange!ToAxum
<1>8. Exchange!Response(500, 1).status = 500
  BY DEF Exchange!Response
<1>9. Exchange!ToAxum(r).status = StatusOf(e)
  BY <1>2, <1>7, <1>8 DEF StatusOf, c
<1>10. Finished(r).status = Exchange!ToAxum(r).status
  <2> DEFINE x == Exchange!ToAxum(r) y == Exchange!WithAllowHeader(x)
  <2>1. x = r \/ x = Exchange!Response(500, 1)
    BY <1>7
  <2>2. DOMAIN x = {"status", "size", "lengths", "stream", "id", "allow"}
    BY <2>1 DEF Exchange!Response, r
  <2> HIDE DEF x
  <2>3. y.status = x.status /\ DOMAIN y = DOMAIN x
    BY <2>2 DEF Exchange!WithAllowHeader
  <2>4. Finished(r) = Exchange!StripHeadBody(y)
    BY DEF Finished, x
  <2> HIDE DEF y
  <2> QED BY <2>2, <2>3, <2>4 DEF Exchange!StripHeadBody, x
<1> QED BY <1>1, <1>9, <1>10

(* clone_for_filter loses nothing.                                         *)
LEMMA ClonesAreWhole ==
    ASSUME NEW e, IsError(e) PROVE Exchange!CloneForFilter(e) = e
<1>1. e = [kind |-> e.kind, status |-> e.status]
  BY DEF IsError
<1>2. CASE e.kind = "HttpException"
  BY <1>1, <1>2 DEF Exchange!CloneForFilter, Exchange!HttpException
<1>3. CASE e.kind # "HttpException"
  <2>1. e.status = NoValue
    BY <1>3 DEF IsError
  <2> QED BY <1>1, <1>3, <2>1 DEF Exchange!CloneForFilter,
             Exchange!FromKindAndMessage, Exchange!Kind
<1> QED BY <1>2, <1>3

LEMMA KindsAre ==
    ASSUME NEW k, k # "HttpException" PROVE IsError(Exchange!Kind(k))
BY DEF Exchange!Kind, IsError

LEMMA RefusalsAre ==
    /\ \A q : Exchange!Refusal(q) = NoValue \/ IsError(Exchange!Refusal(q))
    /\ \A h, q : \/ Exchange!HandlerRefusal(h, q) = NoValue
                 \/ IsError(Exchange!HandlerRefusal(h, q))
    /\ IsError(Exchange!Kind("NotFound"))
    /\ IsError(Exchange!Kind("MethodNotAllowed"))
<1>1. \A k \in {"NotFound", "MethodNotAllowed", "BadRequest", "PayloadTooLarge",
                "Adapter", "UnsupportedMediaType", "NotAcceptable"} :
          IsError(Exchange!Kind(k))
  <2>1. \A k : k # "HttpException" => IsError(Exchange!Kind(k))
    BY KindsAre
  <2> QED BY <2>1
<1>2. \A q : Exchange!Refusal(q) = NoValue \/ IsError(Exchange!Refusal(q))
  BY <1>1 DEF Exchange!Refusal
<1>3. \A h, q : \/ Exchange!HandlerRefusal(h, q) = NoValue
               \/ IsError(Exchange!HandlerRefusal(h, q))
  BY <1>1 DEF Exchange!HandlerRefusal
<1> QED BY <1>1, <1>2, <1>3

(* to_boot_request lets through whole bodies within the limit.             *)
LEMMA LetThrough ==
    ASSUME ExchangeGiven, NEW q \in Incoming, Exchange!Refusal(q) = NoValue
    PROVE  /\ q.size <= BodyLimit /\ ~q.broken
           /\ \A n \in Exchange!ToSet(q.lengths) : n = q.size
<1>1. \A k : Exchange!Kind(k) # NoValue
  BY DEF ExchangeGiven, Exchange!Kind
<1>2. /\ Exchange!Kind("MethodNotAllowed") # NoValue
      /\ Exchange!Kind("BadRequest") # NoValue
      /\ Exchange!Kind("PayloadTooLarge") # NoValue
      /\ Exchange!Kind("Adapter") # NoValue
  BY <1>1
<1>3. /\ Exchange!LengthsOk(q.lengths) /\ Exchange!WithinLimit(q, q.size)
      /\ ~q.broken /\ ~(q.lengths # <<>> /\ q.lengths[1] # q.size)
  BY <1>2 DEF Exchange!Refusal
<1>4. q.size <= BodyLimit
  BY <1>3 DEF Exchange!WithinLimit
<1>5. q.lengths \in Lengths
  BY DEF ExchangeGiven
<1>6. CASE q.lengths = <<>>
  <2>1. Exchange!ToSet(q.lengths) = {}
    BY <1>6, ExchangeSets
  <2> QED BY <1>3, <1>4, <2>1
<1>7. CASE q.lengths # <<>>
  BY <1>3, <1>4, <1>5, <1>7, OneLength
<1> QED BY <1>6, <1>7

(* The routes of a table, in order.  Those whose handler does not make its *)
(* own response have a status for it.                                      *)
HasStatus(r) == r.handler \notin {"sse", "plain"} => r.status \in Nat
Routed ==
    \E R : /\ mounted \in Seq(R)
           /\ \A r \in R : r.method \in Exchange!Standard \cup {"ALL"}
           /\ \A r \in R : HasStatus(r)

LEMMA RoutesAre ==
    ASSUME Routed
    PROVE  \E n \in Nat :
              /\ DOMAIN mounted = 1..n /\ (n = 0 <=> mounted = << >>)
              /\ \A i \in 1..n :
                    /\ mounted[i].method \in Exchange!Standard \cup {"ALL"}
                    /\ HasStatus(mounted[i])
<1>1. PICK R : /\ mounted \in Seq(R)
               /\ \A r \in R : r.method \in Exchange!Standard \cup {"ALL"}
               /\ \A r \in R : HasStatus(r)
  BY DEF Routed
<1>2. /\ Len(mounted) \in Nat /\ DOMAIN mounted = 1..Len(mounted)
      /\ (Len(mounted) = 0 <=> mounted = << >>)
      /\ \A i \in 1..Len(mounted) : mounted[i] \in R
  BY <1>1
<1> QED BY <1>1, <1>2

LEMMA TablesRouted ==
    ASSUME ExchangeGiven, Exchange!Init PROVE Routed
<1> DEFINE Methods == Exchange!Standard \cup {"ALL"}
           Calls == [method : Methods, handler : STRING, status : Nat \cup {NoValue}]
<1>1. PICK t \in Tables : mounted = Exchange!Declared(t)
  BY DEF Exchange!Init
<1> DEFINE R == {Exchange!Built(t[i]) : i \in DOMAIN t}
<1>2. t \in Seq(Calls) /\ \A i \in DOMAIN t : HasStatus(t[i])
  BY DEF ExchangeGiven, HasStatus
<1> HIDE DEF Calls
<1>3. Len(t) \in Nat /\ DOMAIN t = 1..Len(t) /\ \A i \in DOMAIN t : t[i] \in Calls
  BY <1>2
<1>4. \A c \in Calls : Exchange!Built(c).method \in Methods
  BY DEF Calls, Exchange!Built, Exchange!Standard
<1>5. \A c \in Calls : HasStatus(c) => HasStatus(Exchange!Built(c))
  <2> TAKE c \in Calls
  <2>1. /\ Exchange!Built(c).status = c.status
        /\ Exchange!Built(c).handler =
              IF c.handler = "json" THEN Exchange!JsonHandler(c.method)
              ELSE c.handler
    BY DEF Calls, Exchange!Built
  <2>2. "json" \notin {"sse", "plain"}
    OBVIOUS
  <2> QED BY <2>1, <2>2 DEF HasStatus
<1>6. \A r \in R : r.method \in Methods /\ HasStatus(r)
  BY <1>2, <1>3, <1>4, <1>5
<1>7. mounted \in [1..Len(t) -> R]
  BY <1>1, <1>3 DEF Exchange!Declared
<1> HIDE DEF R
<1>8. mounted \in Seq(R)
  BY <1>3, <1>7, SeqDef
<1> QED BY <1>6, <1>8 DEF Routed

LEMMA FirstIs ==
    ASSUME NEW S \in SUBSET Nat, S # {}
    PROVE  Exchange!First(S) \in S
<1>1. \E n \in S : \A k \in S : n <= k
  BY LeastOf
<1> QED BY <1>1 DEF Exchange!First

LEMMA MethodsFound ==
    ASSUME Routed, NEW m, Exchange!Positions(mounted, m) # {}
    PROVE  /\ mounted # << >>
           /\ Exchange!First(Exchange!Positions(mounted, m)) \in Nat
           /\ Exchange!First(Exchange!Positions(mounted, m)) \in DOMAIN mounted
           /\ mounted[Exchange!First(Exchange!Positions(mounted, m))].method = m
<1> DEFINE P == Exchange!Positions(mounted, m)
<1>1. PICK n \in Nat : DOMAIN mounted = 1..n /\ (n = 0 <=> mounted = << >>)
  BY RoutesAre
<1>2. P \subseteq 1..n /\ \A i \in P : mounted[i].method = m
  BY <1>1 DEF Exchange!Positions
<1>3. P \in SUBSET Nat /\ P # {}
  BY <1>2
<1> HIDE DEF P
<1>4. Exchange!First(P) \in P
  BY <1>3, FirstIs
<1>5. Exchange!First(P) \in 1..n
  BY <1>2, <1>4
<1>6. n # 0
  BY <1>5
<1> QED BY <1>1, <1>2, <1>3, <1>4, <1>5, <1>6 DEF P

(* A route that takes a method is found for it, in whichever way.          *)
LEMMA RoutesTaking ==
    ASSUME ExchangeGiven, Routed, NEW m \in Exchange!Standard,
           Exchange!Positions(mounted, "ALL") = {}
    PROVE  LET found == Exchange!Positions(mounted, m) # {}
               a == Exchange!AxumRoute(mounted, m)
               b == Exchange!ApplicationRoute(mounted, m)
           IN  /\ Exchange!Takes(a, m) <=> found
               /\ Exchange!Takes(b, m) <=> found
               /\ found => a = b
<1> DEFINE a == Exchange!AxumRoute(mounted, m)
           b == Exchange!ApplicationRoute(mounted, m)
           P(x) == Exchange!Positions(mounted, x)
<1>1. PICK n \in Nat :
              /\ DOMAIN mounted = 1..n /\ (n = 0 <=> mounted = << >>)
              /\ \A i \in 1..n : mounted[i].method \in Exchange!Standard \cup {"ALL"}
  BY RoutesAre
<1>2. NoValue \notin Nat
  BY DEF ExchangeGiven
<1>3. CASE P(m) # {}
  <2>1. /\ mounted # << >> /\ Exchange!First(P(m)) \in Nat
        /\ mounted[Exchange!First(P(m))].method = m
    BY <1>3, MethodsFound
  <2>2. a = Exchange!First(P(m)) /\ b = Exchange!First(P(m))
    BY <1>3, <2>1 DEF Exchange!AxumRoute, Exchange!ApplicationRoute
  <2> QED BY <1>2, <1>3, <2>1, <2>2 DEF Exchange!Takes, Exchange!MethodMatches
<1>4. CASE P(m) = {}
  <2>1. b = NoValue \/ (b = 1 /\ mounted # << >>)
    BY <1>4 DEF Exchange!ApplicationRoute
  <2>2. ~Exchange!Takes(b, m)
    <3>1. SUFFICES ASSUME b = 1, mounted # << >> PROVE ~Exchange!Takes(1, m)
      BY <2>1 DEF Exchange!Takes
    <3>2. 1 \in DOMAIN mounted
      BY <1>1, <3>1
    <3>3. mounted[1].method # m /\ mounted[1].method # "ALL"
      BY <1>4, <3>2 DEF Exchange!Positions
    <3> QED BY <3>3 DEF Exchange!Takes, Exchange!MethodMatches
  <2>3. CASE m = "HEAD" /\ P("GET") # {}
    <3>1. a = Exchange!First(P("GET"))
      BY <1>4, <2>3 DEF Exchange!AxumRoute
    <3>2. mounted[a].method = "GET"
      BY <2>3, <3>1, MethodsFound
    <3>3. "GET" # "HEAD" /\ "GET" # "ALL"
      OBVIOUS
    <3>4. ~Exchange!Takes(a, m)
      BY <2>3, <3>2, <3>3 DEF Exchange!Takes, Exchange!MethodMatches
    <3> QED BY <1>4, <2>2, <3>4
  <2>4. CASE ~(m = "HEAD" /\ P("GET") # {})
    <3>1. a = b
      BY <1>4, <2>4 DEF Exchange!AxumRoute
    <3> QED BY <1>4, <2>2, <3>1
  <2> QED BY <2>3, <2>4
<1> QED BY <1>3, <1>4

LEMMA AllowedAreTaken ==
    ASSUME ExchangeGiven, Routed, NEW m \in Exchange!Standard
    PROVE  m \in Exchange!AllowedMethods <=> Exchange!Takes(Exchange!Chosen(m), m)
<1> DEFINE P(x) == Exchange!Positions(mounted, x)
<1>1. NoValue \notin Nat
  BY DEF ExchangeGiven
<1>2. CASE P("ALL") = {}
  <2>1. m \in Exchange!AllowedMethods <=> P(m) # {}
    BY <1>2 DEF Exchange!AllowedMethods, Exchange!Positions
  <2>2. \/ Exchange!Chosen(m) = Exchange!AxumRoute(mounted, m)
        \/ Exchange!Chosen(m) = Exchange!ApplicationRoute(mounted, m)
    BY DEF Exchange!Chosen
  <2> QED BY <1>2, <2>1, <2>2, RoutesTaking
<1>3. CASE P("ALL") # {}
  <2>1. m \in Exchange!AllowedMethods
    BY <1>3 DEF Exchange!AllowedMethods
  <2>2. Exchange!Chosen(m) = Exchange!ApplicationRoute(mounted, m)
    BY <1>3 DEF Exchange!Chosen, Exchange!FallbackRouting
  <2>3. mounted # << >>
    BY <1>3, MethodsFound
  <2>4. CASE P(m) # {}
    <3>1. Exchange!Chosen(m) = Exchange!First(P(m))
      BY <2>2, <2>3, <2>4 DEF Exchange!ApplicationRoute
    <3>2. /\ Exchange!First(P(m)) \in Nat
          /\ mounted[Exchange!First(P(m))].method = m
      BY <2>4, MethodsFound
    <3> QED BY <1>1, <2>1, <3>1, <3>2 DEF Exchange!Takes, Exchange!MethodMatches
  <2>5. CASE P(m) = {}
    <3>1. Exchange!Chosen(m) = Exchange!First(P("ALL"))
      BY <1>3, <2>2, <2>3, <2>5 DEF Exchange!ApplicationRoute
    <3>2. /\ Exchange!First(P("ALL")) \in Nat
          /\ mounted[Exchange!First(P("ALL"))].method = "ALL"
      BY <1>3, MethodsFound
    <3> QED BY <1>1, <2>1, <3>1, <3>2 DEF Exchange!Takes, Exchange!MethodMatches
  <2> QED BY <2>4, <2>5
<1> QED BY <1>2, <1>3

LEMMA ChosenAreMade ==
    ASSUME Routed, NEW m, Exchange!Chosen(m) # NoValue
    PROVE  HasStatus(mounted[Exchange!Chosen(m)])
<1> DEFINE P(x) == Exchange!Positions(mounted, x)
           b == Exchange!ApplicationRoute(mounted, m)
           a == Exchange!AxumRoute(mounted, m)
<1>1. PICK n \in Nat :
              /\ DOMAIN mounted = 1..n /\ (n = 0 <=> mounted = << >>)
              /\ \A i \in 1..n : HasStatus(mounted[i])
  BY RoutesAre
<1>2. \A x : P(x) # {} => Exchange!First(P(x)) \in DOMAIN mounted
  BY MethodsFound
<1>3. b = NoValue \/ b \in DOMAIN mounted
  <2>1. /\ P(m) # {} => Exchange!First(P(m)) \in DOMAIN mounted
        /\ P("ALL") # {} => Exchange!First(P("ALL")) \in DOMAIN mounted
    BY <1>2
  <2>2. mounted # << >> => 1 \in DOMAIN mounted
    BY <1>1
  <2> QED BY <2>1, <2>2 DEF Exchange!ApplicationRoute
<1>4. a = NoValue \/ a \in DOMAIN mounted
  <2>1. /\ P(m) # {} => Exchange!First(P(m)) \in DOMAIN mounted
        /\ P("GET") # {} => Exchange!First(P("GET")) \in DOMAIN mounted
    BY <1>2
  <2> QED BY <1>3, <2>1 DEF Exchange!AxumRoute
<1> QED BY <1>1, <1>3, <1>4 DEF Exchange!Chosen

(* Ranges: the best one so far is None while none counts, and is as        *)
(* specific as the most specific ones.                                     *)
Best(ranges, specificity, n, best) ==
    LET of == {i \in 1..n : ranges[i].of \in DOMAIN specificity}
        S(i) == specificity[ranges[i].of]
    IN  \/ best = NoValue /\ of = {}
        \/ \E x, y \in Nat :
              /\ best = [specificity |-> x, q |-> y]
              /\ \E i \in of : S(i) = x /\ ranges[i].q = y
              /\ \A j \in of : S(j) <= x

LEMMA BetterIsBest ==
    ASSUME ExchangeGiven, NEW ranges \in Ranges,
           NEW specificity, \A k \in DOMAIN specificity : specificity[k] \in Nat,
           NEW n \in 1..Len(ranges), NEW best, Best(ranges, specificity, n - 1, best)
    PROVE  Best(ranges, specificity, n,
                Exchange!Better(best, ranges[n], specificity))
<1> DEFINE of(k) == {i \in 1..k : ranges[i].of \in DOMAIN specificity}
           S(i) == specificity[ranges[i].of]
           new == Exchange!Better(best, ranges[n], specificity)
           Is(b, k) ==
              \E x, y \in Nat :
                 /\ b = [specificity |-> x, q |-> y]
                 /\ \E i \in of(k) : S(i) = x /\ ranges[i].q = y
                 /\ \A j \in of(k) : S(j) <= x
<1>1. /\ Len(ranges) \in Nat /\ n \in Nat
      /\ \A i \in 1..Len(ranges) : ranges[i].q \in Nat
  <2> DEFINE R == [of : STRING, q : Nat]
  <2>1. \A r \in R : r.q \in Nat
    OBVIOUS
  <2>2. ranges \in Seq(R)
    BY DEF Ranges
  <2> HIDE DEF R
  <2>3. Len(ranges) \in Nat /\ \A i \in 1..Len(ranges) : ranges[i] \in R
    BY <2>2
  <2> QED BY <2>1, <2>3
<1>2. 1..n = (1..(n - 1)) \cup {n}
  BY <1>1
<1>3. (best = NoValue /\ of(n - 1) = {}) \/ Is(best, n - 1)
  BY DEF Best
<1>4. CASE ranges[n].of \notin DOMAIN specificity
  <2>1. of(n) = of(n - 1)
    BY <1>2, <1>4
  <2>2. new = best
    BY <1>4 DEF Exchange!Better
  <2>3. (new = NoValue /\ of(n) = {}) \/ Is(new, n)
    BY <1>3, <2>1, <2>2
  <2> QED BY <2>3 DEF Best
<1>5. CASE ranges[n].of \in DOMAIN specificity
  <2>1. of(n) = of(n - 1) \cup {n}
    BY <1>2, <1>5
  <2>2. S(n) \in Nat /\ ranges[n].q \in Nat /\ n \in 1..Len(ranges)
    BY <1>1, <1>5
  <2> DEFINE fresh == [specificity |-> S(n), q |-> ranges[n].q]
  <2>3. \A i \in of(n) : S(i) \in Nat
    OBVIOUS
  <2>4. CASE best = NoValue
    <3>1. new = fresh
      BY <1>5, <2>4 DEF Exchange!Better
    <3>2. of(n - 1) = {}
      <4> SUFFICES ASSUME Is(best, n - 1) PROVE FALSE
        BY <1>3
      <4>1. PICK x \in Nat, y \in Nat : best = [specificity |-> x, q |-> y]
        OBVIOUS
      <4>2. best \in [specificity : Nat, q : Nat]
        BY <4>1
      <4> QED BY <2>4, <4>2 DEF ExchangeGiven
    <3>3. of(n) = {n}
      BY <2>1, <3>2
    <3>4. n \in of(n) /\ \A j \in of(n) : S(j) <= S(n)
      BY <2>2, <3>3
    <3> HIDE DEF S, of, new
    <3>5. Is(new, n)
      BY <2>2, <3>1, <3>4
    <3> QED BY <3>5 DEF Best, S, of, new
  <2>5. CASE best # NoValue
    <3>1. PICK x \in Nat, y \in Nat :
              /\ best = [specificity |-> x, q |-> y]
              /\ \E i \in of(n - 1) : S(i) = x /\ ranges[i].q = y
              /\ \A j \in of(n - 1) : S(j) <= x
      BY <1>3, <2>5
    <3>2. best.specificity = x /\ best.q = y
      BY <3>1
    <3>3. PICK i \in of(n - 1) : S(i) = x /\ ranges[i].q = y
      BY <3>1
    <3>4. CASE x > S(n)
      <4>1. new = best
        BY <1>5, <2>5, <3>2, <3>4 DEF Exchange!Better
      <4> HIDE DEF S, of, new
      <4>2. i \in of(n) /\ \A j \in of(n) : S(j) <= x
        BY <2>1, <2>2, <3>1, <3>4
      <4>3. Is(new, n)
        BY <3>1, <3>3, <4>1, <4>2
      <4> QED BY <4>3 DEF Best, S, of, new
    <3>5. CASE x = S(n)
      <4> DEFINE z == IF ranges[n].q > y THEN ranges[n].q ELSE y
      <4>1. ~(x > S(n))
        BY <2>2, <3>5
      <4>2. new = [best EXCEPT !.q = z]
        BY <1>5, <2>5, <3>2, <3>5, <4>1 DEF Exchange!Better
      <4>3. new = [specificity |-> x, q |-> z]
        BY <3>1, <4>2
      <4>4. z \in Nat /\ (z = y \/ z = ranges[n].q)
        BY <2>2
      <4> HIDE DEF S, of, new, z
      <4>5. i \in of(n) /\ n \in of(n) /\ \A j \in of(n) : S(j) <= x
        BY <2>1, <2>2, <3>1, <3>5
      <4>6. \E k \in of(n) : S(k) = x /\ ranges[k].q = z
        BY <3>3, <3>5, <4>4, <4>5
      <4>7. Is(new, n)
        BY <4>3, <4>4, <4>5, <4>6
      <4> QED BY <4>7 DEF Best, S, of, new
    <3>6. CASE x < S(n)
      <4>1. ~(x > S(n)) /\ x # S(n)
        BY <2>2, <3>6
      <4>2. new = fresh
        BY <1>5, <2>5, <3>2, <4>1 DEF Exchange!Better
      <4> HIDE DEF S, of, new
      <4>3. n \in of(n) /\ \A j \in of(n) : S(j) <= S(n)
        <5>1. \A j \in of(n - 1) : S(j) \in Nat
          BY <2>1, <2>3
        <5> QED BY <2>1, <2>2, <3>1, <3>6, <5>1
      <4>4. Is(new, n)
        BY <2>2, <4>2, <4>3
      <4> QED BY <4>4 DEF Best, S, of, new
    <3> QED BY <2>2, <3>4, <3>5, <3>6
  <2> QED BY <2>4, <2>5
<1> QED BY <1>4, <1>5

LEMMA BestMatchIs ==
    ASSUME ExchangeGiven, NEW ranges \in Ranges,
           NEW specificity, \A k \in DOMAIN specificity : specificity[k] \in Nat
    PROVE  Best(ranges, specificity, Len(ranges),
                Exchange!BestMatch(ranges, specificity))
<1> DEFINE N == Len(ranges)
           Step(g, n) == IF n = 0 THEN NoValue
                         ELSE Exchange!Better(g[n - 1], ranges[n], specificity)
           Is(g) == g = [n \in 0..N |-> Step(g, n)]
           Upto(g, k) == DOMAIN g = 0..k /\ \A n \in 0..k : g[n] = Step(g, n)
           S == {k \in Nat : \E g : Upto(g, k)}
<1>1. N \in Nat
  BY DEF Ranges
<1>2. \E g : Is(g)
  <2>1. 0 \in S
    <3> DEFINE g == [n \in 0..0 |-> NoValue]
    <3>1. DOMAIN g = 0..0 /\ \A n \in 0..0 : n = 0 /\ g[n] = NoValue
      OBVIOUS
    <3>2. Upto(g, 0)
      BY <3>1
    <3> QED BY <3>2
  <2>2. \A k \in S : k + 1 \in S
    <3> TAKE k \in S
    <3>1. PICK g : Upto(g, k)
      OBVIOUS
    <3> DEFINE h == [n \in 0..(k + 1) |-> IF n = k + 1 THEN Step(g, k + 1) ELSE g[n]]
    <3>2. \A n \in 0..(k + 1) : n = k + 1 \/ n \in 0..k
      OBVIOUS
    <3>3. \A n \in 0..k : h[n] = g[n]
      OBVIOUS
    <3>4. \A n \in 0..(k + 1) : n # 0 => n - 1 \in 0..k
      OBVIOUS
    <3>5. \A n \in 0..(k + 1) : Step(h, n) = Step(g, n)
      <4> HIDE DEF h
      <4> QED BY <3>3, <3>4
    <3>6. \A n \in 0..(k + 1) : h[n] = Step(g, n)
      <4> TAKE n \in 0..(k + 1)
      <4>1. CASE n = k + 1
        BY <4>1
      <4>2. CASE n # k + 1
        <5>1. n \in 0..k
          BY <3>2, <4>2
        <5> QED BY <3>1, <3>3, <5>1
      <4> QED BY <4>1, <4>2
    <3>7. DOMAIN h = 0..(k + 1)
      OBVIOUS
    <3> HIDE DEF h, Step
    <3>8. Upto(h, k + 1)
      BY <3>5, <3>6, <3>7
    <3> QED BY <3>8
  <2> HIDE DEF S
  <2>3. S \in SUBSET Nat
    BY DEF S
  <2>4. S = Nat
    BY <2>1, <2>2, <2>3, InductionOn
  <2>5. PICK g : Upto(g, N)
    BY <1>1, <2>4 DEF S
  <2>6. \E h : h = [n \in 0..N |-> Step(g, n)]
    OBVIOUS
  <2> HIDE DEF Step
  <2>7. PICK h : h = [n \in 0..N |-> Step(g, n)]
    BY <2>6
  <2>8. \A n \in 0..N : h[n] = g[n]
    BY <2>5, <2>7
  <2>9. \A n \in 0..N : Step(h, n) = Step(g, n)
    <3>1. \A n \in 0..N : n # 0 => n - 1 \in 0..N
      BY <1>1
    <3> QED BY <2>8, <3>1 DEF Step
  <2>10. h = [n \in 0..N |-> Step(h, n)]
    BY <2>7, <2>9
  <2> QED BY <2>10
<1> DEFINE best == CHOOSE g : Is(g)
<1>3. Is(best)
  BY <1>2
<1>4. Exchange!BestMatch(ranges, specificity) = best[N]
  BY DEF Exchange!BestMatch
<1> HIDE DEF best
<1>5. \A n \in 0..N : best[n] = Step(best, n)
  <2> HIDE DEF Step
  <2> QED BY <1>3
<1> DEFINE T == {n \in Nat : n \in 0..N => Best(ranges, specificity, n, best[n])}
<1>6. 0 \in T
  <2>1. 0 \in 0..N /\ 1..0 = {}
    BY <1>1
  <2>2. best[0] = NoValue
    BY <1>5, <2>1
  <2> QED BY <2>1, <2>2 DEF Best
<1>7. \A n \in T : n + 1 \in T
  <2> TAKE n \in T
  <2> SUFFICES ASSUME n + 1 \in 0..N
               PROVE  Best(ranges, specificity, n + 1, best[n + 1])
    OBVIOUS
  <2>1. n \in 0..N /\ n + 1 \in 1..N /\ n + 1 # 0 /\ (n + 1) - 1 = n
    BY <1>1
  <2>2. Best(ranges, specificity, (n + 1) - 1, best[n])
    BY <2>1
  <2>3. Best(ranges, specificity, n + 1,
             Exchange!Better(best[n], ranges[n + 1], specificity))
    BY <2>1, <2>2, BetterIsBest
  <2>4. best[n + 1] = Exchange!Better(best[n], ranges[n + 1], specificity)
    BY <1>5, <2>1
  <2> QED BY <2>3, <2>4
<1> HIDE DEF T
<1>8. T \in SUBSET Nat
  BY DEF T
<1>9. T = Nat
  BY <1>6, <1>7, <1>8, InductionOn
<1>10. N \in 0..N /\ N \in T
  BY <1>1, <1>9
<1> QED BY <1>4, <1>10 DEF T

(* Who accepts JSON does not exclude it where it says most of it.          *)
LEMMA AcceptsJson ==
    ASSUME ExchangeGiven, NEW ranges \in Ranges, ranges # << >>,
           Exchange!Accepts(ranges, Exchange!JsonSpecificity)
    PROVE  LET of == {i \in DOMAIN ranges :
                         ranges[i].of \in DOMAIN Exchange!JsonSpecificity}
               S(i) == Exchange!JsonSpecificity[ranges[i].of]
           IN  \E i \in of : ranges[i].q > 0 /\ \A j \in of : S(j) <= S(i)
<1> DEFINE J == Exchange!JsonSpecificity
           best == Exchange!BestMatch(ranges, J)
<1>1. \A k \in DOMAIN J : J[k] \in Nat
  BY DEF Exchange!JsonSpecificity
<1>2. DOMAIN ranges = 1..Len(ranges)
  BY DEF Ranges
<1>3. best # NoValue /\ best.q > 0
  BY DEF Exchange!Accepts
<1> HIDE DEF J, best
<1>4. Best(ranges, J, Len(ranges), best)
  BY <1>1, BestMatchIs DEF best
<1> DEFINE of == {i \in 1..Len(ranges) : ranges[i].of \in DOMAIN J}
           S(i) == J[ranges[i].of]
<1>5. PICK x \in Nat, y \in Nat :
              /\ best = [specificity |-> x, q |-> y]
              /\ \E i \in of : S(i) = x /\ ranges[i].q = y
              /\ \A j \in of : S(j) <= x
  BY <1>3, <1>4 DEF Best
<1>6. PICK i \in of : S(i) = x /\ ranges[i].q = y
  BY <1>5
<1>7. best.q = y
  BY <1>5
<1>8. \E k \in of : ranges[k].q > 0 /\ \A j \in of : S(j) <= S(k)
  BY <1>3, <1>5, <1>6, <1>7
<1> QED BY <1>2, <1>8 DEF J

(* The inductive invariant: how far the request is.  A response that is    *)
(* sent belongs to the request that is looked at, and to the last error    *)
(* unless a filter answered it; the filters were told of no other.         *)
StagesInv ==
    /\ progress \in {"idle", "arrived", "handler", "error"}
    /\ progress # "idle" => delivered = NoValue /\ incoming \in Incoming
    /\ progress \in {"arrived", "handler"} => raised = NoValue /\ filtered = {}
    /\ progress = "arrived" => addressed = NoValue
    /\ progress = "handler" => HasStatus(addressed)
    /\ progress = "error" => raised # NoValue
    /\ received \in Nat /\ consumed \subseteq Nat
    /\ retained = NoValue \/ Streamed(retained)

ErrorsInv ==
    /\ raised # NoValue => IsError(raised) /\ \A e \in filtered : e = raised
    /\ delivered # NoValue /\ raised # NoValue => delivered.status = StatusOf(raised)

HandledInv ==
    /\ addressed # NoValue =>
          incoming \in Incoming /\ Exchange!Refusal(incoming) = NoValue
    /\ delivered # NoValue /\ raised = NoValue /\ filtered = {}
          /\ addressed # NoValue
       => Exchange!HandlerRefusal(addressed.handler, incoming) = NoValue

True(s, q) ==
    /\ s.allow # NoValue => s.allow = Exchange!AllowedMethods
    /\ s.stream = "sse" => s.lengths = << >>
    /\ s.stream = NoValue /\ q.method # "HEAD" =>
          \A n \in Exchange!ToSet(s.lengths) : n = s.size
    /\ s.size > 0 => s.status \notin {204, 304}

ExchangeInv ==
    /\ Routed
    /\ StagesInv
    /\ ErrorsInv
    /\ HandledInv
    /\ delivered # NoValue => True(delivered, incoming)

LEMMA ExchangeBegins ==
    ASSUME ExchangeGiven, Exchange!Init PROVE ExchangeInv
<1>1. Routed
  BY TablesRouted
<1>2. /\ progress = "idle" /\ raised = NoValue /\ filtered = {}
      /\ retained = NoValue /\ consumed = {} /\ delivered = NoValue
      /\ addressed = NoValue /\ received = 0
  BY DEF Exchange!Init
<1> QED BY <1>1, <1>2 DEF ExchangeInv, StagesInv, ErrorsInv, HandledInv

LEMMA RoutesStay ==
    ASSUME Routed, mounted' = mounted PROVE Routed'
BY DEF Routed, HasStatus, Exchange!Standard

(* An answer leaves the exchange as it should be.                          *)
LEMMA AnswerSent ==
    ASSUME ExchangeGiven, ExchangeInv, progress # "idle",
           NEW r, Streamed(r), Exchange!Send(r)
    PROVE  /\ Routed' /\ StagesInv'
           /\ delivered' = Finished(r)
           /\ True(delivered', incoming)
           /\ Exchange!AllowedMethods' = Exchange!AllowedMethods
           /\ incoming' = incoming /\ addressed' = addressed
<1>1. /\ progress' = "idle" /\ delivered' = Finished(r)
      /\ incoming' = incoming /\ addressed' = addressed /\ received' = received
      /\ mounted' = mounted
      /\ retained' = r \/ retained' = retained
  BY DEF Exchange!Send, Exchange!Fixed, Finished
<1>2. consumed' \subseteq Nat
  <2>1. consumed \subseteq Nat
    BY DEF ExchangeInv, StagesInv
  <2>2. CASE r.stream # NoValue
    <3>1. r.id \in Nat
      BY <2>2 DEF Streamed
    <3> QED BY <2>1, <3>1 DEF Exchange!Send
  <2>3. CASE r.stream = NoValue
    BY <2>1, <2>3 DEF Exchange!Send
  <2> QED BY <2>2, <2>3
<1>3. Routed'
  BY <1>1, RoutesStay DEF ExchangeInv
<1>4. StagesInv'
  <2>1. retained' = NoValue \/ Streamed(retained')
    BY <1>1 DEF ExchangeInv, StagesInv
  <2>2. received' \in Nat
    BY <1>1 DEF ExchangeInv, StagesInv
  <2>3. Streamed(retained') <=> Streamed(retained)'
    BY DEF Streamed, Answer, Lengths
  <2> QED BY <1>1, <1>2, <2>1, <2>2, <2>3 DEF StagesInv
<1>5. True(delivered', incoming)
  BY <1>1, SentIsTrue DEF True
<1>6. Exchange!AllowedMethods' = Exchange!AllowedMethods
  BY <1>1 DEF Exchange!AllowedMethods, Exchange!Positions, Exchange!Standard
<1> QED BY <1>1, <1>3, <1>4, <1>5, <1>6

LEMMA StillTrue ==
    ASSUME NEW s, NEW q, Exchange!AllowedMethods' = Exchange!AllowedMethods,
           True(s, q), delivered' = s, incoming' = q
    PROVE  True(delivered, incoming)'
BY DEF True, Exchange!ToSet

(* What does not send keeps what was sent, and the routes.                 *)
LEMMA KeptTrue ==
    ASSUME ExchangeInv, mounted' = mounted, delivered' = delivered,
           incoming' = incoming
    PROVE  Routed' /\ (delivered # NoValue => True(delivered, incoming))'
<1>1. Routed'
  BY RoutesStay DEF ExchangeInv
<1>2. Exchange!AllowedMethods' = Exchange!AllowedMethods
  BY DEF Exchange!AllowedMethods, Exchange!Positions, Exchange!Standard
<1>3. delivered # NoValue => True(delivered, incoming)
  BY DEF ExchangeInv
<1>4. True(delivered, incoming) => True(delivered, incoming)'
  BY <1>2, StillTrue
<1> QED BY <1>1, <1>3, <1>4

(* Operators of a request alone are the same after a step.                 *)
LEMMA Alike ==
    /\ \A q : Exchange!Refusal(q)' = Exchange!Refusal(q)
    /\ \A h, q : Exchange!HandlerRefusal(h, q)' = Exchange!HandlerRefusal(h, q)
    /\ \A e : IsError(e)' <=> IsError(e)
    /\ \A e : StatusOf(e)' = StatusOf(e)
    /\ \A r : Streamed(r)' <=> Streamed(r)
OBVIOUS

(* An error that is raised without an answer.                              *)
LEMMA RaiseStep ==
    ASSUME ExchangeGiven, ExchangeInv, progress # "idle",
           NEW e, IsError(e), raised' = e, e # NoValue, progress' = "error",
           \A g \in filtered' : g = e,
           UNCHANGED <<mounted, incoming, retained, consumed, delivered,
                       addressed, received>>
    PROVE  ExchangeInv'
<1>1. delivered = NoValue /\ incoming \in Incoming
  BY DEF ExchangeInv, StagesInv
<1>2. Routed'
  BY RoutesStay DEF ExchangeInv
<1>3. StagesInv'
  BY <1>1, Alike DEF ExchangeInv, StagesInv
<1>4. ErrorsInv'
  BY <1>1, Alike DEF ErrorsInv
<1>5. HandledInv'
  BY <1>1, Alike DEF ExchangeInv, HandledInv
<1> QED BY <1>1, <1>2, <1>3, <1>4, <1>5 DEF ExchangeInv

LEMMA ErrorsAreSome ==
    ASSUME ExchangeGiven, NEW e, IsError(e) PROVE e # NoValue
BY DEF ExchangeGiven, IsError

LEMMA ReceiveStep ==
    ASSUME ExchangeGiven, ExchangeInv, NEW q \in Incoming, Exchange!Receive(q)
    PROVE  ExchangeInv'
<1>1. /\ progress' = "arrived" /\ incoming' = q /\ delivered' = NoValue
      /\ addressed' = NoValue /\ raised' = NoValue /\ filtered' = {}
      /\ received' = received + 1 /\ mounted' = mounted
      /\ retained' = retained /\ consumed' = consumed
  BY DEF Exchange!Receive, Exchange!Fixed
<1>2. Routed'
  BY <1>1, RoutesStay DEF ExchangeInv
<1>3. StagesInv'
  BY <1>1, Alike DEF ExchangeInv, StagesInv
<1> QED BY <1>1, <1>2, <1>3 DEF ExchangeInv, ErrorsInv, HandledInv

LEMMA RefuseStep ==
    ASSUME ExchangeGiven, ExchangeInv,
           Exchange!NotFoundFallback \/ Exchange!Refuse
    PROVE  ExchangeInv'
<1>1. PICK e : /\ \/ e = Exchange!Kind("NotFound")
                  \/ e = Exchange!Refusal(incoming) /\ e # NoValue
               /\ raised' = e /\ progress' = "error" /\ filtered' = filtered
               /\ progress = "arrived"
               /\ UNCHANGED <<mounted, incoming, retained, consumed, delivered,
                              addressed, received>>
  BY DEF Exchange!NotFoundFallback, Exchange!Refuse, Exchange!Raise, Exchange!Fixed
<1>2. IsError(e)
  BY <1>1, RefusalsAre
<1>3. filtered' = {}
  BY <1>1 DEF ExchangeInv, StagesInv
<1> QED BY <1>1, <1>2, <1>3, ErrorsAreSome, RaiseStep

LEMMA DispatchStep ==
    ASSUME ExchangeGiven, ExchangeInv, Exchange!Dispatch
    PROVE  ExchangeInv'
<1> DEFINE route == Exchange!Chosen(incoming.method)
<1>1. /\ progress = "arrived" /\ mounted' = mounted
      /\ UNCHANGED <<retained, consumed, delivered, filtered, incoming, received>>
      /\ Exchange!Refusal(incoming) = NoValue
      /\ Exchange!FallbackRouting \/ mounted # << >>
  BY DEF Exchange!Dispatch, Exchange!Fixed
<1>2. /\ raised = NoValue /\ filtered = {} /\ incoming \in Incoming
      /\ delivered = NoValue
  BY <1>1 DEF ExchangeInv, StagesInv
<1>3. CASE progress' = "error"
  <2>1. PICK e : /\ e \in {Exchange!Kind("NotFound"), Exchange!Kind("MethodNotAllowed")}
                 /\ raised' = e /\ addressed' = addressed
    <3>1. "error" # "handler"
      OBVIOUS
    <3> QED BY <1>3, <3>1 DEF Exchange!Dispatch, Exchange!Raise
  <2>2. IsError(e)
    BY <2>1, RefusalsAre
  <2> QED BY <1>1, <1>2, <1>3, <2>1, <2>2, ErrorsAreSome, RaiseStep
<1>4. CASE progress' # "error"
  <2>1. /\ progress' = "handler" /\ addressed' = mounted[route]
        /\ route # NoValue /\ raised' = raised
        /\ Exchange!MethodMatches(mounted[route].method, incoming.method)
    BY <1>4 DEF Exchange!Dispatch, Exchange!Raise
  <2>2. HasStatus(mounted[route])
    BY <2>1, ChosenAreMade DEF ExchangeInv
  <2>3. Routed'
    BY <1>1, RoutesStay DEF ExchangeInv
  <2>4. StagesInv'
    BY <1>1, <1>2, <2>1, <2>2, Alike DEF ExchangeInv, StagesInv, HasStatus
  <2>5. ErrorsInv' /\ HandledInv'
    BY <1>1, <1>2, <2>1, Alike DEF ErrorsInv, HandledInv
  <2> QED BY <1>1, <1>2, <2>3, <2>4, <2>5 DEF ExchangeInv
<1> QED BY <1>3, <1>4

(* What handlers and filters answer with, and what is made of an error, if *)
(* its status is a number that a response takes.                           *)
LEMMA HandlersAnswer ==
    ASSUME ExchangeGiven, ExchangeInv, progress = "handler",
           NEW r \in Exchange!HandlerResults(addressed)
    PROVE  Streamed(r)
<1>1. /\ received \in Nat /\ (retained = NoValue \/ Streamed(retained))
      /\ HasStatus(addressed)
  BY DEF ExchangeInv, StagesInv
<1>2. /\ NoValue \notin {"sse", "file"} /\ << >> \in Lengths
      /\ \A x \in Results : x \in Answer /\ x.stream = NoValue
  BY DEF ExchangeGiven, Lengths
<1>3. CASE addressed.handler = "sse"
  <2>1. r = Exchange!Sse(received)
    BY <1>3 DEF Exchange!HandlerResults
  <2>2. r = [status |-> 200, size |-> 0, lengths |-> << >>, stream |-> "sse",
             id |-> received, allow |-> NoValue]
    BY <2>1 DEF Exchange!Sse, Exchange!Response
  <2> QED BY <1>1, <1>2, <2>2 DEF Streamed, Answer
<1>4. CASE addressed.handler = "plain"
  <2>0. "plain" # "sse"
    OBVIOUS
  <2>1. \/ r \in Results \/ r = Exchange!FileStream(received, << >>)
        \/ r = retained /\ retained # NoValue
    BY <1>4, <2>0 DEF Exchange!HandlerResults
  <2>2. CASE r \in Results
    BY <1>2, <2>2 DEF Streamed
  <2>3. CASE r = Exchange!FileStream(received, << >>)
    <3>1. r = [status |-> 200, size |-> 0, lengths |-> << >>, stream |-> "file",
               id |-> received, allow |-> NoValue]
      BY <2>3 DEF Exchange!FileStream, Exchange!Response
    <3> QED BY <1>1, <1>2, <3>1 DEF Streamed, Answer
  <2>4. CASE r = retained /\ retained # NoValue
    BY <1>1, <2>4
  <2> QED BY <2>1, <2>2, <2>3, <2>4
<1>5. CASE addressed.handler \notin {"sse", "plain"}
  <2>1. r = Exchange!Response(addressed.status, 1)
    BY <1>5 DEF Exchange!HandlerResults
  <2>2. addressed.status \in Nat
    BY <1>1, <1>5 DEF HasStatus
  <2> QED BY <2>1, <2>2, AnswersMade
<1> QED BY <1>3, <1>4, <1>5

LEMMA HandleStep ==
    ASSUME ExchangeGiven, ExchangeInv, Exchange!Handle
    PROVE  ExchangeInv'
<1>1. /\ progress = "handler" /\ raised = NoValue /\ filtered = {}
      /\ delivered = NoValue /\ incoming \in Incoming
  BY DEF Exchange!Handle, ExchangeInv, StagesInv
<1>2. CASE \E r \in Exchange!HandlerResults(addressed) :
              /\ Exchange!HandlerRefusal(addressed.handler, incoming) = NoValue
              /\ Exchange!Send(r) /\ raised' = raised /\ filtered' = filtered
  <2>1. PICK r \in Exchange!HandlerResults(addressed) :
              /\ Exchange!HandlerRefusal(addressed.handler, incoming) = NoValue
              /\ Exchange!Send(r) /\ raised' = raised /\ filtered' = filtered
    BY <1>2
  <2>2. Streamed(r)
    BY <1>1, HandlersAnswer
  <2>3. progress # "idle"
    BY <1>1
  <2>4. /\ Routed' /\ StagesInv' /\ delivered' = Finished(r)
        /\ True(delivered', incoming)
        /\ Exchange!AllowedMethods' = Exchange!AllowedMethods
        /\ incoming' = incoming /\ addressed' = addressed
    BY <2>1, <2>2, <2>3, AnswerSent
  <2>5. True(delivered, incoming)'
    BY <2>4, StillTrue
  <2>6. ErrorsInv'
    BY <1>1, <2>1 DEF ErrorsInv
  <2>7. HandledInv'
    BY <2>1, <2>4, Alike DEF ExchangeInv, HandledInv
  <2> QED BY <2>4, <2>5, <2>6, <2>7 DEF ExchangeInv
<1>3. CASE \E e : /\ e \in Errors \/ (e = Exchange!HandlerRefusal(addressed.handler, incoming)
                                      /\ e # NoValue)
                  /\ raised' = e /\ progress' = "error" /\ filtered' = filtered
                  /\ UNCHANGED <<mounted, incoming, retained, consumed, delivered,
                                 addressed, received>>
  <2>1. PICK e : /\ e \in Errors \/ (e = Exchange!HandlerRefusal(addressed.handler, incoming)
                                      /\ e # NoValue)
                 /\ raised' = e /\ progress' = "error" /\ filtered' = filtered
                 /\ UNCHANGED <<mounted, incoming, retained, consumed, delivered,
                                addressed, received>>
    BY <1>3
  <2>2. IsError(e)
    BY <2>1, RefusalsAre DEF ExchangeGiven
  <2> QED BY <1>1, <2>1, <2>2, ErrorsAreSome, RaiseStep
<1> QED BY <1>2, <1>3 DEF Exchange!Handle, Exchange!Raise, Exchange!Fixed

LEMMA SkipStep ==
    ASSUME ExchangeGiven, ExchangeInv, Exchange!Skip
    PROVE  ExchangeInv'
<1>1. UNCHANGED <<mounted, incoming, progress, raised, filtered, retained,
                  consumed, delivered, addressed, received>>
  BY DEF Exchange!Skip, Exchange!Fixed
<1>2. Routed' /\ (delivered # NoValue => True(delivered, incoming))'
  BY <1>1, KeptTrue
<1> QED BY <1>1, <1>2, Alike DEF ExchangeInv, StagesInv, ErrorsInv, HandledInv, HasStatus

(* What is made of an error.                                               *)
LEMMA ErrorsAnswer ==
    ASSUME ExchangeGiven, NEW e, IsError(e)
    PROVE  Streamed(Exchange!FromError(e))
<1> DEFINE c == Exchange!HttpStatusCode(e)
<1>1. \A k \in DOMAIN Exchange!KindStatus : Exchange!KindStatus[k] \in Nat
  BY DEF Exchange!KindStatus
<1>2. c \in Nat
  BY <1>1 DEF IsError, Exchange!HttpStatusCode
<1> QED BY <1>2, AnswersMade DEF Exchange!FromError

(* An answer to an error, with which the error goes or stays.              *)
LEMMA FilterStep ==
    ASSUME ExchangeGiven, ExchangeInv, Exchange!Filter
    PROVE  ExchangeInv'
<1> DEFINE copy == Exchange!CloneForFilter(raised)
<1>1. /\ progress = "error" /\ raised # NoValue /\ delivered = NoValue
      /\ incoming \in Incoming /\ IsError(raised)
      /\ \A e \in filtered : e = raised
  BY DEF Exchange!Filter, ExchangeInv, StagesInv, ErrorsInv
<1>2. copy = raised
  BY <1>1, ClonesAreWhole
<1> HIDE DEF copy
<1>3. CASE /\ filtered' = filtered \cup {copy}
           /\ UNCHANGED <<mounted, incoming, progress, raised, retained, consumed,
                          delivered, addressed, received>>
  <2>1. Routed' /\ (delivered # NoValue => True(delivered, incoming))'
    BY <1>3, KeptTrue
  <2>2. \A e \in filtered' : e = raised
    BY <1>1, <1>2, <1>3
  <2>3. StagesInv'
    BY <1>1, <1>3, Alike DEF ExchangeInv, StagesInv
  <2>4. ErrorsInv' /\ HandledInv'
    BY <1>1, <1>3, <2>2, Alike DEF ExchangeInv, ErrorsInv, HandledInv
  <2> QED BY <2>1, <2>3, <2>4 DEF ExchangeInv
<1>4. CASE /\ \E r \in Results \cup {Exchange!FromError(copy)} : Exchange!Send(r)
           /\ raised' = NoValue /\ filtered' = filtered \cup {copy}
  <2>1. PICK r \in Results \cup {Exchange!FromError(copy)} : Exchange!Send(r)
    BY <1>4
  <2>2. Streamed(r)
    BY <1>1, <1>2, ErrorsAnswer DEF ExchangeGiven, Streamed
  <2>3. progress # "idle"
    BY <1>1
  <2>4. /\ Routed' /\ StagesInv' /\ delivered' = Finished(r)
        /\ True(delivered', incoming)
        /\ Exchange!AllowedMethods' = Exchange!AllowedMethods
        /\ incoming' = incoming /\ addressed' = addressed
    BY <2>1, <2>2, <2>3, AnswerSent
  <2>5. True(delivered, incoming)'
    BY <2>4, StillTrue
  <2>6. ErrorsInv'
    BY <1>4 DEF ErrorsInv
  <2>7. HandledInv'
    <3>1. filtered' # {}
      BY <1>4
    <3> QED BY <2>4, <3>1, Alike DEF ExchangeInv, HandledInv
  <2> QED BY <2>4, <2>5, <2>6, <2>7 DEF ExchangeInv
<1>5. CASE /\ \E e \in Errors : raised' = e
           /\ progress' = "error" /\ filtered' = {}
           /\ UNCHANGED <<mounted, incoming, retained, consumed, delivered,
                          addressed, received>>
  <2>1. PICK e \in Errors : raised' = e
    BY <1>5
  <2>2. IsError(e)
    BY DEF ExchangeGiven
  <2> QED BY <1>1, <1>5, <2>1, <2>2, ErrorsAreSome, RaiseStep
<1> QED BY <1>3, <1>4, <1>5 DEF Exchange!Filter, Exchange!Raise, Exchange!Fixed, copy

LEMMA FailStep ==
    ASSUME ExchangeGiven, ExchangeInv, Exchange!Fail
    PROVE  ExchangeInv'
<1> DEFINE r == Exchange!FromError(raised)
<1>1. /\ progress = "error" /\ raised # NoValue /\ incoming \in Incoming
      /\ IsError(raised) /\ (\A e \in filtered : e = raised)
      /\ consumed \subseteq Nat /\ progress # "idle"
  BY DEF Exchange!Fail, ExchangeInv, StagesInv, ErrorsInv
<1>2. Exchange!Send(r) /\ raised' = raised /\ filtered' = filtered
  BY DEF Exchange!Fail
<1>3. Streamed(r)
  BY <1>1, ErrorsAnswer
<1>4. Finished(r).status = StatusOf(raised)
  BY <1>1, ErrorSent
<1> HIDE DEF r
<1>5. /\ Routed' /\ StagesInv' /\ delivered' = Finished(r)
      /\ True(delivered', incoming)
      /\ Exchange!AllowedMethods' = Exchange!AllowedMethods
      /\ incoming' = incoming /\ addressed' = addressed
  BY <1>1, <1>2, <1>3, AnswerSent
<1>6. True(delivered, incoming)'
  BY <1>5, StillTrue
<1>7. ErrorsInv'
  BY <1>1, <1>2, <1>4, <1>5, Alike DEF ErrorsInv
<1>8. HandledInv'
  BY <1>1, <1>2, <1>5, Alike DEF ExchangeInv, HandledInv
<1> QED BY <1>5, <1>6, <1>7, <1>8 DEF ExchangeInv

LEMMA ExchangeStep ==
    ASSUME ExchangeGiven, ExchangeInv, [Exchange!Next]_ExchangeVars
    PROVE  ExchangeInv'
<1>1. CASE Exchange!Next
  BY <1>1, ReceiveStep, RefuseStep, DispatchStep, HandleStep, SkipStep,
     FilterStep, FailStep DEF Exchange!Next
<1>2. CASE UNCHANGED ExchangeVars
  <2>1. UNCHANGED <<mounted, incoming, progress, raised, filtered, retained,
                    consumed, delivered, addressed, received>>
    BY <1>2 DEF ExchangeVars
  <2>2. Routed' /\ (delivered # NoValue => True(delivered, incoming))'
    BY <2>1, KeptTrue
  <2> QED BY <2>1, <2>2, Alike DEF ExchangeInv, StagesInv, ErrorsInv, HandledInv, HasStatus
<1> QED BY <1>1, <1>2

LEMMA ExchangeAnswers ==
    ASSUME ExchangeGiven, ExchangeInv
    PROVE  /\ Exchange!HandlesWhole
           /\ Exchange!StatusKept
           /\ Exchange!AllowIsTrue
           /\ Exchange!SentAsSaid
           /\ Exchange!NotExcluded
<1>1. Exchange!HandlesWhole
  <2> SUFFICES ASSUME addressed # NoValue
               PROVE  /\ incoming.size <= BodyLimit /\ ~incoming.broken
                      /\ \A n \in Exchange!ToSet(incoming.lengths) : n = incoming.size
    BY DEF Exchange!HandlesWhole
  <2>1. incoming \in Incoming /\ Exchange!Refusal(incoming) = NoValue
    BY DEF ExchangeInv, HandledInv
  <2> QED BY <2>1, LetThrough
<1>2. Exchange!StatusKept
  BY DEF ExchangeInv, ErrorsInv, Exchange!StatusKept, StatusOf
<1>3. Exchange!AllowIsTrue
  <2>1. delivered # NoValue /\ delivered.allow # NoValue =>
          \A m \in Exchange!Standard :
             (m \in delivered.allow) <=> Exchange!Takes(Exchange!Chosen(m), m)
    <3>1. delivered # NoValue /\ delivered.allow # NoValue
            => delivered.allow = Exchange!AllowedMethods
      BY DEF ExchangeInv, True
    <3> QED BY <3>1, AllowedAreTaken DEF ExchangeInv
  <2>2. Exchange!Positions(mounted, "ALL") = {} =>
          \A m \in Exchange!Standard :
              Exchange!Takes(Exchange!AxumRoute(mounted, m), m)
              \/ Exchange!Takes(Exchange!ApplicationRoute(mounted, m), m)
              => Exchange!AxumRoute(mounted, m) = Exchange!ApplicationRoute(mounted, m)
    BY RoutesTaking DEF ExchangeInv
  <2> QED BY <2>1, <2>2 DEF Exchange!AllowIsTrue
<1>4. Exchange!SentAsSaid
  BY DEF ExchangeInv, True, Exchange!SentAsSaid
<1>5. Exchange!NotExcluded
  <2> DEFINE Json == {"json", "json response", "validated json"}
  <2> SUFFICES ASSUME delivered # NoValue, raised = NoValue, filtered = {},
                      addressed # NoValue, addressed.handler \in Json,
                      incoming.accept # << >>
               PROVE  LET of == {i \in DOMAIN incoming.accept :
                                  incoming.accept[i].of \in DOMAIN Exchange!JsonSpecificity}
                          S(i) == Exchange!JsonSpecificity[incoming.accept[i].of]
                      IN  \E i \in of : /\ incoming.accept[i].q > 0
                                        /\ \A j \in of : S(j) <= S(i)
    BY DEF Exchange!NotExcluded
  <2>1. /\ incoming \in Incoming
        /\ Exchange!HandlerRefusal(addressed.handler, incoming) = NoValue
    BY DEF ExchangeInv, HandledInv
  <2>2. \A k : Exchange!Kind(k) # NoValue
    BY DEF ExchangeGiven, Exchange!Kind
  <2>3. Exchange!Accepts(incoming.accept, Exchange!JsonSpecificity)
    BY <2>1, <2>2 DEF Exchange!HandlerRefusal
  <2>4. incoming.accept \in Ranges
    BY <2>1 DEF ExchangeGiven
  <2> QED BY <2>3, <2>4, AcceptsJson
<1> QED BY <1>1, <1>2, <1>3, <1>4, <1>5

-----------------------------------------------------------------------------
(* Validation and serialization (Payloads).                                *)

Kinds == {"json", "broken", "text", "stream", "empty"}
PayloadGiven ==
    /\ NoValue \notin {"ok", "loose", "bad", "null"}
    /\ \A t \in BodyTypes : t.required \subseteq t.fields /\ t.fields \subseteq Fields
    /\ \A q \in Queries : q \in Seq(Fields \X {"ok", "loose", "bad", "null"})
    /\ \A r \in Replies :
          /\ DOMAIN r = {"kind", "items", "lengths"} /\ r.kind \in Kinds
          /\ \A o \in Payload!ToSet(r.items) : o = NoValue \/ DOMAIN o = Fields
          /\ r.kind = "json" =>
                \A i \in DOMAIN r.lengths : r.lengths[i] = Payload!Size(r.items)

Validators == [type : BodyTypes, options : OptionSets \cup {NoValue}]

(* The inductive invariant: what a handler is to find holds before each    *)
(* validator too.  A query that is still there is what its map says.       *)
Going == checking \in {"validating", "handled"}
ValidInv ==
    Going =>
        /\ validators \in Seq(Validators)
        /\ pairs # NoValue => pairs \in Queries /\ content = Payload!AsMap(pairs)
        /\ validators # << >> =>
            LET v == validators[Len(validators)] IN
            /\ Payload!Valid(content, pairs, v.type)
            /\ \A f \in v.type.fields : Payload!QueryValue(f) = content[f]
            /\ "whitelist" \in Payload!Effective(v) => \A f \in Fields :
                  Payload!QueryValue(f) # NoValue => f \in v.type.allowed \cup v.type.fields

WholeInv ==
    Going =>
        /\ validators # << >> /\ "forbid" \in Payload!Effective(validators[1])
              => Payload!Given(posted.data) \subseteq validators[1].type.allowed
        /\ ~Payload!Effects("whitelist") /\ ~Payload!Effects("transform") =>
              content = posted.data /\ pairs = posted.query
        /\ \A i \in DOMAIN lengths :
              lengths[i] = Payload!Cardinality(Payload!Given(content))
        /\ origin # "body" => lengths = << >>

(* What a type accepts it accepts as it writes it.                         *)
LEMMA WrittenIsValid ==
    ASSUME PayloadGiven, NEW t \in BodyTypes, NEW o, NEW p,
           Payload!Valid(o, p, t)
    PROVE  Payload!Valid(Payload!Written(o, t), NoValue, t)
<1> DEFINE w == Payload!Written(o, t)
<1>1. /\ t.required \subseteq t.fields /\ t.fields \subseteq Fields
      /\ NoValue \notin {"ok", "loose", "bad", "null"}
  BY DEF PayloadGiven
<1>2. /\ \A f \in t.required : o[f] \notin {NoValue, "null"}
      /\ \A f \in t.fields : o[f] # "bad"
  BY DEF Payload!Valid
<1>3. \A f \in t.fields :
          \/ o[f] = "loose" /\ w[f] = "ok"
          \/ o[f] # "loose" /\ o[f] = NoValue /\ w[f] \in {"null", o[f]}
          \/ o[f] # "loose" /\ o[f] # NoValue /\ w[f] = o[f]
  BY <1>1 DEF Payload!Written
<1> HIDE DEF w
<1>4. "ok" # "null" /\ "ok" # "bad" /\ "null" # "bad"
  OBVIOUS
<1>5. \A f \in t.required : w[f] \notin {NoValue, "null"}
  BY <1>1, <1>2, <1>3, <1>4
<1>6. \A f \in t.fields : w[f] # "bad"
  BY <1>1, <1>2, <1>3, <1>4
<1> QED BY <1>5, <1>6 DEF Payload!Valid, w

(* A parameter that is given once is found in the query as in its map.     *)
LEMMA OnceIsOne ==
    ASSUME PayloadGiven, NEW q \in Queries, NEW f \in Fields,
           f \notin Payload!Repeated(q)
    PROVE  LET at == {i \in DOMAIN q : q[i][1] = f}
           IN  (IF at = {} THEN NoValue
                ELSE q[CHOOSE i \in at : \A j \in at : i <= j][2])
               = Payload!AsMap(q)[f]
<1> DEFINE at == {i \in DOMAIN q : q[i][1] = f}
           first == CHOOSE i \in at : \A j \in at : i <= j
           last == CHOOSE i \in at : \A j \in at : j <= i
<1>1. \A i, j \in at : i = j
  BY DEF Payload!Repeated
<1>2. Payload!AsMap(q)[f] = IF at = {} THEN NoValue ELSE q[last][2]
  BY DEF Payload!AsMap
<1>3. DOMAIN q \subseteq Nat
  <2>1. Len(q) \in Nat /\ DOMAIN q = 1..Len(q)
    BY DEF PayloadGiven
  <2> QED BY <2>1
<1>4. at \in SUBSET Nat
  BY <1>3
<1>5. CASE at # {}
  <2> HIDE DEF at
  <2>1. PICK i \in at : \A j \in at : j = i
    BY <1>1, <1>5
  <2>2. i <= i
    BY <1>4, <2>1
  <2>3. \A j \in at : i <= j /\ j <= i
    BY <2>1, <2>2
  <2>4. first \in at /\ last \in at
    BY <2>1, <2>3
  <2>5. first = last
    BY <2>1, <2>4
  <2> QED BY <1>2, <1>5, <2>5 DEF at
<1>6. CASE at = {}
  BY <1>2, <1>6
<1> QED BY <1>5, <1>6

LEMMA PayloadBegins ==
    ASSUME PayloadGiven, Payload!Init PROVE ValidInv /\ WholeInv
<1>1. CASE Payload!Requested
  <2>1. /\ validators = << >>
        /\ pairs # NoValue => pairs \in Queries /\ content = Payload!AsMap(pairs)
        /\ origin # "body" => lengths = << >>
        /\ content = posted.data /\ pairs = posted.query
    BY <1>1 DEF Payload!Requested
  <2>2. \A i \in DOMAIN lengths :
           lengths[i] = Payload!Cardinality(Payload!Given(content))
    BY <1>1 DEF Payload!Requested
  <2> QED BY <2>1, <2>2 DEF ValidInv, WholeInv
<1>2. CASE Payload!Handled
  <2>1. ~Going
    BY <1>2 DEF Payload!Handled, Going
  <2> QED BY <2>1 DEF ValidInv, WholeInv
<1> QED BY <1>1, <1>2 DEF Payload!Init

(* A validator that refuses ends it; one that accepts rewrites, and the    *)
(* handler finds what it accepted.                                         *)
LEMMA OptionsAlike ==
    /\ \A v : inherited' = inherited => Payload!Effective(v)' = Payload!Effective(v)
    /\ \A o : Payload!Given(o)' = Payload!Given(o)
    /\ \A q : Payload!AsMap(q)' = Payload!AsMap(q)
    /\ \A o, q, t : Payload!Valid(o, q, t)' <=> Payload!Valid(o, q, t)
BY DEF Payload!Effective, Payload!Given, Payload!AsMap, Payload!Valid, Payload!Repeated

LEMMA AcceptedIsValid ==
    ASSUME PayloadGiven, ValidInv, Going,
           NEW v \in Validators, Payload!Accepted(v)
    PROVE  LET o == Payload!Rewritten(v)
               q == Payload!QueryLeft(v, {"whitelist", "transform"})
           IN  /\ Payload!Valid(o, q, v.type)
               /\ q # NoValue => q = pairs /\ o = content
               /\ "whitelist" \in Payload!Effective(v) =>
                     /\ q = NoValue
                     /\ \A f \in Fields :
                          o[f] # NoValue => f \in v.type.allowed \cup v.type.fields
<1> DEFINE E == Payload!Effective(v)
           s == Payload!Stripped(v)
           o == Payload!Rewritten(v)
           q == Payload!QueryLeft(v, {"whitelist", "transform"})
           p == Payload!QueryLeft(v, {"whitelist"})
           t == v.type
<1>1. Payload!Valid(s, p, t) /\ t \in BodyTypes
  BY DEF Payload!Accepted, Validators
<1>2. Payload!Valid(s, NoValue, t)
  BY <1>1 DEF Payload!Valid
<1>3. /\ "whitelist" \in E \/ "transform" \in E => q = NoValue
      /\ "whitelist" \notin E /\ "transform" \notin E => q = pairs /\ p = pairs
  BY DEF Payload!QueryLeft
<1>4. /\ "transform" \in E => o = Payload!Written(s, t)
      /\ "transform" \notin E => o = s
      /\ "whitelist" \in E => s = Payload!Only(content, t.allowed)
      /\ "whitelist" \notin E => s = content
  BY DEF Payload!Rewritten, Payload!Stripped
<1> HIDE DEF E, s, o, q, p, t
<1>5. Payload!Valid(Payload!Written(s, t), NoValue, t)
  BY <1>1, <1>2, WrittenIsValid
<1>6. Payload!Valid(o, q, t)
  BY <1>1, <1>2, <1>3, <1>4, <1>5
<1>7. q # NoValue => q = pairs /\ o = content
  BY <1>3, <1>4
<1>8. ASSUME "whitelist" \in E, NEW f \in Fields, o[f] # NoValue
      PROVE  f \in t.allowed \cup t.fields
  <2>1. CASE "transform" \in E
    <3>1. o = Payload!Written(s, t)
      BY <1>4, <2>1
    <3> QED BY <1>8, <3>1 DEF Payload!Written
  <2>2. CASE "transform" \notin E
    <3>1. o = Payload!Only(content, t.allowed)
      BY <1>4, <1>8, <2>2
    <3> QED BY <1>8, <3>1 DEF Payload!Only
  <2> QED BY <2>1, <2>2
<1>9. "whitelist" \in E => q = NoValue
  BY <1>3
<1> QED BY <1>6, <1>7, <1>8, <1>9 DEF E, o, q, t

LEMMA ValidStep ==
    ASSUME PayloadGiven, ValidInv, NEW v \in Validators, Payload!Validate(v)
    PROVE  ValidInv'
<1>1. checking = "validating" /\ Going /\ inherited' = inherited
  BY DEF Payload!Validate, Payload!Fixed, Going
<1>2. CASE ~Payload!Accepted(v)
  <2>1. ~Going'
    BY <1>2 DEF Payload!Validate, Going
  <2> QED BY <2>1 DEF ValidInv
<1>3. CASE Payload!Accepted(v)
  <2> DEFINE o == Payload!Rewritten(v)
             q == Payload!QueryLeft(v, {"whitelist", "transform"})
             n == Len(validators')
  <2>1. content' = o /\ pairs' = q /\ validators' = Append(validators, v)
    BY <1>3 DEF Payload!Validate
  <2>2. validators \in Seq(Validators)
    BY <1>1 DEF ValidInv
  <2>3. /\ validators' \in Seq(Validators) /\ validators' # << >>
        /\ validators'[n] = v
    BY <2>1, <2>2
  <2>4. /\ Payload!Valid(o, q, v.type)
        /\ q # NoValue => q = pairs /\ o = content
        /\ "whitelist" \in Payload!Effective(v) =>
              /\ q = NoValue
              /\ \A f \in Fields :
                   o[f] # NoValue => f \in v.type.allowed \cup v.type.fields
    BY <1>1, <1>3, AcceptedIsValid
  <2> HIDE DEF o, q, n
  <2>5. pairs' # NoValue => pairs' \in Queries /\ content' = Payload!AsMap(pairs')
    BY <1>1, <2>1, <2>4 DEF ValidInv
  <2>6. Payload!Valid(content', pairs', v.type)
    BY <2>1, <2>4
  <2>7. \A f \in v.type.fields : Payload!QueryValue(f)' = content'[f]
    <3>1. v.type \in BodyTypes
      BY DEF Validators
    <3> TAKE f \in v.type.fields
    <3>2. f \in Fields
      BY <3>1 DEF PayloadGiven
    <3>3. CASE pairs' = NoValue
      BY <3>3 DEF Payload!QueryValue
    <3>4. CASE pairs' # NoValue
      <4>1. f \notin Payload!Repeated(pairs')
        BY <2>6, <3>4 DEF Payload!Valid
      <4> DEFINE at == {i \in DOMAIN pairs' : pairs'[i][1] = f}
      <4>2. Payload!QueryValue(f)' =
              IF at = {} THEN NoValue
              ELSE pairs'[CHOOSE i \in at : \A j \in at : i <= j][2]
        BY <3>4 DEF Payload!QueryValue
      <4>3. pairs' \in Queries /\ content' = Payload!AsMap(pairs')
        BY <2>5, <3>4
      <4>4. \A p \in Queries : f \notin Payload!Repeated(p) =>
              LET is == {i \in DOMAIN p : p[i][1] = f}
              IN  (IF is = {} THEN NoValue
                   ELSE p[CHOOSE i \in is : \A j \in is : i <= j][2])
                  = Payload!AsMap(p)[f]
        BY <3>2, OnceIsOne
      <4>5. (IF at = {} THEN NoValue
             ELSE pairs'[CHOOSE i \in at : \A j \in at : i <= j][2])
            = Payload!AsMap(pairs')[f]
        BY <4>1, <4>3, <4>4
      <4> QED BY <4>2, <4>3, <4>5
    <3> QED BY <3>3, <3>4
  <2>8. "whitelist" \in Payload!Effective(v) => \A f \in Fields :
            Payload!QueryValue(f)' # NoValue => f \in v.type.allowed \cup v.type.fields
    BY <2>1, <2>4 DEF Payload!QueryValue
  <2>9. /\ Payload!Valid(content, pairs, v.type)'
        /\ Payload!Effective(v)' = Payload!Effective(v)
        /\ Payload!AsMap(pairs)' = Payload!AsMap(pairs')
    BY <1>1, <2>6, OptionsAlike
  <2> QED BY <2>3, <2>5, <2>6, <2>7, <2>8, <1>1, OptionsAlike DEF ValidInv, n
<1> QED BY <1>2, <1>3

LEMMA WholeStep ==
    ASSUME PayloadGiven, ValidInv, WholeInv,
           NEW v \in Validators, Payload!Validate(v)
    PROVE  WholeInv'
<1>1. /\ checking = "validating" /\ Going
      /\ UNCHANGED <<inherited, origin, posted>>
  BY DEF Payload!Validate, Payload!Fixed, Going
<1>2. CASE ~Payload!Accepted(v)
  <2>1. ~Going'
    BY <1>2 DEF Payload!Validate, Going
  <2> QED BY <2>1 DEF WholeInv
<1>3. CASE Payload!Accepted(v)
  <2> DEFINE E == Payload!Effective(v)
             o == Payload!Rewritten(v)
             q == Payload!QueryLeft(v, {"whitelist", "transform"})
  <2>1. /\ content' = o /\ pairs' = q /\ validators' = Append(validators, v)
        /\ lengths' = Payload!LengthsLeft(v)
    BY <1>3 DEF Payload!Validate
  <2>2. validators \in Seq(Validators)
    BY <1>1 DEF ValidInv
  <2>3. /\ validators' # << >> /\ Len(validators) \in Nat
        /\ DOMAIN validators = 1..Len(validators)
        /\ DOMAIN validators' = 1..(Len(validators) + 1)
        /\ validators'[Len(validators) + 1] = v
        /\ \A i \in DOMAIN validators : validators'[i] = validators[i]
    BY <2>1, <2>2
  <2>4. /\ Payload!Effective(validators[1])' = Payload!Effective(validators'[1])
         /\ \A of : Payload!Effects(of)' =
               \E i \in DOMAIN validators' : of \in Payload!Effective(validators'[i])
    BY <1>1 DEF Payload!Effective, Payload!Effects
  <2>5. ASSUME "forbid" \in Payload!Effective(validators'[1])
        PROVE  Payload!Given(posted.data) \subseteq validators'[1].type.allowed
    <3>1. CASE validators = << >>
      <4>1. validators'[1] = v
        BY <2>2, <2>3, <3>1
      <4>2. content = posted.data /\ pairs = posted.query
        BY <1>1, <3>1 DEF WholeInv, Payload!Effects
      <4>3. "forbid" \in E
        BY <2>5, <4>1
      <4>4. Payload!Unknown(v.type) = {}
        BY <1>3, <4>3 DEF Payload!Accepted, Payload!Refused
      <4>5. CASE pairs = NoValue
        BY <4>1, <4>2, <4>4, <4>5 DEF Payload!Unknown
      <4>6. CASE pairs # NoValue
        <5>1. content = Payload!AsMap(pairs)
          BY <1>1, <4>6 DEF ValidInv
        <5>2. {pairs[i][1] : i \in DOMAIN pairs} \subseteq v.type.allowed
          BY <4>4, <4>6 DEF Payload!Unknown
        <5>3. \A f \in Fields : Payload!AsMap(pairs)[f] # NoValue
                => \E i \in DOMAIN pairs : pairs[i][1] = f
          BY DEF Payload!AsMap
        <5> QED BY <4>1, <4>2, <5>1, <5>2, <5>3 DEF Payload!Given
      <4> QED BY <4>5, <4>6
    <3>2. CASE validators # << >>
      <4>1. 1 \in DOMAIN validators
        BY <2>2, <3>2
      <4>2. validators'[1] = validators[1]
        BY <2>3, <4>1
      <4> QED BY <1>1, <2>5, <3>2, <4>2 DEF WholeInv
    <3> QED BY <3>1, <3>2
  <2>6. ASSUME ~Payload!Effects("whitelist")', ~Payload!Effects("transform")'
        PROVE  content' = posted.data /\ pairs' = posted.query
    <3>1. \A i \in DOMAIN validators' :
             /\ "whitelist" \notin Payload!Effective(validators'[i])
             /\ "transform" \notin Payload!Effective(validators'[i])
      BY <2>6, <2>4
    <3>2. \A i \in DOMAIN validators : i \in DOMAIN validators'
      BY <2>3
    <3>3. Len(validators) + 1 \in DOMAIN validators'
      BY <2>3
    <3>4. "whitelist" \notin E /\ "transform" \notin E
      BY <2>3, <3>1, <3>3
    <3>5. ~Payload!Effects("whitelist") /\ ~Payload!Effects("transform")
      BY <2>3, <3>1, <3>2 DEF Payload!Effects
    <3>6. content = posted.data /\ pairs = posted.query
      BY <1>1, <3>5 DEF WholeInv
    <3>7. o = content /\ q = pairs
      BY <3>4 DEF Payload!Rewritten, Payload!Stripped, Payload!QueryLeft
    <3> QED BY <2>1, <3>6, <3>7
  <2>7. \A i \in DOMAIN lengths' :
           lengths'[i] = Payload!Cardinality(Payload!Given(content'))
    <3>1. CASE lengths = << >>
      BY <2>1, <3>1 DEF Payload!LengthsLeft
    <3>2. CASE lengths # << >> /\ E \cap {"transform", "whitelist"} = {}
      <4>1. lengths' = lengths
        BY <2>1, <3>2 DEF Payload!LengthsLeft
      <4>2. content' = content
        BY <2>1, <3>2 DEF Payload!Rewritten, Payload!Stripped
      <4> QED BY <1>1, <4>1, <4>2 DEF WholeInv
    <3>3. CASE lengths # << >> /\ E \cap {"transform", "whitelist"} # {}
      <4>1. origin = "body"
        BY <1>1, <3>3 DEF WholeInv
      <4>2. lengths' = << Payload!Cardinality(Payload!Given(o)) >>
        BY <2>1, <3>3, <4>1 DEF Payload!LengthsLeft
      <4> HIDE DEF o
      <4> QED BY <2>1, <4>2
    <3> QED BY <3>1, <3>2, <3>3
  <2>8. origin' # "body" => lengths' = << >>
    BY <1>1, <2>1 DEF WholeInv, Payload!LengthsLeft
  <2>9. /\ Payload!Given(posted.data)' = Payload!Given(posted.data)
        /\ Payload!Cardinality(Payload!Given(content))'
              = Payload!Cardinality(Payload!Given(content'))
        /\ posted' = posted
    BY <1>1 DEF Payload!Given
  <2> HIDE DEF E, o, q
  <2> QED BY <2>5, <2>6, <2>7, <2>8, <2>9, <2>4 DEF WholeInv
<1> QED BY <1>2, <1>3

(* What is left of a reply, as far as the interceptors are.                *)
Left(o) ==
    /\ \A i \in DOMAIN shapers : Payload!Given(o) \cap shapers[i].exclude = {}
    /\ (\E i \in DOMAIN shapers : shapers[i].skip) => "null" \notin Payload!Range(o)
    /\ shapers # << >> =>
          /\ Payload!Given(o) \cap shape.exclude = {}
          /\ shape.include # NoValue => Payload!Given(o) \subseteq shape.include
          /\ shape.skip => "null" \notin Payload!Range(o)

Whole(r) == DOMAIN r = {"kind", "items", "lengths"} /\ r.kind \in Kinds

ShapedInv ==
    checking = "answered" =>
        /\ shapers \in Seq(ReplyShapes) /\ Whole(payload)
        /\ payload.kind \notin {"json", "broken"} => payload = produced
        /\ payload.kind = "json" =>
            /\ \A o \in Payload!ToSet(payload.items) \ {NoValue} :
                  DOMAIN o = Fields /\ Left(o)
            /\ \A i \in DOMAIN payload.lengths :
                  payload.lengths[i] = Payload!Size(payload.items)

LEMMA PayloadSets ==
    /\ \A s : Payload!ToSet(s) = {s[i] : i \in DOMAIN s}
    /\ \A f : Payload!Range(f) = {f[x] : x \in DOMAIN f}
    /\ \A s : Payload!Last(s) = s[Len(s)]
BY DEF Payload!ToSet, Payload!Range, Payload!Last

LEMMA ShapingBegins ==
    ASSUME PayloadGiven, Payload!Init PROVE ShapedInv
<1>1. CASE Payload!Requested
  <2>1. checking # "answered"
    BY <1>1 DEF Payload!Requested
  <2> QED BY <2>1 DEF ShapedInv
<1>2. CASE Payload!Handled
  <2>1. payload \in Replies /\ payload = produced /\ shapers = << >>
    BY <1>2 DEF Payload!Handled
  <2>2. /\ Whole(payload)
        /\ \A o \in Payload!ToSet(payload.items) : o = NoValue \/ DOMAIN o = Fields
        /\ payload.kind = "json" =>
              \A i \in DOMAIN payload.lengths :
                 payload.lengths[i] = Payload!Size(payload.items)
    BY <2>1 DEF PayloadGiven, Whole
  <2>3. \A o : Left(o)
    BY <2>1 DEF Left
  <2>4. shapers \in Seq(ReplyShapes)
    BY <2>1
  <2> QED BY <2>1, <2>2, <2>3, <2>4 DEF ShapedInv
<1> QED BY <1>1, <1>2 DEF Payload!Init

(* An object loses what the options that are merged ask it to.             *)
LEMMA ObjectShaped ==
    ASSUME PayloadGiven, NEW o, DOMAIN o = Fields, NEW m
    PROVE  LET x == Payload!TransformObject(o, m)
           IN  /\ DOMAIN x = Fields
               /\ Payload!Given(x) \subseteq Payload!Given(o)
               /\ Payload!Given(x) \cap m.exclude = {}
               /\ m.include # NoValue => Payload!Given(x) \subseteq m.include
               /\ m.skip \/ "null" \notin Payload!Range(o)
                    => "null" \notin Payload!Range(x)
<1> DEFINE x == Payload!TransformObject(o, m)
<1>1. DOMAIN x = Fields
  BY DEF Payload!TransformObject
<1>2. \A f \in Fields :
        /\ x[f] = NoValue \/ x[f] = o[f]
        /\ x[f] # NoValue => f \notin m.exclude
        /\ x[f] # NoValue /\ m.include # NoValue => f \in m.include
        /\ x[f] # NoValue /\ m.skip => o[f] # "null"
  BY DEF Payload!TransformObject
<1>3. NoValue # "null"
  BY DEF PayloadGiven
<1> HIDE DEF x
<1>4. Payload!Given(x) = {f \in Fields : x[f] # NoValue}
      /\ Payload!Given(o) = {f \in Fields : o[f] # NoValue}
  BY DEF Payload!Given
<1>5. /\ Payload!Given(x) \subseteq Payload!Given(o)
      /\ Payload!Given(x) \cap m.exclude = {}
      /\ m.include # NoValue => Payload!Given(x) \subseteq m.include
  BY <1>2, <1>4
<1>6. ASSUME m.skip \/ "null" \notin Payload!Range(o)
      PROVE  "null" \notin Payload!Range(x)
  <2> SUFFICES ASSUME NEW f \in Fields, x[f] = "null" PROVE FALSE
    BY <1>1, PayloadSets
  <2>1. o[f] = "null"
    BY <1>2, <1>3
  <2>2. "null" \in Payload!Range(o)
    BY <2>1, PayloadSets
  <2> QED BY <1>2, <1>3, <1>6, <2>1, <2>2
<1> QED BY <1>1, <1>5, <1>6 DEF x

LEMMA ShapesMerge ==
    ASSUME NEW s
    PROVE  LET m == Payload!Merged(s)
           IN  /\ m.exclude = s.exclude \cup shape.exclude
               /\ (m.skip <=> (s.skip \/ shape.skip))
               /\ shape.include # NoValue => m.include = shape.include
               /\ Payload!IsEmpty(m) =>
                    /\ s.exclude = {} /\ shape.exclude = {}
                    /\ ~s.skip /\ ~shape.skip /\ shape.include = NoValue
<1> DEFINE m == Payload!Merged(s)
<1>1. /\ m.exclude = s.exclude \cup shape.exclude
      /\ (m.skip <=> (s.skip \/ shape.skip))
      /\ m.include = IF shape.include # NoValue THEN shape.include ELSE s.include
  BY DEF Payload!Merged
<1> HIDE DEF m
<1>2. Payload!IsEmpty(m) => m.include = NoValue /\ m.exclude = {} /\ ~m.skip
  BY DEF Payload!IsEmpty
<1> QED BY <1>1, <1>2 DEF m

LEMMA SerializeStep ==
    ASSUME PayloadGiven, ShapedInv, NEW s \in ReplyShapes, Payload!Serialize(s)
    PROVE  ShapedInv'
<1> DEFINE m == Payload!Merged(s)
           after == Payload!TransformPayload(payload.items, m)
           Leaves(o) ==
              /\ \A i \in DOMAIN shapers' :
                    Payload!Given(o) \cap shapers'[i].exclude = {}
              /\ (\E i \in DOMAIN shapers' : shapers'[i].skip)
                    => "null" \notin Payload!Range(o)
              /\ Payload!Given(o) \cap shape.exclude = {}
              /\ shape.include # NoValue => Payload!Given(o) \subseteq shape.include
              /\ shape.skip => "null" \notin Payload!Range(o)
<1>1. /\ checking = "answered" /\ shapers' = Append(shapers, s)
      /\ shape' = shape /\ produced' = produced
  BY DEF Payload!Serialize, Payload!Fixed
<1>2. /\ shapers \in Seq(ReplyShapes) /\ Whole(payload)
      /\ payload.kind \notin {"json", "broken"} => payload = produced
      /\ payload.kind = "json" =>
            /\ \A o \in Payload!ToSet(payload.items) \ {NoValue} :
                  DOMAIN o = Fields /\ Left(o)
            /\ \A i \in DOMAIN payload.lengths :
                  payload.lengths[i] = Payload!Size(payload.items)
  BY <1>1 DEF ShapedInv
<1>3. /\ shapers' \in Seq(ReplyShapes) /\ shapers' # << >>
      /\ Len(shapers) \in Nat
      /\ DOMAIN shapers = 1..Len(shapers)
      /\ DOMAIN shapers' = (1..Len(shapers)) \cup {Len(shapers) + 1}
      /\ shapers'[Len(shapers) + 1] = s
      /\ \A i \in 1..Len(shapers) : shapers'[i] = shapers[i]
  BY <1>1, <1>2
<1>4. /\ m.exclude = s.exclude \cup shape.exclude
      /\ (m.skip <=> (s.skip \/ shape.skip))
      /\ shape.include # NoValue => m.include = shape.include
      /\ Payload!IsEmpty(m) =>
           /\ s.exclude = {} /\ shape.exclude = {}
           /\ ~s.skip /\ ~shape.skip /\ shape.include = NoValue
  BY ShapesMerge
<1> HIDE DEF m
<1>5. ASSUME checking' = "answered"
      PROVE  /\ Whole(payload') /\ payload'.kind = payload.kind
             /\ payload.kind \notin {"json", "broken"} => payload' = payload
             /\ payload.kind = "json" =>
                   /\ \A i \in DOMAIN payload'.lengths :
                         payload'.lengths[i] = Payload!Size(payload'.items)
                   /\ IF Payload!IsEmpty(m) THEN payload' = payload
                      ELSE payload'.items = after
  <2> HIDE DEF after
  <2> DEFINE passes == \/ Payload!IsEmpty(m)
                       \/ payload.kind \in {"stream", "text", "empty"}
  <2>1. CASE passes
    <3>1. payload' = payload
      BY <2>1 DEF Payload!Serialize, m
    <3> QED BY <1>2, <2>1, <3>1
  <2>2. CASE ~passes
    <3>1. /\ payload.kind # "broken"
          /\ payload' = [payload EXCEPT !.items = after,
                !.lengths = IF @ = << >> THEN @ ELSE << Payload!Size(after) >>]
      BY <1>5, <2>2 DEF Payload!Serialize, m, after
    <3>2. payload.kind = "json" /\ DOMAIN payload = {"kind", "items", "lengths"}
      BY <1>2, <2>2, <3>1 DEF Whole, Kinds
    <3>3. /\ DOMAIN payload' = {"kind", "items", "lengths"}
          /\ payload'.kind = payload.kind /\ payload'.items = after
          /\ payload'.lengths = IF payload.lengths = << >> THEN payload.lengths
                                ELSE << Payload!Size(after) >>
      BY <3>1, <3>2
    <3>4. \A i \in DOMAIN payload'.lengths :
             payload'.lengths[i] = Payload!Size(payload'.items)
      BY <3>3
    <3> QED BY <1>2, <2>2, <3>2, <3>3, <3>4 DEF Whole
  <2> QED BY <2>1, <2>2
<1>6. ASSUME NEW o, DOMAIN o = Fields, Left(o), Payload!IsEmpty(m)
      PROVE  Leaves(o)
  <2>1. /\ s.exclude = {} /\ shape.exclude = {}
        /\ ~s.skip /\ ~shape.skip /\ shape.include = NoValue
    BY <1>4, <1>6
  <2> QED BY <1>3, <1>6, <2>1 DEF Left
<1>7. ASSUME NEW o, DOMAIN o = Fields, Left(o)
      PROVE  LET x == Payload!TransformObject(o, m)
             IN  DOMAIN x = Fields /\ Leaves(x)
  <2> DEFINE x == Payload!TransformObject(o, m)
  <2>1. /\ DOMAIN x = Fields
        /\ Payload!Given(x) \subseteq Payload!Given(o)
        /\ Payload!Given(x) \cap m.exclude = {}
        /\ m.include # NoValue => Payload!Given(x) \subseteq m.include
        /\ m.skip \/ "null" \notin Payload!Range(o) => "null" \notin Payload!Range(x)
    BY <1>7, ObjectShaped
  <2> HIDE DEF x
  <2>2. \A i \in DOMAIN shapers' :
           Payload!Given(x) \cap shapers'[i].exclude = {}
    BY <1>3, <1>4, <1>7, <2>1 DEF Left
  <2>3. (\E i \in DOMAIN shapers' : shapers'[i].skip) => "null" \notin Payload!Range(x)
    BY <1>3, <1>4, <1>7, <2>1 DEF Left
  <2> QED BY <1>4, <2>1, <2>2, <2>3 DEF x
<1>8. ASSUME checking' = "answered", payload.kind = "json"
      PROVE  \A o \in Payload!ToSet(payload'.items) \ {NoValue} :
                DOMAIN o = Fields /\ Leaves(o)
  <2> HIDE DEF Leaves
  <2>1. CASE Payload!IsEmpty(m)
    <3>1. payload' = payload
      BY <1>5, <1>8, <2>1
    <3> QED BY <1>2, <1>6, <1>8, <2>1, <3>1
  <2>2. CASE ~Payload!IsEmpty(m)
    <3>1. payload'.items = after
      BY <1>5, <1>8, <2>2
    <3> TAKE o \in Payload!ToSet(payload'.items) \ {NoValue}
    <3>2. PICK i \in DOMAIN payload.items :
             /\ o = Payload!TransformObject(payload.items[i], m)
             /\ payload.items[i] # NoValue
      BY <3>1, PayloadSets DEF Payload!TransformPayload
    <3>3. payload.items[i] \in Payload!ToSet(payload.items) \ {NoValue}
      BY <3>2, PayloadSets
    <3> QED BY <1>2, <1>7, <1>8, <3>2, <3>3
  <2> QED BY <2>1, <2>2
<1>9. \A o : Leaves(o) => Left(o)'
  BY <1>1 DEF Left, Payload!Given, Payload!Range
<1> HIDE DEF Leaves
<1>10. /\ Payload!ToSet(payload.items)' = Payload!ToSet(payload'.items)
       /\ Payload!Size(payload.items)' = Payload!Size(payload'.items)
       /\ Whole(payload)' <=> Whole(payload')
  BY DEF Payload!ToSet, Whole
<1> QED BY <1>1, <1>2, <1>3, <1>5, <1>8, <1>9, <1>10 DEF ShapedInv

PayloadInv == ValidInv /\ WholeInv /\ ShapedInv

LEMMA PayloadKept ==
    ASSUME PayloadInv, Going' <=> Going,
           (checking = "answered")' <=> checking = "answered",
           UNCHANGED <<origin, inherited, posted, content, pairs, lengths,
                       validators, shape, shapers, produced, payload>>
    PROVE  PayloadInv'
<1>1. ValidInv'
  <2>1. \A v : Payload!Effective(v)' = Payload!Effective(v)
    BY DEF Payload!Effective
  <2>2. \A f : Payload!QueryValue(f)' = Payload!QueryValue(f)
    BY DEF Payload!QueryValue
  <2>3. \A t : Payload!Valid(content, pairs, t)' <=> Payload!Valid(content, pairs, t)
    BY DEF Payload!Valid, Payload!Repeated
  <2>4. Payload!AsMap(pairs)' = Payload!AsMap(pairs)
    BY DEF Payload!AsMap
  <2>5. ValidInv
    BY DEF PayloadInv
  <2> QED BY <2>1, <2>2, <2>3, <2>4, <2>5 DEF ValidInv, Payload!Effective, Payload!Valid
<1>2. WholeInv'
  <2>1. \A of : Payload!Effects(of)' <=> Payload!Effects(of)
    BY DEF Payload!Effects, Payload!Effective
  <2>2. /\ Payload!Given(posted.data)' = Payload!Given(posted.data)
        /\ Payload!Given(content)' = Payload!Given(content)
    BY DEF Payload!Given
  <2>3. WholeInv
    BY DEF PayloadInv
  <2> QED BY <2>1, <2>2, <2>3 DEF WholeInv, Payload!Effective
<1>3. ShapedInv'
  <2>1. /\ \A o : Left(o)' <=> Left(o)
        /\ Payload!ToSet(payload.items)' = Payload!ToSet(payload.items)
        /\ Whole(payload)' <=> Whole(payload)
    BY DEF Left, Payload!ToSet, Whole, Payload!Given, Payload!Range
  <2>2. ShapedInv
    BY DEF PayloadInv
  <2> QED BY <2>1, <2>2 DEF ShapedInv
<1> QED BY <1>1, <1>2, <1>3 DEF PayloadInv

LEMMA PayloadStep ==
    ASSUME PayloadGiven, PayloadInv, [Payload!Next]_PayloadVars
    PROVE  PayloadInv'
<1>1. CASE UNCHANGED PayloadVars
  <2>1. UNCHANGED <<origin, inherited, posted, content, pairs, lengths,
                    validators, checking, shape, shapers, produced, payload>>
    BY <1>1 DEF PayloadVars
  <2>2. Going' <=> Going
    BY <2>1 DEF Going
  <2> QED BY <2>1, <2>2, PayloadKept
<1>2. CASE Payload!Handle
  <2>1. /\ checking = "validating" /\ checking' = "handled"
        /\ UNCHANGED <<origin, inherited, posted, content, pairs, lengths,
                       validators, shape, shapers, produced, payload>>
    BY <1>2 DEF Payload!Handle, Payload!Fixed
  <2>2. Going' <=> Going
    BY <2>1 DEF Going
  <2>3. "handled" # "answered" /\ "validating" # "answered"
    OBVIOUS
  <2> QED BY <2>1, <2>2, <2>3, PayloadKept
<1>3. CASE \E t \in BodyTypes, options \in OptionSets \cup {NoValue} :
              Payload!Validate([type |-> t, options |-> options])
  <2>1. PICK t \in BodyTypes, options \in OptionSets \cup {NoValue} :
              Payload!Validate([type |-> t, options |-> options])
    BY <1>3
  <2> DEFINE v == [type |-> t, options |-> options]
  <2>2. v \in Validators /\ Payload!Validate(v)
    BY <2>1 DEF Validators
  <2> HIDE DEF v
  <2>3. ValidInv' /\ WholeInv'
    BY <2>2, ValidStep, WholeStep DEF PayloadInv
  <2>4. checking' # "answered"
    BY <2>2 DEF Payload!Validate
  <2> QED BY <2>3, <2>4 DEF PayloadInv, ShapedInv
<1>4. CASE \E s \in ReplyShapes : Payload!Serialize(s)
  <2>1. PICK s \in ReplyShapes : Payload!Serialize(s)
    BY <1>4
  <2>2. ShapedInv'
    BY <2>1, SerializeStep DEF PayloadInv
  <2>3. checking = "answered" /\ (checking' = "answered" \/ checking' = "failed")
    BY <2>1 DEF Payload!Serialize
  <2>4. ~Going'
    BY <2>3 DEF Going
  <2> QED BY <2>2, <2>4 DEF PayloadInv, ValidInv, WholeInv
<1> QED BY <1>1, <1>2, <1>3, <1>4 DEF Payload!Next

LEMMA PayloadAnswers ==
    ASSUME PayloadGiven, PayloadInv
    PROVE  /\ Payload!HandlerGetsValid
           /\ Payload!RefusedOrWhole
           /\ Payload!ExcludedStays
<1>1. Payload!HandlerGetsValid
  BY PayloadSets DEF PayloadInv, ValidInv, Going, Payload!HandlerGetsValid
<1>2. Payload!RefusedOrWhole
  BY DEF PayloadInv, WholeInv, Going, Payload!RefusedOrWhole
<1>3. Payload!ExcludedStays
  <2> SUFFICES ASSUME checking = "answered", shapers # << >>
               PROVE  LET shapes == Payload!ToSet(shapers) \cup {shape} IN
                      /\ payload.kind \notin {"json", "broken"} => payload = produced
                      /\ payload.kind = "json" =>
                            \A o \in Payload!ToSet(payload.items) \ {NoValue} :
                              /\ \A s \in shapes : Payload!Given(o) \cap s.exclude = {}
                              /\ shape.include # NoValue =>
                                    Payload!Given(o) \subseteq shape.include
                              /\ (\E s \in shapes : s.skip) =>
                                    "null" \notin Payload!Range(o)
                      /\ \A i \in DOMAIN payload.lengths :
                            payload.kind = "json" =>
                              payload.lengths[i] = Payload!Size(payload.items)
    BY DEF Payload!ExcludedStays
  <2>1. /\ payload.kind \notin {"json", "broken"} => payload = produced
        /\ payload.kind = "json" =>
            /\ \A o \in Payload!ToSet(payload.items) \ {NoValue} : Left(o)
            /\ \A i \in DOMAIN payload.lengths :
                  payload.lengths[i] = Payload!Size(payload.items)
    BY DEF PayloadInv, ShapedInv
  <2>2. \A s \in Payload!ToSet(shapers) : \E i \in DOMAIN shapers : shapers[i] = s
    BY PayloadSets
  <2>3. ASSUME NEW o, Left(o)
        PROVE  /\ \A s \in Payload!ToSet(shapers) \cup {shape} :
                     Payload!Given(o) \cap s.exclude = {}
               /\ shape.include # NoValue => Payload!Given(o) \subseteq shape.include
               /\ (\E s \in Payload!ToSet(shapers) \cup {shape} : s.skip) =>
                     "null" \notin Payload!Range(o)
    BY <2>2, <2>3 DEF Left
  <2> QED BY <2>1, <2>3
<1> QED BY <1>1, <1>2, <1>3

(* Handlers get whole bodies within the limit; errors keep their status;   *)
(* the Allow header is true; what is sent is as its headers say, and is    *)
(* not what the client excluded (axum.rs, application.rs, error.rs,        *)
(* header.rs).  Handlers find what the last validator took, and replies    *)
(* leave as the options ask (validation.rs, serialization.rs).             *)
THEOREM ExchangeHoldsAlways ==
    ASSUME ExchangeGiven, PayloadGiven PROVE PartsSpec => []ExchangeHolds
<1> DEFINE Inv == /\ part = "exchange" => ExchangeInv
                  /\ part = "payloads" => PayloadInv
<1>1. PartsInit => Inv
  BY ExchangeBegins, PayloadBegins, ShapingBegins, PartsBegin DEF PayloadInv
<1>2. Inv /\ [PartsNext]_parts => Inv'
  BY ExchangeStep, PayloadStep, PartsStep
<1>3. Inv => ExchangeHolds
  BY ExchangeAnswers, PayloadAnswers DEF ExchangeHolds
<1> HIDE DEF Inv
<1> QED BY <1>1, <1>2, <1>3, PTL DEF PartsSpec
=============================================================================
