---------------------------- MODULE Claims_proof ----------------------------
(***************************************************************************)
(* Theorems about the claims: whatever the number of clients, of attempts  *)
(* and of deaths, one client writes, as long as the quiet period and the   *)
(* time limit are what ClaimsTiming asks for.                              *)
(***************************************************************************)
EXTENDS Claims, SequenceTheorems, WellFoundedInduction, TLAPS

-----------------------------------------------------------------------------
(* Beats is a strict total order: that of the first place in which two     *)
(* claims differ, with -1 behind the end of the shorter one.               *)

Place(p, i) == IF i <= Len(p) THEN p[i] ELSE -1

\* A set of numbers has a least one.
LEMMA Least ==
  ASSUME NEW T \in SUBSET Nat, T # {}
  PROVE \E m \in T : \A n \in T : m <= n
<1>1. IsWellFoundedOn(OpToRel(<, Nat), Nat)
  BY NatLessThanWellFounded
<1> DEFINE R == OpToRel(<, Nat)
<1>2. \A x, y \in Nat : <<x, y>> \in R <=> x < y
  BY DEF OpToRel
<1>3. IsWellFoundedOn(R, Nat)
  BY <1>1
<1> HIDE DEF R
<1>4. PICK m \in T : \A y \in T : ~ (<<y, m>> \in R)
  BY <1>3, WFMin
<1>5. \A y \in T : ~(y < m)
  <2> TAKE y \in T
  <2>1. y \in Nat /\ m \in Nat
    OBVIOUS
  <2>2. ~(<<y, m>> \in R)
    BY <1>4
  <2> QED BY <1>2, <2>1, <2>2
<1>6. m \in Nat
  OBVIOUS
<1> QED BY <1>5, <1>6

\* What stands in a place of a claim.
LEMMA Places ==
  ASSUME NEW p \in Seq(Clients)
  PROVE /\ Len(p) \in Nat
        /\ \A i \in Nat \ {0} : Place(p, i) \in Clients \cup {-1}
        /\ \A i \in Nat \ {0} : Place(p, i) \in Int
        /\ \A i \in Nat \ {0} : i <= Len(p) => Place(p, i) = p[i] /\ Place(p, i) >= 0
        /\ \A i \in Nat \ {0} : i > Len(p) => Place(p, i) = -1
        /\ DOMAIN p = 1..Len(p)
<1>1. Clients \subseteq Nat
  BY ClaimsAssumption
<1>2. Len(p) \in Nat /\ DOMAIN p = 1..Len(p) /\ \A i \in 1..Len(p) : p[i] \in Clients
  BY LenProperties, ElementOfSeq
<1>3. \A i \in Nat \ {0} : i <= Len(p) => Place(p, i) = p[i] /\ Place(p, i) \in Clients
  BY <1>2 DEF Place
<1>4. \A i \in Nat \ {0} : i > Len(p) => Place(p, i) = -1
  BY <1>2 DEF Place
<1>5. \A i \in Nat \ {0} : i <= Len(p) \/ i > Len(p)
  BY <1>2
<1>6. \A c \in Clients : c \in Int /\ c >= 0
  BY <1>1
<1>7. \A i \in Nat \ {0} : Place(p, i) \in Clients \cup {-1}
  BY <1>3, <1>4, <1>5
<1>8. \A i \in Nat \ {0} : Place(p, i) \in Int
  BY <1>6, <1>7
<1>9. \A i \in Nat \ {0} : i <= Len(p) => Place(p, i) >= 0
  BY <1>3, <1>6
<1> QED BY <1>2, <1>3, <1>4, <1>7, <1>8, <1>9

\* The definition of Beats, place by place.
LEMMA BeatsIs ==
  ASSUME NEW p \in Seq(Clients), NEW q \in Seq(Clients)
  PROVE Beats(p, q) <=> \E i \in Nat \ {0} :
                          /\ Place(p, i) > Place(q, i)
                          /\ \A j \in 1..(i - 1) : Place(p, j) = Place(q, j)
<1>0. Len(p) \in Nat /\ Len(q) \in Nat /\ DOMAIN p = 1..Len(p) /\ DOMAIN q = 1..Len(q)
  BY Places
<1>1. ASSUME IsStrictPrefix(q, p)
      PROVE \E i \in Nat \ {0} : /\ Place(p, i) > Place(q, i)
                                 /\ \A j \in 1..(i - 1) : Place(p, j) = Place(q, j)
  <2>1. Len(q) <= Len(p) /\ SubSeq(q, 1, Len(q)) = SubSeq(p, 1, Len(q)) /\ q # p
    BY <1>1 DEF IsStrictPrefix, IsPrefix
  <2>2. \A i \in 1..Len(q) : q[i] \in Clients /\ p[i] \in Clients
    BY <1>0, <2>1, ElementOfSeq
  <2>3. \A i \in 1..Len(q) : SubSeq(q, 1, Len(q))[i] = q[i]
    <3>1. \A i \in 1..(Len(q) - 1 + 1) : SubSeq(q, 1, Len(q))[i] = q[1 + i - 1]
      BY <1>0, <2>2, SubSeqProperties
    <3> QED BY <3>1, <1>0
  <2>4. \A i \in 1..Len(q) : SubSeq(p, 1, Len(q))[i] = p[i]
    <3>1. \A i \in 1..(Len(q) - 1 + 1) : SubSeq(p, 1, Len(q))[i] = p[1 + i - 1]
      BY <1>0, <2>2, SubSeqProperties
    <3> QED BY <3>1, <1>0
  <2>5. \A i \in 1..Len(q) : q[i] = p[i]
    BY <2>1, <2>3, <2>4
  <2>6. Len(q) # Len(p)
    BY <2>1, <2>5, <1>0, SeqEqual
  <2>7. Len(q) + 1 \in Nat \ {0} /\ Len(q) + 1 <= Len(p) /\ Len(q) + 1 > Len(q)
    <3>1. Len(q) <= Len(p)
      BY <2>1
    <3>2. Len(p) \in Nat /\ Len(q) \in Nat
      BY <1>0
    <3> QED BY <3>1, <3>2, <2>6
  <2>8. Place(p, Len(q) + 1) > Place(q, Len(q) + 1)
    BY <2>7, Places
  <2>9. \A j \in 1..(Len(q) + 1 - 1) : Place(p, j) = Place(q, j)
    BY <2>5, <2>1, <1>0 DEF Place
  <2> QED BY <2>7, <2>8, <2>9
<1>2. ASSUME NEW i \in DOMAIN p \cap DOMAIN q, p[i] > q[i], \A j \in 1..(i - 1) : p[j] = q[j]
      PROVE \E k \in Nat \ {0} : /\ Place(p, k) > Place(q, k)
                                 /\ \A j \in 1..(k - 1) : Place(p, j) = Place(q, j)
  <2>1. i \in Nat \ {0} /\ i <= Len(p) /\ i <= Len(q)
    BY <1>0
  <2>2. \A j \in 1..(i - 1) : Place(p, j) = Place(q, j)
    BY <2>1, <1>0, <1>2 DEF Place
  <2>3. Place(p, i) > Place(q, i)
    BY <2>1, <1>2 DEF Place
  <2> QED BY <2>1, <2>2, <2>3
<1>3. ASSUME NEW i \in Nat \ {0}, Place(p, i) > Place(q, i),
             \A j \in 1..(i - 1) : Place(p, j) = Place(q, j)
      PROVE Beats(p, q)
  <2>1. i <= Len(p)
    <3> SUFFICES ASSUME i > Len(p) PROVE FALSE
      BY <1>0
    <3>1. Place(p, i) = -1
      BY Places
    <3>2. Place(q, i) \in Int /\ (Place(q, i) >= 0 \/ Place(q, i) = -1)
      BY Places, <1>0
    <3> QED BY <3>1, <3>2, <1>3
  <2>2. \A j \in 1..(i - 1) : j <= Len(q)
    <3> TAKE j \in 1..(i - 1)
    <3>1. j \in Nat \ {0} /\ j <= Len(p)
      BY <2>1, <1>0
    <3>2. Place(p, j) >= 0 /\ Place(p, j) = Place(q, j)
      BY <3>1, Places, <1>3
    <3> QED BY <3>1, <3>2, Places, <1>0
  <2>3. \A j \in 1..(i - 1) : p[j] = q[j]
    BY <2>1, <2>2, <1>0, <1>3 DEF Place
  <2>4. CASE i <= Len(q)
    BY <2>1, <2>3, <2>4, <1>0, <1>3 DEF Place, Beats
  <2>5. CASE i > Len(q)
    <3>1. Len(q) = i - 1
      <4>1. CASE i = 1
        BY <4>1, <2>5, <1>0
      <4>2. CASE i # 1
        <5>1. i - 1 \in 1..(i - 1)
          BY <4>2
        <5> QED BY <5>1, <2>2, <2>5, <1>0
      <4> QED BY <4>1, <4>2
    <3>2. \A j \in 1..Len(q) : q[j] \in Clients /\ p[j] \in Clients /\ p[j] = q[j]
      BY <3>1, <2>1, <2>3, <1>0, ElementOfSeq
    <3>3. /\ SubSeq(q, 1, Len(q)) \in Seq(Clients)
          /\ Len(SubSeq(q, 1, Len(q))) = Len(q)
          /\ \A j \in 1..Len(q) : SubSeq(q, 1, Len(q))[j] = q[j]
      <4>1. /\ SubSeq(q, 1, Len(q)) \in Seq(Clients)
            /\ Len(SubSeq(q, 1, Len(q))) = IF 1 <= Len(q) THEN Len(q) - 1 + 1 ELSE 0
            /\ \A j \in 1..(Len(q) - 1 + 1) : SubSeq(q, 1, Len(q))[j] = q[1 + j - 1]
        BY <1>0, <3>2, SubSeqProperties
      <4> QED BY <4>1, <1>0
    <3>4. /\ SubSeq(p, 1, Len(q)) \in Seq(Clients)
          /\ Len(SubSeq(p, 1, Len(q))) = Len(q)
          /\ \A j \in 1..Len(q) : SubSeq(p, 1, Len(q))[j] = p[j]
      <4>1. /\ SubSeq(p, 1, Len(q)) \in Seq(Clients)
            /\ Len(SubSeq(p, 1, Len(q))) = IF 1 <= Len(q) THEN Len(q) - 1 + 1 ELSE 0
            /\ \A j \in 1..(Len(q) - 1 + 1) : SubSeq(p, 1, Len(q))[j] = p[1 + j - 1]
        BY <1>0, <3>2, SubSeqProperties
      <4> QED BY <4>1, <1>0
    <3>5. SubSeq(q, 1, Len(q)) = SubSeq(p, 1, Len(q))
      BY <3>2, <3>3, <3>4, SeqEqual
    <3>6. Len(q) <= Len(p) /\ q # p
      BY <2>1, <2>5, <1>0
    <3> QED BY <3>5, <3>6 DEF Beats, IsStrictPrefix, IsPrefix
  <2> QED BY <2>4, <2>5, <1>0
<1> QED BY <1>1, <1>2, <1>3 DEF Beats

LEMMA BeatsAsymmetric ==
  ASSUME NEW p \in Seq(Clients), NEW q \in Seq(Clients), Beats(p, q)
  PROVE p # q /\ ~Beats(q, p)
<1> DEFINE P(i) == Place(p, i)
           Q(i) == Place(q, i)
<1>1. \A i \in Nat \ {0} : P(i) \in Int /\ Q(i) \in Int
  BY Places
<1>2. PICK i \in Nat \ {0} : P(i) > Q(i) /\ \A j \in 1..(i - 1) : P(j) = Q(j)
  BY BeatsIs
<1>3. p # q
  BY <1>1, <1>2
<1> HIDE DEF P, Q
<1>4. ASSUME NEW k \in Nat \ {0}, Q(k) > P(k), \A j \in 1..(k - 1) : Q(j) = P(j)
      PROVE FALSE
  <2>1. CASE k < i
    BY <2>1, <1>1, <1>2, <1>4
  <2>2. CASE k = i
    BY <2>2, <1>1, <1>2, <1>4
  <2>3. CASE k > i
    BY <2>3, <1>1, <1>2, <1>4
  <2> QED BY <2>1, <2>2, <2>3
<1>5. ~Beats(q, p)
  <2> SUFFICES ASSUME Beats(q, p) PROVE FALSE
    OBVIOUS
  <2>1. \E k \in Nat \ {0} : Q(k) > P(k) /\ \A j \in 1..(k - 1) : Q(j) = P(j)
    BY BeatsIs DEF P, Q
  <2> QED BY <2>1, <1>4
<1> QED BY <1>3, <1>5

LEMMA BeatsTransitive ==
  ASSUME NEW p \in Seq(Clients), NEW q \in Seq(Clients), NEW r \in Seq(Clients),
         Beats(p, q), Beats(q, r)
  PROVE Beats(p, r)
<1> DEFINE P(i) == Place(p, i)
           Q(i) == Place(q, i)
           R(i) == Place(r, i)
<1>1. \A i \in Nat \ {0} : P(i) \in Int /\ Q(i) \in Int /\ R(i) \in Int
  BY Places
<1>2. PICK i \in Nat \ {0} : P(i) > Q(i) /\ \A j \in 1..(i - 1) : P(j) = Q(j)
  BY BeatsIs
<1>3. PICK k \in Nat \ {0} : Q(k) > R(k) /\ \A j \in 1..(k - 1) : Q(j) = R(j)
  BY BeatsIs
<1>4. SUFFICES \E m \in Nat \ {0} : P(m) > R(m) /\ \A j \in 1..(m - 1) : P(j) = R(j)
  BY BeatsIs
<1> HIDE DEF P, Q, R
<1>5. CASE i <= k
  <2>1. P(i) > R(i)
    <3>1. CASE i = k
      BY <3>1, <1>1, <1>2, <1>3
    <3>2. CASE i < k
      <4>1. i \in 1..(k - 1)
        BY <3>2
      <4> QED BY <4>1, <1>1, <1>2, <1>3
    <3> QED BY <3>1, <3>2, <1>5
  <2>2. \A j \in 1..(i - 1) : j \in 1..(k - 1)
    BY <1>5
  <2> QED BY <2>1, <2>2, <1>2, <1>3
<1>6. CASE k < i
  <2>1. k \in 1..(i - 1)
    BY <1>6
  <2>2. P(k) > R(k)
    BY <2>1, <1>1, <1>2, <1>3
  <2>3. \A j \in 1..(k - 1) : j \in 1..(i - 1)
    BY <1>6
  <2> QED BY <2>2, <2>3, <1>2, <1>3
<1> QED BY <1>5, <1>6

LEMMA BeatsTotal ==
  ASSUME NEW p \in Seq(Clients), NEW q \in Seq(Clients), p # q
  PROVE Beats(p, q) \/ Beats(q, p)
<1> DEFINE P(i) == Place(p, i)
           Q(i) == Place(q, i)
           Differ == {i \in Nat \ {0} : P(i) # Q(i)}
<1>1. \A i \in Nat \ {0} : P(i) \in Int /\ Q(i) \in Int
  BY Places
<1>2. Len(p) \in Nat /\ Len(q) \in Nat
  BY Places
<1>3. Differ # {}
  <2> SUFFICES ASSUME \A i \in Nat \ {0} : Place(p, i) = Place(q, i) PROVE FALSE
    OBVIOUS
  <2>1. ASSUME NEW a \in Seq(Clients), NEW b \in Seq(Clients), Len(a) < Len(b),
               \A i \in Nat \ {0} : Place(a, i) = Place(b, i)
        PROVE FALSE
    <3>1. Len(b) \in Nat \ {0} /\ Len(b) > Len(a)
      BY <2>1, Places
    <3>2. Place(a, Len(b)) = -1 /\ Place(b, Len(b)) >= 0
      BY <3>1, Places
    <3> QED BY <3>1, <3>2, <2>1
  <2>2. Len(p) = Len(q)
    BY <1>2, <2>1
  <2>3. \A i \in 1..Len(p) : p[i] = q[i]
    BY <1>2, <2>2 DEF Place
  <2> QED BY <2>2, <2>3, SeqEqual
<1>4. PICK i \in Differ : \A j \in Differ : i <= j
  <2>1. Differ \in SUBSET Nat
    OBVIOUS
  <2> HIDE DEF Differ
  <2> QED BY <2>1, <1>3, Least
<1>5. i \in Nat \ {0} /\ P(i) # Q(i) /\ \A j \in 1..(i - 1) : P(j) = Q(j) /\ Q(j) = P(j)
  <2>1. i \in Nat \ {0} /\ P(i) # Q(i)
    BY DEF Differ
  <2>2. \A j \in 1..(i - 1) : j \in Nat \ {0} /\ ~(i <= j)
    BY <2>1
  <2>3. \A j \in 1..(i - 1) : j \notin Differ
    BY <2>2, <1>4
  <2>4. \A j \in 1..(i - 1) : P(j) = Q(j)
    BY <2>2, <2>3 DEF Differ
  <2> QED BY <2>1, <2>4
<1>6. P(i) > Q(i) \/ Q(i) > P(i)
  <2> HIDE DEF P, Q
  <2> QED BY <1>1, <1>5
<1> QED BY <1>5, <1>6, BeatsIs

\* A claim set over another one wins.
LEMMA AppendBeats ==
  ASSUME NEW p \in Seq(Clients), NEW c \in Clients
  PROVE /\ Append(p, c) \in Seq(Clients)
        /\ Append(p, c) # <<>>
        /\ Last(Append(p, c)) = c
        /\ Beats(Append(p, c), p)
<1>1. /\ Append(p, c) \in Seq(Clients) /\ Len(Append(p, c)) = Len(p) + 1
      /\ Append(p, c)[Len(p) + 1] = c
      /\ \A i \in 1..Len(p) : Append(p, c)[i] = p[i]
  BY AppendProperties
<1>2. Len(p) \in Nat
  BY Places
<1>3. Last(Append(p, c)) = c
  BY <1>1 DEF Last
<1>4. Append(p, c) # <<>>
  BY <1>1, <1>2, EmptySeq
<1>5. Len(p) + 1 \in Nat \ {0} /\ Len(p) + 1 > Len(p) /\ Len(p) + 1 <= Len(Append(p, c))
  BY <1>1, <1>2
<1>6. Place(Append(p, c), Len(p) + 1) > Place(p, Len(p) + 1)
  <2>1. Place(p, Len(p) + 1) = -1
    BY <1>5, Places
  <2>2. Place(Append(p, c), Len(p) + 1) >= 0 /\ Place(Append(p, c), Len(p) + 1) \in Int
    BY <1>1, <1>5, Places
  <2> QED BY <2>1, <2>2
<1>7. \A j \in 1..(Len(p) + 1 - 1) : Place(Append(p, c), j) = Place(p, j)
  BY <1>1, <1>2 DEF Place
<1>8. Beats(Append(p, c), p)
  <2>1. ASSUME NEW q \in Seq(Clients), NEW n \in Nat \ {0}, Place(q, n) > Place(p, n),
               \A j \in 1..(n - 1) : Place(q, j) = Place(p, j)
        PROVE Beats(q, p)
    BY <2>1, BeatsIs
  <2> DEFINE a == Append(p, c)
             k == Len(p) + 1
  <2>2. a \in Seq(Clients) /\ k \in Nat \ {0} /\ Place(a, k) > Place(p, k)
    BY <1>1, <1>5, <1>6
  <2>3. \A j \in 1..(k - 1) : Place(a, j) = Place(p, j)
    BY <1>7
  <2> HIDE DEF a, k
  <2>4. Beats(a, p)
    BY <2>1, <2>2, <2>3
  <2> QED BY <2>4 DEF a
<1> QED BY <1>1, <1>3, <1>4, <1>8

-----------------------------------------------------------------------------
(* The entry that a set of claims makes: it is the claim that beats every  *)
(* other one, and there is one in every set a client can come to hold.     *)

HasWinner(claims) ==
  claims = {} \/ \E p \in claims : \A q \in claims \ {p} : Beats(p, q)

LEMMA EntryIs ==
  ASSUME NEW S \in SUBSET Seq(Clients), NEW p \in S, \A q \in S \ {p} : Beats(p, q)
  PROVE Entry(S) = p
<1>1. S # {}
  OBVIOUS
<1>2. \E r \in S : \A q \in S \ {r} : Beats(r, q)
  OBVIOUS
<1>3. \A r \in S : (\A q \in S \ {r} : Beats(r, q)) => r = p
  <2> SUFFICES ASSUME NEW r \in S, \A q \in S \ {r} : Beats(r, q), r # p
               PROVE FALSE
    OBVIOUS
  <2>1. Beats(r, p) /\ Beats(p, r)
    OBVIOUS
  <2>2. r \in Seq(Clients) /\ p \in Seq(Clients)
    OBVIOUS
  <2> QED BY <2>1, <2>2, BeatsAsymmetric
<1> DEFINE Wins(r) == \A q \in S \ {r} : Beats(r, q)
<1>4. Entry(S) = CHOOSE r \in S : Wins(r)
  BY <1>1 DEF Entry
<1>5. (\E r \in S : Wins(r)) /\ (\A r \in S : Wins(r) => r = p)
  BY <1>2, <1>3
<1> HIDE DEF Wins
<1>6. (CHOOSE r \in S : Wins(r)) = p
  BY <1>5, Zenon
<1> QED BY <1>4, <1>6

LEMMA EntryWins ==
  ASSUME NEW S \in SUBSET Seq(Clients), HasWinner(S), S # {}
  PROVE Entry(S) \in S /\ \A q \in S \ {Entry(S)} : Beats(Entry(S), q)
<1>1. PICK p \in S : \A q \in S \ {p} : Beats(p, q)
  BY DEF HasWinner
<1>2. Entry(S) = p
  BY <1>1, EntryIs
<1> QED BY <1>1, <1>2

LEMMA EntryIsAClaim ==
  ASSUME NEW S \in SUBSET Seq(Clients), HasWinner(S)
  PROVE Entry(S) \in Seq(Clients)
<1>1. CASE S = {}
  BY <1>1, EmptySeq DEF Entry
<1>2. CASE S # {}
  BY <1>2, EntryWins
<1> QED BY <1>1, <1>2

\* Of two sets the better one of their winners wins.
LEMMA MergedWinner ==
  ASSUME NEW S \in SUBSET Seq(Clients), NEW T \in SUBSET Seq(Clients),
         HasWinner(S), HasWinner(T)
  PROVE HasWinner(S \cup T)
<1>1. CASE S = {} \/ T = {}
  BY <1>1 DEF HasWinner
<1>2. ASSUME NEW A \in SUBSET Seq(Clients), NEW B \in SUBSET Seq(Clients),
             NEW a \in A, NEW b \in B,
             \A q \in A \ {a} : Beats(a, q), \A q \in B \ {b} : Beats(b, q),
             a = b \/ Beats(a, b)
      PROVE \A q \in (A \cup B) \ {a} : Beats(a, q)
  <2> TAKE q \in (A \cup B) \ {a}
  <2>1. CASE q \in A
    BY <2>1, <1>2
  <2>2. CASE q \in B /\ a = b
    BY <2>2, <1>2
  <2>3. CASE q \in B /\ Beats(a, b)
    <3>1. CASE q = b
      BY <3>1, <2>3
    <3>2. CASE q # b
      <4>1. Beats(b, q)
        BY <3>2, <2>3, <1>2
      <4>2. a \in Seq(Clients) /\ b \in Seq(Clients) /\ q \in Seq(Clients)
        BY <2>3, <1>2
      <4> QED BY <4>1, <4>2, <2>3, BeatsTransitive
    <3> QED BY <3>1, <3>2
  <2> QED BY <2>1, <2>2, <2>3, <1>2
<1>3. CASE S # {} /\ T # {}
  <2>1. PICK s \in S : \A q \in S \ {s} : Beats(s, q)
    BY <1>3 DEF HasWinner
  <2>2. PICK t \in T : \A q \in T \ {t} : Beats(t, q)
    BY <1>3 DEF HasWinner
  <2>3. s = t \/ Beats(s, t) \/ Beats(t, s)
    <3>1. s \in Seq(Clients) /\ t \in Seq(Clients)
      BY <2>1, <2>2
    <3> QED BY <3>1, BeatsTotal
  <2>4. CASE s = t \/ Beats(s, t)
    <3>1. \A q \in (S \cup T) \ {s} : Beats(s, q)
      BY <1>2, <2>1, <2>2, <2>4
    <3> QED BY <3>1 DEF HasWinner
  <2>5. CASE Beats(t, s)
    <3>1. \A q \in (T \cup S) \ {t} : Beats(t, q)
      BY <1>2, <2>1, <2>2, <2>5
    <3> QED BY <3>1 DEF HasWinner
  <2> QED BY <2>3, <2>4, <2>5
<1> QED BY <1>1, <1>3

\* A claim set over the entry becomes the entry.
LEMMA ClaimWins ==
  ASSUME NEW S \in SUBSET Seq(Clients), HasWinner(S), NEW c \in Clients
  PROVE LET claim == Append(Entry(S), c)
        IN /\ claim \in Seq(Clients) /\ claim # <<>> /\ Last(claim) = c
           /\ HasWinner(S \cup {claim})
           /\ Entry(S \cup {claim}) = claim
<1> DEFINE claim == Append(Entry(S), c)
           T == S \cup {claim}
<1>1. Entry(S) \in Seq(Clients)
  BY EntryIsAClaim
<1>2. claim \in Seq(Clients) /\ claim # <<>> /\ Last(claim) = c /\ Beats(claim, Entry(S))
  BY <1>1, AppendBeats
<1>3. ASSUME NEW q \in S \ {claim} PROVE Beats(claim, q)
  <2>1. CASE q = Entry(S)
    BY <2>1, <1>2
  <2>2. CASE q # Entry(S)
    <3>1. Beats(Entry(S), q)
      BY <2>2, EntryWins
    <3>2. claim \in Seq(Clients) /\ Entry(S) \in Seq(Clients) /\ q \in Seq(Clients)
      BY <1>1, <1>2
    <3>3. Beats(claim, Entry(S))
      BY <1>2
    <3> HIDE DEF claim
    <3> QED BY <3>1, <3>2, <3>3, BeatsTransitive
  <2> QED BY <2>1, <2>2
<1> HIDE DEF claim
<1>4. T \in SUBSET Seq(Clients) /\ claim \in T /\ \A q \in T \ {claim} : Beats(claim, q)
  BY <1>2, <1>3
<1>5. HasWinner(T)
  BY <1>4 DEF HasWinner
<1>6. Entry(T) = claim
  <2> HIDE DEF T
  <2> QED BY <1>4, EntryIs
<1> QED BY <1>2, <1>5, <1>6 DEF claim

-----------------------------------------------------------------------------
(* The inductive invariant *)

Pcs == {"idle", "flushing", "settling", "reading", "copying"}
Attempts == [pc : Pcs, since : Nat, waited : Nat, base : SUBSET Writes, alone : BOOLEAN]
Nets == [claims : SUBSET Seq(Clients), writes : SUBSET Writes]

TypeOK ==
  /\ kind \in {"init", "reconcile"}
  /\ alive \subseteq Clients
  /\ replica \in [Clients -> Nets] /\ relay \in Nets
  /\ aware \in [Clients -> SUBSET Clients]
  /\ attempt \in [Clients -> Attempts]
  /\ tries \in [Clients -> 0..MaxTries]
  /\ unsentFor \in [Clients -> 0..MaxFlush] /\ behindFor \in [Clients -> 0..MaxDelay]
  /\ saw \in [Writes -> SUBSET Writes] /\ fast \subseteq Writes

\* What anybody knows of, its author knows of, and others have it from the relay.
Origins ==
  /\ \A e \in Clients : \A p \in replica[e].claims :
       p # <<>> /\ p \in replica[Last(p)].claims
  /\ \A p \in relay.claims : p # <<>> /\ p \in replica[Last(p)].claims
  /\ \A e \in Clients : \A v \in replica[e].writes :
       v \in replica[v[1]].writes /\ (v \in relay.writes \/ e = v[1])
  /\ \A v \in relay.writes \cup fast : v \in replica[v[1]].writes

Winners ==
  HasWinner(relay.claims) /\ \A c \in Clients : HasWinner(replica[c].claims)

\* Where an attempt can be; the write it may come to is a new one.
Stage(c) ==
  /\ attempt[c].pc = "idle" \/ c \notin alive => attempt[c] = Idle
  /\ attempt[c].pc = "flushing" => attempt[c].since = 0
  /\ attempt[c].pc = "reading" => kind = "init"
  /\ attempt[c].pc = "copying" => kind = "reconcile"
  /\ attempt[c].pc # "idle" => tries[c] > 0
  /\ \A v \in replica[c].writes :
       v[1] = c => v[2] <= tries[c] /\ (attempt[c].pc # "idle" => v[2] < tries[c])

Stages == \A c \in Clients : Stage(c)

(***************************************************************************)
(* A client that waits has its claims with another one, or they are on     *)
(* their way to it, or in its own buffer, and not for longer than that may *)
(* take.  One that has waited has them with everybody.                     *)
(***************************************************************************)
Own(c) == {p \in replica[c].claims : Last(p) = c}
Reached(c, d) == Own(c) \subseteq replica[d].claims
OnItsWay(c, d) ==
  /\ Own(c) \subseteq relay.claims
  /\ attempt[c].waited <= MaxFlush + behindFor[d] /\ attempt[c].since <= behindFor[d]
InBuffer(c) ==
  /\ attempt[c].pc = "flushing" /\ ~(Own(c) \subseteq relay.claims)
  /\ attempt[c].waited <= unsentFor[c]

ClaimKnown ==
  \A c, d \in alive :
    /\ attempt[c].pc \in {"flushing", "settling"} =>
         Reached(c, d) \/ OnItsWay(c, d) \/ InBuffer(c)
    /\ attempt[c].pc = "reading" => Reached(c, d)

(***************************************************************************)
(* When somebody has written, every other client knows, or cannot win any  *)
(* more, or will copy, or has not waited for as long as it takes to learn  *)
(* of it: at most MaxDelay for its claim to have come to the writer before *)
(* it wrote, and a flush and a delay for the write to come back.           *)
(***************************************************************************)
Live(v) == v \in relay.writes \/ v[1] \in alive
Beaten(d) == \E p \in replica[d].claims : \A q \in Own(d) : Beats(p, q)
InTime(v, d) ==
  IF v \in relay.writes
  THEN /\ attempt[d].waited <= 2 * MaxFlush + MaxDelay + behindFor[d]
       /\ attempt[d].since <= MaxFlush + MaxDelay + behindFor[d]
  ELSE /\ attempt[d].waited <= MaxFlush + MaxDelay + unsentFor[v[1]]
       /\ attempt[d].since <= MaxDelay + unsentFor[v[1]]

WriteKnown ==
  \A v \in fast : Live(v) => \A d \in alive :
    \/ v \in replica[d].writes
    \/ attempt[d].pc = "copying"
    \/ Beaten(d)
    \/ attempt[d].pc # "reading" /\ InTime(v, d)

NoneConcurrent ==
  \A v, w \in fast : Live(v) /\ Live(w) /\ v # w
    => kind = "reconcile" /\ (v \in saw[w] \/ w \in saw[v])

\* The last client has nothing to wait for, and an entry of its own.
AloneWins ==
  \A c \in alive : attempt[c].alone =>
    /\ alive = {c}
    /\ relay.claims \subseteq replica[c].claims /\ relay.writes \subseteq replica[c].writes
    /\ kind = "init" => Mine(c)

IInv ==
  /\ TypeOK /\ Origins /\ Winners /\ Stages
  /\ ClaimKnown /\ WriteKnown /\ NoneConcurrent /\ AloneWins

-----------------------------------------------------------------------------
(* What the types and the assumptions give *)

LEMMA Bounds ==
  /\ Clients \subseteq Nat /\ Kinds \subseteq {"init", "reconcile"}
  /\ MaxTries \in Nat /\ MaxFlush \in Nat /\ MaxDelay \in Nat
  /\ Quiet \in Nat /\ MaxWait \in Nat
  /\ Quiet > MaxFlush + 2 * MaxDelay /\ MaxWait > 2 * (MaxFlush + MaxDelay)
BY ClaimsAssumption, ClaimsTiming

LEMMA OfClient ==
  ASSUME TypeOK, NEW c \in Clients
  PROVE /\ replica[c].claims \in SUBSET Seq(Clients) /\ replica[c].writes \in SUBSET Writes
        /\ replica[c] = [claims |-> replica[c].claims, writes |-> replica[c].writes]
        /\ attempt[c].pc \in Pcs /\ attempt[c].alone \in BOOLEAN
        /\ attempt[c].since \in Nat /\ attempt[c].waited \in Nat
        /\ attempt[c].base \in SUBSET Writes
        /\ tries[c] \in Nat /\ tries[c] <= MaxTries
        /\ unsentFor[c] \in Nat /\ unsentFor[c] <= MaxFlush
        /\ behindFor[c] \in Nat /\ behindFor[c] <= MaxDelay
<1>1. replica[c] \in Nets /\ attempt[c] \in Attempts
  BY DEF TypeOK
<1>2. /\ replica[c].claims \in SUBSET Seq(Clients) /\ replica[c].writes \in SUBSET Writes
      /\ replica[c] = [claims |-> replica[c].claims, writes |-> replica[c].writes]
  BY <1>1 DEF Nets
<1>3. /\ attempt[c].pc \in Pcs /\ attempt[c].alone \in BOOLEAN
      /\ attempt[c].since \in Nat /\ attempt[c].waited \in Nat
      /\ attempt[c].base \in SUBSET Writes
  BY <1>1 DEF Attempts
<1>4. tries[c] \in 0..MaxTries /\ unsentFor[c] \in 0..MaxFlush /\ behindFor[c] \in 0..MaxDelay
  BY DEF TypeOK
<1> QED BY <1>2, <1>3, <1>4, Bounds

LEMMA OfRelay ==
  ASSUME TypeOK
  PROVE /\ relay.claims \in SUBSET Seq(Clients) /\ relay.writes \in SUBSET Writes
        /\ relay = [claims |-> relay.claims, writes |-> relay.writes]
BY DEF TypeOK, Nets

LEMMA OfWrite ==
  ASSUME NEW v \in Writes
  PROVE v[1] \in Clients /\ v[2] \in 1..MaxTries /\ v = <<v[1], v[2]>>
BY DEF Writes

LEMMA UnsentIs ==
  ASSUME TypeOK, NEW c \in Clients
  PROVE Unsent(c) <=> ~(replica[c].claims \subseteq relay.claims
                        /\ replica[c].writes \subseteq relay.writes)
<1>1. relay = [claims |-> relay.claims, writes |-> relay.writes]
  BY OfRelay
<1>2. ASSUME replica[c].claims \subseteq relay.claims, replica[c].writes \subseteq relay.writes
      PROVE Merged(relay, replica[c]) = relay
  <2>1. relay.claims \cup replica[c].claims = relay.claims
    BY <1>2
  <2>2. relay.writes \cup replica[c].writes = relay.writes
    BY <1>2
  <2> QED BY <1>1, <2>1, <2>2 DEF Merged
<1>3. ASSUME Merged(relay, replica[c]) = relay
      PROVE replica[c].claims \subseteq relay.claims /\ replica[c].writes \subseteq relay.writes
  <2>1. relay.claims \cup replica[c].claims = relay.claims
        /\ relay.writes \cup replica[c].writes = relay.writes
    BY <1>3 DEF Merged
  <2> QED BY <2>1
<1> QED BY <1>2, <1>3 DEF Unsent

LEMMA BehindIs ==
  ASSUME TypeOK, NEW c \in Clients
  PROVE Behind(c) <=> ~(relay.claims \subseteq replica[c].claims
                        /\ relay.writes \subseteq replica[c].writes)
<1>1. replica[c] = [claims |-> replica[c].claims, writes |-> replica[c].writes]
  BY OfClient
<1>2. ASSUME relay.claims \subseteq replica[c].claims, relay.writes \subseteq replica[c].writes
      PROVE Merged(replica[c], relay) = replica[c]
  <2>1. replica[c].claims \cup relay.claims = replica[c].claims
    BY <1>2
  <2>2. replica[c].writes \cup relay.writes = replica[c].writes
    BY <1>2
  <2> QED BY <1>1, <2>1, <2>2 DEF Merged
<1>3. ASSUME Merged(replica[c], relay) = replica[c]
      PROVE relay.claims \subseteq replica[c].claims /\ relay.writes \subseteq replica[c].writes
  <2>1. replica[c].claims \cup relay.claims = replica[c].claims
        /\ replica[c].writes \cup relay.writes = replica[c].writes
    BY <1>3 DEF Merged
  <2> QED BY <2>1
<1> QED BY <1>2, <1>3 DEF Behind

LEMMA IdleIs ==
  /\ Idle \in Attempts
  /\ Idle.pc = "idle" /\ Idle.since = 0 /\ Idle.waited = 0 /\ Idle.base = {}
  /\ Idle.alone = FALSE
BY DEF Idle, Attempts, Pcs

-----------------------------------------------------------------------------
(* What the steps do to whom *)

OthersKept(c) ==
  \A d \in Clients : d # c =>
    replica'[d] = replica[d] /\ attempt'[d] = attempt[d] /\ tries'[d] = tries[d]

ClaimEffect(c) ==
  /\ c \in alive /\ attempt[c].pc = "idle" /\ tries[c] < MaxTries
  /\ kind = "init" => replica[c].writes = {}
  /\ OthersKept(c)
  /\ tries'[c] = tries[c] + 1
  /\ attempt'[c].pc = "flushing" /\ attempt'[c].since = 0 /\ attempt'[c].waited = 0
  /\ attempt'[c].alone = Alone(c)
  /\ replica'[c].writes = replica[c].writes
  /\ \/ ~SetsClaim(c) /\ replica'[c].claims = replica[c].claims
     \/ /\ SetsClaim(c)
        /\ replica'[c].claims =
             replica[c].claims \cup {Append(Entry(replica[c].claims), c)}
  /\ UNCHANGED <<kind, alive, relay, unsentFor, behindFor, aware, saw, fast>>

LEMMA ClaimDoes ==
  ASSUME TypeOK, Winners, NEW c \in Clients, Claim(c)
  PROVE ClaimEffect(c) /\ TypeOK'
<1>1. /\ c \in alive /\ attempt[c].pc = "idle" /\ tries[c] < MaxTries
      /\ kind = "init" => replica[c].writes = {}
      /\ UNCHANGED <<kind, alive, relay, unsentFor, behindFor, aware, saw, fast>>
  BY DEF Claim, At
<1>2. /\ tries' = [tries EXCEPT ![c] = @ + 1]
      /\ attempt' = [attempt EXCEPT ![c] =
                       [Idle EXCEPT !.pc = "flushing", !.base = replica[c].writes,
                                    !.alone = Alone(c)]]
      /\ replica' = [replica EXCEPT ![c].claims =
                       IF SetsClaim(c) THEN @ \cup {Append(Entry(@), c)} ELSE @]
  BY DEF Claim
<1>3. tries \in [Clients -> 0..MaxTries] /\ attempt \in [Clients -> Attempts]
      /\ replica \in [Clients -> Nets]
  BY DEF TypeOK
<1>4. Alone(c) \in BOOLEAN /\ SetsClaim(c) \in BOOLEAN
  BY DEF Alone, SetsClaim
<1>5. OthersKept(c)
  <2> HIDE DEF Alone, SetsClaim
  <2> QED BY <1>2, <1>3 DEF OthersKept
<1>6. tries'[c] = tries[c] + 1 /\ tries'[c] \in 0..MaxTries
  BY <1>1, <1>2, <1>3, OfClient, Bounds
<1> DEFINE new == [Idle EXCEPT !.pc = "flushing", !.base = replica[c].writes,
                               !.alone = Alone(c)]
<1>7. /\ attempt'[c].pc = "flushing" /\ attempt'[c].since = 0 /\ attempt'[c].waited = 0
      /\ attempt'[c].alone = Alone(c) /\ attempt'[c] \in Attempts
  <2>1. attempt'[c] = new
    BY <1>2, <1>3
  <2>2. replica[c].writes \in SUBSET Writes
    BY OfClient
  <2>3. /\ new.pc = "flushing" /\ new.since = 0 /\ new.waited = 0 /\ new.alone = Alone(c)
        /\ new \in Attempts
    BY <1>4, <2>2 DEF Idle, Attempts, Pcs
  <2> QED BY <2>1, <2>3
<1> DEFINE set == replica[c].claims \cup {Append(Entry(replica[c].claims), c)}
<1>8. /\ replica'[c].writes = replica[c].writes
      /\ replica'[c].claims = IF SetsClaim(c) THEN set ELSE replica[c].claims
  <2> HIDE DEF SetsClaim
  <2> QED BY <1>2, <1>3 DEF Nets
<1>9. set \in SUBSET Seq(Clients) /\ replica[c].claims \in SUBSET Seq(Clients)
  <2>1. replica[c].claims \in SUBSET Seq(Clients) /\ HasWinner(replica[c].claims)
    BY OfClient DEF Winners
  <2>2. Append(Entry(replica[c].claims), c) \in Seq(Clients)
    BY <2>1, ClaimWins
  <2> QED BY <2>1, <2>2
<1>10. replica'[c] \in Nets
  <2> DEFINE now == IF SetsClaim(c) THEN set ELSE replica[c].claims
  <2>1. now \in SUBSET Seq(Clients)
    BY <1>9
  <2>2. replica'[c] = [replica[c] EXCEPT !.claims = now]
    <3> HIDE DEF SetsClaim
    <3> QED BY <1>2, <1>3
  <2> HIDE DEF now
  <2> QED BY <1>3, <2>1, <2>2 DEF Nets
<1>11. ClaimEffect(c)
  <2> HIDE DEF SetsClaim, Alone
  <2> QED BY <1>1, <1>5, <1>6, <1>7, <1>8 DEF ClaimEffect
<1>12. /\ tries' \in [Clients -> 0..MaxTries] /\ attempt' \in [Clients -> Attempts]
       /\ replica' \in [Clients -> Nets]
  <2>1. tries' \in [Clients -> 0..MaxTries]
    <3>1. tries[c] + 1 \in 0..MaxTries
      BY <1>6
    <3> QED BY <1>2, <1>3, <3>1
  <2>2. attempt' \in [Clients -> Attempts]
    <3>1. new \in Attempts
      BY <1>2, <1>3, <1>7
    <3> HIDE DEF new
    <3> QED BY <1>2, <1>3, <3>1 DEF new
  <2>3. replica' \in [Clients -> Nets]
    <3>1. DOMAIN replica' = Clients /\ replica' = [d \in Clients |-> replica'[d]]
      BY <1>2, <1>3
    <3>2. \A d \in Clients : replica'[d] \in Nets
      BY <1>3, <1>5, <1>10 DEF OthersKept
    <3> QED BY <3>1, <3>2
  <2> QED BY <2>1, <2>2, <2>3
<1>13. TypeOK'
  <2> HIDE DEF SetsClaim, Alone
  <2> QED BY <1>1, <1>12 DEF TypeOK
<1> QED BY <1>11, <1>13

(***************************************************************************)
(* A step of an attempt that writes nothing: on to the next place, or its  *)
(* end.                                                                    *)
(***************************************************************************)
MoveEffect(c, place) ==
  /\ \A d \in Clients : d # c => attempt'[d] = attempt[d]
  /\ attempt'[c].pc = place
  /\ attempt'[c].since = attempt[c].since /\ attempt'[c].waited = attempt[c].waited
  /\ attempt'[c].alone = attempt[c].alone
  /\ UNCHANGED <<kind, alive, netVars, aware, tries, historyVars>>

LEMMA GoesTo ==
  ASSUME TypeOK, NEW c \in Clients, NEW place \in Pcs, Goes(c, place),
         UNCHANGED <<kind, alive, netVars, aware, tries, historyVars>>
  PROVE MoveEffect(c, place) /\ TypeOK'
<1>1. attempt \in [Clients -> Attempts] /\ attempt' = [attempt EXCEPT ![c].pc = place]
  BY DEF TypeOK, Goes
<1>2. /\ \A d \in Clients : d # c => attempt'[d] = attempt[d]
      /\ attempt'[c].pc = place
      /\ attempt'[c].since = attempt[c].since /\ attempt'[c].waited = attempt[c].waited
      /\ attempt'[c].alone = attempt[c].alone
  BY <1>1 DEF Attempts
<1>3. attempt' \in [Clients -> Attempts]
  BY <1>1 DEF Attempts
<1>4. TypeOK'
  BY <1>3 DEF TypeOK, netVars, historyVars
<1> QED BY <1>2, <1>4 DEF MoveEffect

EndEffect(c) ==
  /\ \A d \in Clients : d # c => attempt'[d] = attempt[d]
  /\ attempt'[c] = Idle
  /\ UNCHANGED <<kind, alive, netVars, aware, tries, historyVars>>

LEMMA EndsAt ==
  ASSUME TypeOK, NEW c \in Clients, Ends(c),
         UNCHANGED <<kind, alive, netVars, aware, tries, historyVars>>
  PROVE EndEffect(c) /\ TypeOK'
<1>1. attempt \in [Clients -> Attempts] /\ attempt' = [attempt EXCEPT ![c] = Idle]
  BY DEF TypeOK, Ends
<1>2. attempt' \in [Clients -> Attempts]
  BY <1>1, IdleIs
<1>3. TypeOK'
  BY <1>2 DEF TypeOK, netVars, historyVars
<1> QED BY <1>1, <1>3 DEF EndEffect

\* A write, and with it the end of the attempt.
WriteEffect(c, isFast) ==
  /\ OthersKept(c) /\ attempt'[c] = Idle
  /\ replica'[c].claims = replica[c].claims
  /\ replica'[c].writes = replica[c].writes \cup {ThisWrite(c)}
  /\ saw'[ThisWrite(c)] = replica[c].writes
  /\ \A v \in Writes : v # ThisWrite(c) => saw'[v] = saw[v]
  /\ fast' = IF isFast THEN fast \cup {ThisWrite(c)} ELSE fast
  /\ UNCHANGED <<kind, alive, relay, unsentFor, behindFor, aware, tries>>

LEMMA WritesAt ==
  ASSUME TypeOK, NEW c \in Clients, NEW isFast \in BOOLEAN, tries[c] > 0,
         Write(c, isFast), Ends(c),
         UNCHANGED <<kind, alive, relay, unsentFor, behindFor, aware, tries>>
  PROVE WriteEffect(c, isFast) /\ ThisWrite(c) \in Writes /\ TypeOK'
<1>1. /\ attempt \in [Clients -> Attempts] /\ attempt' = [attempt EXCEPT ![c] = Idle]
      /\ replica \in [Clients -> Nets] /\ saw \in [Writes -> SUBSET Writes]
      /\ fast \subseteq Writes
  BY DEF TypeOK, Ends
<1>2. ThisWrite(c) \in Writes
  <2>1. tries[c] \in Nat /\ tries[c] <= MaxTries /\ MaxTries \in Nat
    BY OfClient, Bounds
  <2>2. tries[c] \in 1..MaxTries
    BY <2>1
  <2> QED BY <2>2 DEF ThisWrite, Writes
<1> DEFINE w == ThisWrite(c)
<1>3. /\ replica' = [replica EXCEPT ![c].writes = @ \cup {w}]
      /\ saw' = [saw EXCEPT ![w] = replica[c].writes]
      /\ fast' = IF isFast THEN fast \cup {w} ELSE fast
  BY DEF Write
<1> HIDE DEF w
<1>4. w \in Writes
  BY <1>2 DEF w
<1>5. replica[c].writes \in SUBSET Writes
  BY OfClient
<1>6. attempt' \in [Clients -> Attempts]
  BY <1>1, IdleIs
<1>7. /\ \A d \in Clients : d # c => replica'[d] = replica[d]
      /\ replica'[c].claims = replica[c].claims
      /\ replica'[c].writes = replica[c].writes \cup {w}
  BY <1>1, <1>3 DEF Nets
<1>8. replica' \in [Clients -> Nets]
  BY <1>1, <1>3, <1>4 DEF Nets
<1>9. saw' \in [Writes -> SUBSET Writes] /\ saw'[w] = replica[c].writes
      /\ \A v \in Writes : v # w => saw'[v] = saw[v]
  BY <1>1, <1>3, <1>4, <1>5
<1>10. fast' \subseteq Writes
  BY <1>1, <1>3, <1>4
<1>11. TypeOK'
  BY <1>6, <1>8, <1>9, <1>10 DEF TypeOK
<1>12. \A d \in Clients : d # c => attempt'[d] = attempt[d]
  BY <1>1
<1>13. attempt'[c] = Idle
  BY <1>1
<1>14. WriteEffect(c, isFast)
  BY <1>3, <1>7, <1>9, <1>12, <1>13 DEF WriteEffect, OthersKept, w
<1> QED BY <1>2, <1>11, <1>14

PushEffect(c) ==
  /\ c \in alive
  /\ relay'.claims = relay.claims \cup replica[c].claims
  /\ relay'.writes = relay.writes \cup replica[c].writes
  /\ \A d \in Clients : d # c => unsentFor'[d] = unsentFor[d]
  /\ UNCHANGED <<kind, alive, replica, behindFor, aware, attempt, tries, saw, fast>>

LEMMA PushDoes ==
  ASSUME TypeOK, NEW c \in Clients, Push(c)
  PROVE PushEffect(c) /\ TypeOK'
<1>1. /\ c \in alive /\ relay' = Merged(relay, replica[c])
      /\ unsentFor' = [unsentFor EXCEPT ![c] = 0]
      /\ UNCHANGED <<kind, alive, replica, behindFor, aware, attempt, tries, saw, fast>>
  BY DEF Push, historyVars
<1>2. unsentFor \in [Clients -> 0..MaxFlush] /\ 0 \in 0..MaxFlush
  BY Bounds DEF TypeOK
<1>3. unsentFor' \in [Clients -> 0..MaxFlush]
      /\ \A d \in Clients : d # c => unsentFor'[d] = unsentFor[d]
  BY <1>1, <1>2
<1>4. /\ relay'.claims = relay.claims \cup replica[c].claims
      /\ relay'.writes = relay.writes \cup replica[c].writes
  BY <1>1 DEF Merged
<1>5. relay' \in Nets
  <2>1. /\ relay.claims \cup replica[c].claims \in SUBSET Seq(Clients)
        /\ relay.writes \cup replica[c].writes \in SUBSET Writes
    BY OfClient, OfRelay
  <2> QED BY <1>1, <2>1 DEF Merged, Nets
<1>6. TypeOK'
  BY <1>1, <1>3, <1>5 DEF TypeOK
<1> QED BY <1>1, <1>3, <1>4, <1>6 DEF PushEffect

ReceiveEffect(c) ==
  /\ c \in alive /\ Behind(c)
  /\ \A d \in Clients : d # c => /\ replica'[d] = replica[d] /\ attempt'[d] = attempt[d]
                                 /\ behindFor'[d] = behindFor[d]
  /\ replica'[c].claims = replica[c].claims \cup relay.claims
  /\ replica'[c].writes = replica[c].writes \cup relay.writes
  /\ \/ attempt'[c] = attempt[c]
     \/ /\ attempt[c].pc = "settling" /\ attempt'[c].pc = "settling"
        /\ attempt'[c].since = 0 /\ attempt'[c].waited = attempt[c].waited
        /\ attempt'[c].alone = attempt[c].alone
  /\ UNCHANGED <<kind, alive, relay, unsentFor, aware, tries, saw, fast>>

LEMMA ReceiveDoes ==
  ASSUME TypeOK, NEW c \in Clients, Receive(c)
  PROVE ReceiveEffect(c) /\ TypeOK'
<1>1. /\ c \in alive /\ Behind(c)
      /\ replica' = [replica EXCEPT ![c] = Merged(@, relay)]
      /\ behindFor' = [behindFor EXCEPT ![c] = 0]
      /\ UNCHANGED <<kind, alive, relay, unsentFor, aware, tries, saw, fast>>
  BY DEF Receive, historyVars
<1>2. \/ attempt' = attempt
      \/ attempt[c].pc = "settling" /\ attempt' = [attempt EXCEPT ![c].since = 0]
  BY DEF Receive, At
<1>3. /\ behindFor \in [Clients -> 0..MaxDelay] /\ attempt \in [Clients -> Attempts]
      /\ replica \in [Clients -> Nets]
  BY DEF TypeOK
<1>4. behindFor' \in [Clients -> 0..MaxDelay]
      /\ \A d \in Clients : d # c => behindFor'[d] = behindFor[d]
  <2>1. 0 \in 0..MaxDelay
    BY Bounds
  <2> QED BY <1>1, <1>3, <2>1
<1>5. attempt' \in [Clients -> Attempts]
      /\ \A d \in Clients : d # c => attempt'[d] = attempt[d]
  BY <1>2, <1>3 DEF Attempts
<1>6. \/ attempt'[c] = attempt[c]
      \/ /\ attempt[c].pc = "settling" /\ attempt'[c].pc = "settling"
         /\ attempt'[c].since = 0 /\ attempt'[c].waited = attempt[c].waited
         /\ attempt'[c].alone = attempt[c].alone
  BY <1>2, <1>3 DEF Attempts
<1>7. /\ Merged(replica[c], relay).claims = replica[c].claims \cup relay.claims
      /\ Merged(replica[c], relay).writes = replica[c].writes \cup relay.writes
      /\ Merged(replica[c], relay) \in Nets
  <2>1. /\ replica[c].claims \cup relay.claims \in SUBSET Seq(Clients)
        /\ replica[c].writes \cup relay.writes \in SUBSET Writes
    BY OfClient, OfRelay
  <2> QED BY <2>1 DEF Merged, Nets
<1>8. /\ replica' \in [Clients -> Nets] /\ replica'[c] = Merged(replica[c], relay)
      /\ \A d \in Clients : d # c => replica'[d] = replica[d]
  BY <1>1, <1>3, <1>7
<1>9. TypeOK'
  BY <1>1, <1>4, <1>5, <1>8 DEF TypeOK
<1>10. ReceiveEffect(c)
  BY <1>1, <1>4, <1>5, <1>6, <1>7, <1>8 DEF ReceiveEffect
<1> QED BY <1>9, <1>10

DieEffect(c) ==
  /\ c \in alive /\ alive' = alive \ {c}
  /\ \A d \in Clients : d # c => attempt'[d] = attempt[d]
  /\ attempt'[c] = Idle
  /\ UNCHANGED <<kind, replica, relay, unsentFor, behindFor, aware, tries, saw, fast>>

LEMMA DieDoes ==
  ASSUME TypeOK, NEW c \in Clients, Die(c)
  PROVE DieEffect(c) /\ TypeOK'
<1>1. /\ c \in alive /\ alive' = alive \ {c} /\ attempt' = [attempt EXCEPT ![c] = Idle]
      /\ UNCHANGED <<kind, replica, relay, unsentFor, behindFor, aware, tries, saw, fast>>
  BY DEF Die, Ends, netVars, historyVars
<1>2. attempt \in [Clients -> Attempts]
  BY DEF TypeOK
<1>3. attempt' \in [Clients -> Attempts]
  BY <1>1, <1>2, IdleIs
<1>4. TypeOK'
  BY <1>1, <1>3 DEF TypeOK
<1> QED BY <1>1, <1>2, <1>4 DEF DieEffect

LEMMA AwarenessDoes ==
  ASSUME TypeOK, NEW c \in Clients, NEW d \in Clients,
         AwarenessArrives(c, d) \/ AwarenessGone(c, d)
  PROVE UNCHANGED <<kind, alive, netVars, attempt, tries, historyVars>> /\ TypeOK'
<1>1. UNCHANGED <<kind, alive, netVars, attempt, tries, historyVars>>
  BY DEF AwarenessArrives, AwarenessGone
<1>2. aware' \in [Clients -> SUBSET Clients]
  BY DEF AwarenessArrives, AwarenessGone, TypeOK
<1>3. TypeOK'
  BY <1>1, <1>2 DEF TypeOK, netVars, historyVars
<1> QED BY <1>1, <1>3

\* A tick: clocks that run go on, and none beyond its bound.
TickEffect ==
  /\ \A c \in Clients :
       /\ attempt'[c].pc = attempt[c].pc /\ attempt'[c].alone = attempt[c].alone
       /\ attempt'[c].since = 0
          \/ (attempt[c].pc = "settling" /\ attempt'[c].since <= attempt[c].since + 1)
       /\ attempt'[c].waited = 0 \/ attempt'[c].waited <= attempt[c].waited + 1
       /\ attempt[c] = Idle => attempt'[c] = Idle
  /\ \A c \in alive : /\ Unsent(c) => unsentFor'[c] = unsentFor[c] + 1
                      /\ Behind(c) => behindFor'[c] = behindFor[c] + 1
  /\ UNCHANGED <<kind, alive, replica, relay, aware, tries, saw, fast>>

LEMMA TickDoes ==
  ASSUME TypeOK, Tick
  PROVE TickEffect /\ TypeOK'
<1>1. /\ \A c \in alive : /\ Unsent(c) => unsentFor[c] < MaxFlush
                          /\ Behind(c) => behindFor[c] < MaxDelay
      /\ unsentFor' = [c \in Clients |->
                         IF c \in alive /\ Unsent(c) THEN unsentFor[c] + 1 ELSE 0]
      /\ behindFor' = [c \in Clients |->
                         IF c \in alive /\ Behind(c) THEN behindFor[c] + 1 ELSE 0]
      /\ attempt' = [c \in Clients |-> Aged(c)]
      /\ UNCHANGED <<kind, alive, replica, relay, aware, tries, saw, fast>>
  BY DEF Tick, historyVars
<1>2. \A c \in Clients : unsentFor'[c] \in 0..MaxFlush /\ behindFor'[c] \in 0..MaxDelay
  <2> SUFFICES ASSUME NEW c \in Clients
               PROVE unsentFor'[c] \in 0..MaxFlush /\ behindFor'[c] \in 0..MaxDelay
    OBVIOUS
  <2>1. unsentFor[c] \in Nat /\ behindFor[c] \in Nat /\ MaxFlush \in Nat /\ MaxDelay \in Nat
    BY OfClient, Bounds
  <2> HIDE DEF Unsent, Behind
  <2> QED BY <1>1, <2>1
<1>3. \A c \in alive : /\ Unsent(c) => unsentFor'[c] = unsentFor[c] + 1
                       /\ Behind(c) => behindFor'[c] = behindFor[c] + 1
  BY <1>1 DEF TypeOK
<1>4. ASSUME NEW c \in Clients
      PROVE /\ attempt'[c] \in Attempts
            /\ attempt'[c].pc = attempt[c].pc /\ attempt'[c].alone = attempt[c].alone
            /\ attempt'[c].since = 0
               \/ (attempt[c].pc = "settling" /\ attempt'[c].since <= attempt[c].since + 1)
            /\ attempt'[c].waited = 0 \/ attempt'[c].waited <= attempt[c].waited + 1
            /\ attempt[c] = Idle => attempt'[c] = Idle
  <2>1. attempt'[c] = Aged(c)
    BY <1>1
  <2>2. attempt[c] \in Attempts
    BY DEF TypeOK
  <2> DEFINE a == attempt[c]
             s == IF At(c, "settling") THEN Later(a.since, Quiet) ELSE 0
             t == IF Waiting(c) THEN Later(a.waited, MaxWait) ELSE 0
  <2>3. Aged(c) = [a EXCEPT !.since = s, !.waited = t]
    BY <2>2 DEF Aged, Attempts
  <2>4. /\ s \in Nat /\ t \in Nat
        /\ s = 0 \/ (a.pc = "settling" /\ s <= a.since + 1)
        /\ t = 0 \/ t <= a.waited + 1
    <3>1. a.since \in Nat /\ a.waited \in Nat /\ Quiet \in Nat /\ MaxWait \in Nat
      BY OfClient, Bounds
    <3>2. At(c, "settling") => a.pc = "settling"
      BY DEF At
    <3>3. ASSUME NEW n \in Nat, NEW b \in Nat
          PROVE Later(n, b) \in Nat /\ Later(n, b) <= n + 1
      BY DEF Later
    <3> HIDE DEF a, Later, At, Waiting
    <3>4. Later(a.since, Quiet) \in Nat /\ Later(a.since, Quiet) <= a.since + 1
      BY <3>1, <3>3
    <3>5. Later(a.waited, MaxWait) \in Nat /\ Later(a.waited, MaxWait) <= a.waited + 1
      BY <3>1, <3>3
    <3> QED BY <3>2, <3>4, <3>5
  <2>5. s \in Nat /\ t \in Nat
    BY <2>4
  <2>6. a = Idle => s = 0 /\ t = 0
    BY IdleIs DEF At, Waiting
  <2> HIDE DEF a, s, t
  <2>7. a \in Attempts
    BY <2>2 DEF a
  <2>8. LET b == [a EXCEPT !.since = s, !.waited = t]
        IN /\ b \in Attempts /\ b.pc = a.pc /\ b.alone = a.alone /\ b.since = s /\ b.waited = t
    BY <2>5, <2>7 DEF Attempts
  <2>9. a = Idle => [a EXCEPT !.since = s, !.waited = t] = a
    BY <2>6, <2>7, IdleIs DEF Attempts
  <2> QED BY <2>1, <2>3, <2>4, <2>8, <2>9 DEF a
<1>5. /\ unsentFor' \in [Clients -> 0..MaxFlush] /\ behindFor' \in [Clients -> 0..MaxDelay]
      /\ attempt' \in [Clients -> Attempts]
  BY <1>1, <1>2, <1>4
<1>6. TypeOK'
  BY <1>1, <1>5 DEF TypeOK
<1>7. TickEffect
  BY <1>1, <1>3, <1>4 DEF TickEffect
<1> QED BY <1>6, <1>7

-----------------------------------------------------------------------------
(* What a client that has waited knows *)

LEMMA AliveAreClients ==
  ASSUME TypeOK, NEW c \in alive
  PROVE c \in Clients
BY DEF TypeOK

\* It is past the time within which a write may still be unknown to it.
LEMMA NotInTime ==
  ASSUME TypeOK, NEW c \in alive, Settles(c), NEW v \in Writes
  PROVE ~InTime(v, c)
<1>1. /\ attempt[c].since \in Nat /\ attempt[c].waited \in Nat
      /\ behindFor[c] \in Nat /\ behindFor[c] <= MaxDelay
  BY OfClient, AliveAreClients
<1>2. unsentFor[v[1]] \in Nat /\ unsentFor[v[1]] <= MaxFlush
  BY OfClient, OfWrite
<1>3. attempt[c].since >= Quiet \/ attempt[c].waited >= MaxWait
  BY DEF Settles, OutOfTime
<1> QED BY <1>1, <1>2, <1>3, Bounds DEF InTime

\* And the others have its claims.
LEMMA HasReached ==
  ASSUME TypeOK, ClaimKnown, NEW c \in alive, Settles(c), NEW d \in alive
  PROVE Reached(c, d)
<1>1. /\ attempt[c].since \in Nat /\ attempt[c].waited \in Nat
      /\ behindFor[d] \in Nat /\ behindFor[d] <= MaxDelay
  BY OfClient, AliveAreClients
<1>2. attempt[c].pc = "settling" /\ (attempt[c].since >= Quiet \/ attempt[c].waited >= MaxWait)
  BY DEF Settles, OutOfTime, At
<1>3. Reached(c, d) \/ OnItsWay(c, d) \/ InBuffer(c)
  BY <1>2 DEF ClaimKnown
<1>4. ~InBuffer(c)
  BY <1>2 DEF InBuffer
<1>5. ~OnItsWay(c, d)
  BY <1>1, <1>2, Bounds DEF OnItsWay
<1> QED BY <1>3, <1>4, <1>5

\* The claim that is the entry.
LEMMA MineIs ==
  ASSUME TypeOK, Winners, NEW c \in Clients, Mine(c)
  PROVE LET p == Entry(replica[c].claims)
        IN /\ p \in Own(c) /\ p \in Seq(Clients)
           /\ \A q \in replica[c].claims \ {p} : Beats(p, q)
<1>1. replica[c].claims \in SUBSET Seq(Clients) /\ HasWinner(replica[c].claims)
  BY OfClient DEF Winners
<1>2. replica[c].claims # {} /\ Last(Entry(replica[c].claims)) = c
  BY DEF Mine, Unclaimed, Claimant
<1> DEFINE p == Entry(replica[c].claims)
<1>3. p \in replica[c].claims /\ \A q \in replica[c].claims \ {p} : Beats(p, q)
  BY <1>1, <1>2, EntryWins
<1>4. p \in Own(c)
  BY <1>2, <1>3 DEF Own
<1> QED BY <1>1, <1>3, <1>4

LEMMA NotBeaten ==
  ASSUME TypeOK, Winners, NEW c \in Clients, Mine(c)
  PROVE ~Beaten(c)
<1> DEFINE p == Entry(replica[c].claims)
<1>1. /\ p \in Own(c) /\ p \in Seq(Clients)
      /\ \A q \in replica[c].claims \ {p} : Beats(p, q)
  BY MineIs
<1> HIDE DEF p
<1>2. ASSUME NEW r \in replica[c].claims, Beats(r, p) PROVE FALSE
  <2>1. r \in Seq(Clients)
    BY OfClient
  <2>2. r # p /\ ~Beats(p, r)
    BY <1>1, <1>2, <2>1, BeatsAsymmetric
  <2> QED BY <1>1, <2>2
<1> QED BY <1>1, <1>2 DEF Beaten

LEMMA LosesTo ==
  ASSUME TypeOK, Winners, NEW c \in Clients, NEW d \in Clients, c # d,
         Mine(c), Reached(c, d), Reached(d, c)
  PROVE Beaten(d)
<1> DEFINE p == Entry(replica[c].claims)
<1>1. /\ p \in Own(c) /\ p \in Seq(Clients)
      /\ \A q \in replica[c].claims \ {p} : Beats(p, q)
  BY MineIs
<1> HIDE DEF p
<1>2. p \in replica[d].claims
  BY <1>1 DEF Reached
<1>3. ASSUME NEW q \in Own(d) PROVE Beats(p, q)
  <2>1. q \in replica[c].claims
    BY DEF Reached
  <2>2. q # p
    BY <1>1 DEF Own
  <2> QED BY <1>1, <2>1, <2>2
<1> QED BY <1>2, <1>3 DEF Beaten

LEMMA LastIsAClient ==
  ASSUME NEW p \in Seq(Clients), p # <<>>
  PROVE Last(p) \in Clients
<1>1. Len(p) \in Nat \ {0}
  BY EmptySeq
<1>2. Len(p) \in 1..Len(p)
  BY <1>1
<1> QED BY <1>2, ElementOfSeq DEF Last

-----------------------------------------------------------------------------
(* The steps, one by one *)

Rest ==
  Origins /\ Winners /\ Stages /\ ClaimKnown /\ WriteKnown /\ NoneConcurrent /\ AloneWins

\* Awareness decides who may take over, and nothing here depends on it.
LEMMA StillKeeps ==
  ASSUME Rest, UNCHANGED <<kind, alive, netVars, attempt, tries, historyVars>>
  PROVE Rest'
<1>1. /\ kind' = kind /\ alive' = alive /\ replica' = replica /\ relay' = relay
      /\ unsentFor' = unsentFor /\ behindFor' = behindFor /\ attempt' = attempt
      /\ tries' = tries /\ saw' = saw /\ fast' = fast
  BY DEF netVars, historyVars
<1>2. Origins' /\ Winners'
  BY <1>1 DEF Rest, Origins, Winners
<1>3. Stages'
  BY <1>1 DEF Rest, Stages, Stage
<1>4. ClaimKnown'
  BY <1>1 DEF Rest, ClaimKnown, Reached, OnItsWay, InBuffer, Own
<1>5. WriteKnown'
  BY <1>1 DEF Rest, WriteKnown, Live, Beaten, InTime, Own
<1>6. NoneConcurrent'
  BY <1>1 DEF Rest, NoneConcurrent, Live
<1>7. AloneWins'
  BY <1>1 DEF Rest, AloneWins, Mine, Unclaimed, Claimant
<1> QED BY <1>2, <1>3, <1>4, <1>5, <1>6, <1>7 DEF Rest

(***************************************************************************)
(* On to the next place: to settling with no claim left in the buffer, to  *)
(* reading when the claim has settled, to copying from anywhere.           *)
(***************************************************************************)
MayMove(c, place) ==
  \/ place = "settling" /\ attempt[c].pc = "flushing" /\ ~InBuffer(c)
  \/ place = "reading" /\ kind = "init" /\ Settles(c)
  \/ place = "copying" /\ kind = "reconcile" /\ attempt[c].pc \in {"flushing", "settling"}

LEMMA MoveKeeps ==
  ASSUME IInv, NEW c \in alive, NEW place \in Pcs, MayMove(c, place), MoveEffect(c, place)
  PROVE Rest'
<1>1. /\ kind' = kind /\ alive' = alive /\ replica' = replica /\ relay' = relay
      /\ unsentFor' = unsentFor /\ behindFor' = behindFor
      /\ tries' = tries /\ saw' = saw /\ fast' = fast
  BY DEF MoveEffect, netVars, historyVars
<1>2. /\ \A d \in Clients : d # c => attempt'[d] = attempt[d]
      /\ attempt'[c].pc = place
      /\ attempt'[c].since = attempt[c].since /\ attempt'[c].waited = attempt[c].waited
      /\ attempt'[c].alone = attempt[c].alone
  BY DEF MoveEffect
<1>3. c \in Clients /\ alive \subseteq Clients
  BY DEF IInv, TypeOK
<1>4. attempt[c].pc \in {"flushing", "settling"}
  BY DEF MayMove, Settles, At
<1>5. Origins' /\ Winners'
  BY <1>1 DEF IInv, Origins, Winners
<1>6. Stages'
  <2> SUFFICES ASSUME NEW d \in Clients PROVE Stage(d)'
    BY DEF Stages
  <2>1. Stage(d)
    BY DEF IInv, Stages
  <2>2. CASE d # c
    BY <2>1, <2>2, <1>1, <1>2 DEF Stage
  <2>3. CASE d = c
    BY <2>1, <2>3, <1>1, <1>2, <1>4 DEF Stage, MayMove
  <2> QED BY <2>2, <2>3
<1>7. ClaimKnown'
  <2> SUFFICES ASSUME NEW a \in alive, NEW d \in alive
               PROVE /\ attempt'[a].pc \in {"flushing", "settling"} =>
                          Reached(a, d)' \/ OnItsWay(a, d)' \/ InBuffer(a)'
                     /\ attempt'[a].pc = "reading" => Reached(a, d)'
    BY <1>1 DEF ClaimKnown
  <2>1. /\ attempt[a].pc \in {"flushing", "settling"} =>
             Reached(a, d) \/ OnItsWay(a, d) \/ InBuffer(a)
        /\ attempt[a].pc = "reading" => Reached(a, d)
    BY DEF IInv, ClaimKnown
  <2>2. Reached(a, d)' = Reached(a, d) /\ OnItsWay(a, d)' = OnItsWay(a, d)
    BY <1>1, <1>2, <1>3 DEF Reached, OnItsWay, Own
  <2>3. CASE a # c
    <3>1. attempt'[a] = attempt[a] /\ InBuffer(a)' = InBuffer(a)
      BY <2>3, <1>1, <1>2, <1>3 DEF InBuffer, Own
    <3> QED BY <3>1, <2>1, <2>2
  <2>4. CASE a = c
    <3>1. CASE place = "settling" /\ ~InBuffer(c)
      BY <3>1, <2>1, <2>2, <2>4, <1>2, <1>4
    <3>2. CASE place = "reading" /\ Settles(c)
      <4>1. Reached(c, d)
        BY <3>2, HasReached DEF IInv
      <4> QED BY <4>1, <3>2, <2>2, <2>4, <1>2
    <3>3. CASE place = "copying"
      BY <3>3, <2>4, <1>2
    <3> QED BY <3>1, <3>2, <3>3 DEF MayMove
  <2> QED BY <2>3, <2>4
<1>8. WriteKnown'
  <2> SUFFICES ASSUME NEW v \in fast, Live(v), NEW d \in alive
               PROVE \/ v \in replica[d].writes
                     \/ attempt'[d].pc = "copying"
                     \/ Beaten(d)'
                     \/ attempt'[d].pc # "reading" /\ InTime(v, d)'
    BY <1>1 DEF WriteKnown, Live
  <2>1. \/ v \in replica[d].writes
        \/ attempt[d].pc = "copying"
        \/ Beaten(d)
        \/ attempt[d].pc # "reading" /\ InTime(v, d)
    BY DEF IInv, WriteKnown
  <2>2. Beaten(d)' = Beaten(d) /\ InTime(v, d)' = InTime(v, d)
    BY <1>1, <1>2, <1>3 DEF Beaten, Own, InTime
  <2>3. CASE d # c
    BY <2>1, <2>2, <2>3, <1>2, <1>3
  <2>4. CASE d = c
    <3>1. CASE place # "reading"
      BY <3>1, <2>1, <2>2, <2>4, <1>2, <1>4
    <3>2. CASE place = "reading" /\ Settles(c)
      <4>1. v \in Writes
        BY DEF IInv, TypeOK
      <4>2. ~InTime(v, c)
        BY <3>2, <4>1, NotInTime DEF IInv
      <4> QED BY <4>2, <2>1, <2>2, <2>4, <1>4
    <3> QED BY <3>1, <3>2 DEF MayMove
  <2> QED BY <2>3, <2>4
<1>9. NoneConcurrent'
  BY <1>1 DEF IInv, NoneConcurrent, Live
<1>10. AloneWins'
  <2>1. \A d \in alive : attempt'[d].alone = attempt[d].alone
    BY <1>2, <1>3
  <2> QED BY <2>1, <1>1 DEF IInv, AloneWins, Mine, Unclaimed, Claimant
<1> QED BY <1>5, <1>6, <1>7, <1>8, <1>9, <1>10 DEF Rest

LEMMA EndKeeps ==
  ASSUME IInv, NEW c \in alive, EndEffect(c)
  PROVE Rest'
<1>1. /\ kind' = kind /\ alive' = alive /\ replica' = replica /\ relay' = relay
      /\ unsentFor' = unsentFor /\ behindFor' = behindFor
      /\ tries' = tries /\ saw' = saw /\ fast' = fast
  BY DEF EndEffect, netVars, historyVars
<1>2. /\ \A d \in Clients : d # c => attempt'[d] = attempt[d]
      /\ attempt'[c] = Idle
  BY DEF EndEffect
<1>3. c \in Clients /\ alive \subseteq Clients
  BY DEF IInv, TypeOK
<1>4. Origins' /\ Winners'
  BY <1>1 DEF IInv, Origins, Winners
<1>5. Stages'
  <2> SUFFICES ASSUME NEW d \in Clients PROVE Stage(d)'
    BY DEF Stages
  <2>1. Stage(d)
    BY DEF IInv, Stages
  <2>2. CASE d # c
    BY <2>1, <2>2, <1>1, <1>2 DEF Stage
  <2>3. CASE d = c
    BY <2>1, <2>3, <1>1, <1>2, IdleIs DEF Stage
  <2> QED BY <2>2, <2>3
<1>6. ClaimKnown'
  <2> SUFFICES ASSUME NEW a \in alive, NEW d \in alive
               PROVE /\ attempt'[a].pc \in {"flushing", "settling"} =>
                          Reached(a, d)' \/ OnItsWay(a, d)' \/ InBuffer(a)'
                     /\ attempt'[a].pc = "reading" => Reached(a, d)'
    BY <1>1 DEF ClaimKnown
  <2>1. CASE a # c
    <3>1. attempt'[a] = attempt[a] /\ InBuffer(a)' = InBuffer(a)
          /\ Reached(a, d)' = Reached(a, d) /\ OnItsWay(a, d)' = OnItsWay(a, d)
      BY <2>1, <1>1, <1>2, <1>3 DEF InBuffer, Own, Reached, OnItsWay
    <3> QED BY <3>1 DEF IInv, ClaimKnown
  <2>2. CASE a = c
    BY <2>2, <1>2, IdleIs
  <2> QED BY <2>1, <2>2
<1>7. WriteKnown'
  <2> SUFFICES ASSUME NEW v \in fast, Live(v), NEW d \in alive
               PROVE \/ v \in replica[d].writes
                     \/ attempt'[d].pc = "copying"
                     \/ Beaten(d)'
                     \/ attempt'[d].pc # "reading" /\ InTime(v, d)'
    BY <1>1 DEF WriteKnown, Live
  <2>1. CASE d # c
    <3>1. /\ Beaten(d)' = Beaten(d) /\ InTime(v, d)' = InTime(v, d)
          /\ attempt'[d] = attempt[d]
      BY <2>1, <1>1, <1>2, <1>3 DEF Beaten, Own, InTime
    <3> QED BY <3>1 DEF IInv, WriteKnown
  <2>2. CASE d = c
    <3>1. attempt'[d].pc = "idle" /\ attempt'[d].since = 0 /\ attempt'[d].waited = 0
      BY <2>2, <1>2, IdleIs
    <3>2. behindFor[d] \in Nat /\ unsentFor[v[1]] \in Nat
      <4>1. v[1] \in Clients
        BY OfWrite DEF IInv, TypeOK
      <4> QED BY <4>1, <1>3, OfClient DEF IInv
    <3>3. InTime(v, d)'
      BY <3>1, <3>2, <1>1, Bounds DEF InTime
    <3> QED BY <3>1, <3>3
  <2> QED BY <2>1, <2>2
<1>8. NoneConcurrent'
  BY <1>1 DEF IInv, NoneConcurrent, Live
<1>9. AloneWins'
  <2>1. \A d \in alive : attempt'[d].alone => attempt[d].alone
    BY <1>2, <1>3, IdleIs
  <2> QED BY <2>1, <1>1 DEF IInv, AloneWins, Mine, Unclaimed, Claimant
<1> QED BY <1>4, <1>5, <1>6, <1>7, <1>8, <1>9 DEF Rest

\* When a client may write without a copy.
MayWrite(c) ==
  /\ Mine(c)
  /\ \/ kind = "init" /\ attempt[c].pc = "reading" /\ replica[c].writes = {}
     \/ kind = "reconcile" /\ Settles(c)

LEMMA WriteKeeps ==
  ASSUME IInv, NEW c \in alive, attempt[c].pc # "idle", NEW isFast \in BOOLEAN,
         isFast => MayWrite(c), ThisWrite(c) \in Writes, WriteEffect(c, isFast)
  PROVE Rest'
<1>0. PICK w \in Writes : w = ThisWrite(c)
  OBVIOUS
<1>1. /\ kind' = kind /\ alive' = alive /\ relay' = relay
      /\ unsentFor' = unsentFor /\ behindFor' = behindFor /\ tries' = tries
  BY DEF WriteEffect
<1>2. /\ \A d \in Clients : d # c => attempt'[d] = attempt[d] /\ replica'[d] = replica[d]
      /\ attempt'[c] = Idle
      /\ replica'[c].claims = replica[c].claims
      /\ replica'[c].writes = replica[c].writes \cup {w}
  BY <1>0 DEF WriteEffect, OthersKept
<1>3. /\ saw'[w] = replica[c].writes
      /\ \A v \in Writes : v # w => saw'[v] = saw[v]
      /\ fast' = IF isFast THEN fast \cup {w} ELSE fast
  BY <1>0 DEF WriteEffect
<1>4. c \in Clients /\ alive \subseteq Clients /\ w \in Writes /\ fast \subseteq Writes
  BY DEF IInv, TypeOK
<1>5. w[1] = c /\ w[2] = tries[c]
  BY <1>0 DEF ThisWrite
<1>6. tries[c] \in Nat
  BY <1>4, OfClient DEF IInv
<1>7. w \notin replica[c].writes
  <2>1. \A v \in replica[c].writes : v[1] = c => v[2] < tries[c]
    BY <1>4 DEF IInv, Stages, Stage
  <2> QED BY <2>1, <1>5, <1>6
<1>8. w \notin fast /\ w \notin relay.writes
  BY <1>5, <1>7 DEF IInv, Origins
<1>9. \A d \in Clients : /\ replica'[d].claims = replica[d].claims
                         /\ replica[d].writes \subseteq replica'[d].writes
                         /\ d # c => replica'[d].writes = replica[d].writes
  BY <1>2
<1>10. Origins'
  <2>1. /\ \A e \in Clients : \A p \in replica[e].claims :
             p # <<>> /\ p \in replica[Last(p)].claims /\ Last(p) \in Clients
        /\ \A p \in relay.claims :
             p # <<>> /\ p \in replica[Last(p)].claims /\ Last(p) \in Clients
    BY OfClient, OfRelay, LastIsAClient DEF IInv, Origins
  <2>2. /\ \A e \in Clients : \A v \in replica[e].writes : v[1] \in Clients
        /\ \A v \in relay.writes \cup fast : v[1] \in Clients
    BY OfClient, OfRelay, OfWrite, <1>4 DEF IInv
  <2>3. \A v \in relay.writes \cup fast' : v \in replica'[v[1]].writes
    <3>1. w \in replica'[w[1]].writes
      BY <1>2, <1>5
    <3>2. \A v \in relay.writes \cup fast : v \in replica[v[1]].writes
      BY DEF IInv, Origins
    <3>3. \A v \in relay.writes \cup fast : v \in replica'[v[1]].writes
      BY <3>2, <2>2, <1>9
    <3> QED BY <3>1, <3>3, <1>3
  <2>4. ASSUME NEW e \in Clients, NEW v \in replica'[e].writes
        PROVE v \in replica'[v[1]].writes /\ (v \in relay.writes \/ e = v[1])
    <3>1. CASE v \in replica[e].writes
      <4>1. v \in replica[v[1]].writes /\ (v \in relay.writes \/ e = v[1])
        BY <3>1 DEF IInv, Origins
      <4> QED BY <4>1, <3>1, <2>2, <1>9
    <3>2. CASE v \notin replica[e].writes
      <4>1. e = c /\ v = w
        BY <3>2, <1>2, <1>9
      <4> QED BY <4>1, <1>2, <1>5
    <3> QED BY <3>1, <3>2
  <2>5. /\ \A e \in Clients : \A p \in replica'[e].claims :
             p # <<>> /\ p \in replica'[Last(p)].claims
        /\ \A p \in relay.claims : p # <<>> /\ p \in replica'[Last(p)].claims
    BY <2>1, <1>9
  <2> QED BY <2>3, <2>4, <2>5, <1>1 DEF Origins
<1>11. Winners'
  BY <1>1, <1>9 DEF IInv, Winners
<1>12. Stages'
  <2> SUFFICES ASSUME NEW d \in Clients PROVE Stage(d)'
    BY DEF Stages
  <2>1. Stage(d)
    BY DEF IInv, Stages
  <2>2. CASE d # c
    BY <2>1, <2>2, <1>1, <1>2 DEF Stage
  <2>3. CASE d = c
    <3>1. attempt'[c] = Idle /\ Idle.pc = "idle"
      BY <1>2, IdleIs
    <3>2. \A v \in replica'[c].writes : v[1] = c => v[2] <= tries[c]
      <4>1. \A v \in replica[c].writes : v[1] = c => v[2] <= tries[c]
        BY <2>1, <2>3 DEF Stage
      <4> QED BY <4>1, <1>2, <1>5, <1>6
    <3> QED BY <3>1, <3>2, <2>3, <1>1 DEF Stage
  <2> QED BY <2>2, <2>3
<1>13. \A a \in Clients : Own(a)' = Own(a)
  BY <1>9 DEF Own
<1>14. ClaimKnown'
  <2> SUFFICES ASSUME NEW a \in alive, NEW d \in alive
               PROVE /\ attempt'[a].pc \in {"flushing", "settling"} =>
                          Reached(a, d)' \/ OnItsWay(a, d)' \/ InBuffer(a)'
                     /\ attempt'[a].pc = "reading" => Reached(a, d)'
    BY <1>1 DEF ClaimKnown
  <2>1. CASE a # c
    <3>1. attempt'[a] = attempt[a] /\ Own(a)' = Own(a)
          /\ replica'[d].claims = replica[d].claims
      BY <2>1, <1>2, <1>4, <1>9, <1>13
    <3>2. /\ InBuffer(a)' = InBuffer(a)
          /\ Reached(a, d)' = Reached(a, d) /\ OnItsWay(a, d)' = OnItsWay(a, d)
      BY <3>1, <1>1 DEF InBuffer, Reached, OnItsWay
    <3> QED BY <3>1, <3>2 DEF IInv, ClaimKnown
  <2>2. CASE a = c
    BY <2>2, <1>2, IdleIs
  <2> QED BY <2>1, <2>2
<1>15. \A d \in Clients : Beaten(d)' = Beaten(d)
  BY <1>9, <1>13 DEF Beaten
<1>16. \A v \in fast' : Live(v)' = Live(v)
  BY <1>1 DEF Live
<1>17. ASSUME NEW v \in fast, NEW d \in alive, Live(v)
       PROVE \/ v \in replica'[d].writes \/ attempt'[d].pc = "copying" \/ Beaten(d)'
             \/ attempt'[d].pc # "reading" /\ InTime(v, d)'
  <2>1. CASE d # c
    <3>1. attempt'[d] = attempt[d] /\ InTime(v, d)' = InTime(v, d)
      BY <2>1, <1>1, <1>2, <1>4 DEF InTime
    <3> QED BY <3>1, <1>4, <1>9, <1>15, <1>17 DEF IInv, WriteKnown
  <2>2. CASE d = c
    <3>1. attempt'[d].pc = "idle" /\ attempt'[d].since = 0 /\ attempt'[d].waited = 0
      BY <2>2, <1>2, IdleIs
    <3>2. behindFor[d] \in Nat /\ unsentFor[v[1]] \in Nat
      <4>1. v[1] \in Clients
        BY <1>4, OfWrite
      <4> QED BY <4>1, <1>4, OfClient DEF IInv
    <3>3. InTime(v, d)'
      BY <3>1, <3>2, <1>1, Bounds DEF InTime
    <3> QED BY <3>1, <3>3
  <2> QED BY <2>1, <2>2
<1>18. ASSUME isFast, NEW d \in alive
       PROVE \/ w \in replica'[d].writes \/ attempt'[d].pc = "copying" \/ Beaten(d)'
             \/ attempt'[d].pc # "reading" /\ InTime(w, d)'
  <2>1. CASE d = c
    BY <2>1, <1>2
  <2>2. CASE d # c
    <3>1. Reached(c, d)
      <4>1. MayWrite(c)
        BY <1>18
      <4>2. attempt[c].pc = "reading" \/ Settles(c)
        BY <4>1 DEF MayWrite
      <4> QED BY <4>2, HasReached DEF IInv, ClaimKnown
    <3>2. CASE Reached(d, c)
      <4>1. Beaten(d)
        BY <2>2, <3>1, <3>2, <1>4, <1>18, LosesTo DEF IInv, MayWrite
      <4> QED BY <4>1, <1>4, <1>15
    <3>3. CASE ~Reached(d, c)
      <4>1. attempt'[d] = attempt[d] /\ d \in Clients
        BY <2>2, <1>2, <1>4
      <4>2. attempt[d].pc # "reading" /\ attempt[d].pc \in Pcs
        BY <3>3, <4>1, OfClient DEF IInv, ClaimKnown
      <4>3. /\ attempt[d].since \in Nat /\ attempt[d].waited \in Nat
            /\ unsentFor[c] \in Nat /\ unsentFor[d] \in Nat /\ unsentFor[d] <= MaxFlush
            /\ behindFor[c] \in Nat /\ behindFor[c] <= MaxDelay
        BY <4>1, <1>4, OfClient DEF IInv
      <4>4. CASE attempt[d].pc = "copying"
        BY <4>1, <4>4
      <4>5. CASE attempt[d].pc # "copying"
        <5>1. attempt[d].waited <= MaxFlush + MaxDelay /\ attempt[d].since <= MaxDelay
          <6>1. CASE attempt[d].pc = "idle"
            <7>1. attempt[d] = Idle
              BY <6>1, <4>1 DEF IInv, Stages, Stage
            <7> QED BY <7>1, IdleIs, Bounds
          <6>2. CASE attempt[d].pc \in {"flushing", "settling"} /\ OnItsWay(d, c)
            BY <6>2, <4>3, Bounds DEF OnItsWay
          <6>3. CASE InBuffer(d)
            <7>1. attempt[d].since = 0 /\ attempt[d].waited <= unsentFor[d]
              BY <6>3, <4>1 DEF InBuffer, IInv, Stages, Stage
            <7> QED BY <7>1, <4>3, Bounds
          <6>4. attempt[d].pc \in {"flushing", "settling"} => OnItsWay(d, c) \/ InBuffer(d)
            BY <3>3 DEF IInv, ClaimKnown
          <6> QED BY <6>1, <6>2, <6>3, <6>4, <4>2, <4>5 DEF Pcs
        <5>2. InTime(w, d)'
          BY <5>1, <4>1, <4>3, <1>1, <1>5, <1>8, Bounds DEF InTime
        <5> QED BY <5>2, <4>1, <4>2
      <4> QED BY <4>4, <4>5
    <3> QED BY <3>2, <3>3
  <2> QED BY <2>1, <2>2
<1>19. WriteKnown'
  BY <1>1, <1>3, <1>16, <1>17, <1>18 DEF WriteKnown
<1>20. ASSUME isFast, NEW v \in fast, Live(v)
       PROVE kind = "reconcile" /\ v \in saw'[w]
  <2>1. MayWrite(c)
    BY <1>20
  <2>2. ~Beaten(c)
    BY <2>1, <1>4, NotBeaten DEF IInv, MayWrite
  <2>3. attempt[c].pc # "copying"
    BY <2>1 DEF MayWrite, Settles, At
  <2>4. attempt[c].pc = "reading" \/ ~InTime(v, c)
    <3>1. v \in Writes
      BY <1>4
    <3> QED BY <3>1, <2>1, NotInTime DEF IInv, MayWrite
  <2>5. v \in replica[c].writes
    BY <2>2, <2>3, <2>4, <1>20 DEF IInv, WriteKnown
  <2> QED BY <2>1, <2>5, <1>3 DEF MayWrite
<1>21. NoneConcurrent'
  <2> SUFFICES ASSUME NEW v \in fast', NEW x \in fast', Live(v), Live(x), v # x
               PROVE kind = "reconcile" /\ (v \in saw'[x] \/ x \in saw'[v])
    BY <1>1, <1>16 DEF NoneConcurrent
  <2>1. CASE v \in fast /\ x \in fast
    <3>1. saw'[v] = saw[v] /\ saw'[x] = saw[x]
      BY <2>1, <1>3, <1>4, <1>8
    <3> QED BY <3>1, <2>1 DEF IInv, NoneConcurrent
  <2>2. CASE v \notin fast
    <3>1. isFast /\ v = w /\ x \in fast
      BY <2>2, <1>3
    <3> QED BY <3>1, <1>20
  <2>3. CASE x \notin fast
    <3>1. isFast /\ x = w /\ v \in fast
      BY <2>3, <1>3
    <3> QED BY <3>1, <1>20
  <2> QED BY <2>1, <2>2, <2>3
<1>22. AloneWins'
  <2> SUFFICES ASSUME NEW d \in alive, attempt'[d].alone PROVE FALSE
    BY <1>1 DEF AloneWins
  <2>1. d # c
    BY <1>2, IdleIs
  <2>2. attempt[d].alone
    BY <2>1, <1>2, <1>4
  <2>3. alive = {d}
    BY <2>2 DEF IInv, AloneWins
  <2> QED BY <2>1, <2>3
<1> QED BY <1>10, <1>11, <1>12, <1>14, <1>19, <1>21, <1>22 DEF Rest

LEMMA ClaimKeeps ==
  ASSUME IInv, NEW c \in alive, ClaimEffect(c)
  PROVE Rest'
<1>1. /\ kind' = kind /\ alive' = alive /\ relay' = relay
      /\ unsentFor' = unsentFor /\ behindFor' = behindFor /\ saw' = saw /\ fast' = fast
  BY DEF ClaimEffect
<1>2. /\ \A d \in Clients : d # c =>
           replica'[d] = replica[d] /\ attempt'[d] = attempt[d] /\ tries'[d] = tries[d]
      /\ tries'[c] = tries[c] + 1
      /\ attempt'[c].pc = "flushing" /\ attempt'[c].since = 0 /\ attempt'[c].waited = 0
      /\ attempt'[c].alone = Alone(c)
      /\ attempt[c].pc = "idle"
      /\ replica'[c].writes = replica[c].writes
  BY DEF ClaimEffect, OthersKept
<1>3. c \in Clients /\ alive \subseteq Clients /\ fast \subseteq Writes
  BY DEF IInv, TypeOK
<1>4. replica[c].claims \in SUBSET Seq(Clients) /\ HasWinner(replica[c].claims)
  BY <1>3, OfClient DEF IInv, Winners
<1>5. PICK p : p = Append(Entry(replica[c].claims), c)
  OBVIOUS
<1>6. /\ p # <<>> /\ Last(p) = c
      /\ HasWinner(replica[c].claims \cup {p}) /\ Entry(replica[c].claims \cup {p}) = p
  BY <1>3, <1>4, <1>5, ClaimWins
<1>7. \/ ~SetsClaim(c) /\ replica'[c].claims = replica[c].claims
      \/ replica'[c].claims = replica[c].claims \cup {p}
  BY <1>5 DEF ClaimEffect
<1>8. \A d \in Clients : /\ replica'[d].writes = replica[d].writes
                         /\ replica[d].claims \subseteq replica'[d].claims
                         /\ d # c => replica'[d].claims = replica[d].claims
  BY <1>2, <1>7
<1>9. tries[c] \in Nat
  BY <1>3, OfClient DEF IInv
<1>10. Origins'
  <2>1. /\ \A e \in Clients : \A q \in replica[e].claims :
             q # <<>> /\ q \in replica[Last(q)].claims /\ Last(q) \in Clients
        /\ \A q \in relay.claims :
             q # <<>> /\ q \in replica[Last(q)].claims /\ Last(q) \in Clients
    BY OfClient, OfRelay, LastIsAClient DEF IInv, Origins
  <2>2. ASSUME NEW e \in Clients, NEW q \in replica'[e].claims
        PROVE q # <<>> /\ q \in replica'[Last(q)].claims
    <3>1. CASE q \in replica[e].claims
      BY <3>1, <2>1, <1>8
    <3>2. CASE q \notin replica[e].claims
      <4>1. e = c /\ q = p /\ p \in replica'[c].claims
        BY <3>2, <1>7, <1>8
      <4> QED BY <4>1, <1>6
    <3> QED BY <3>1, <3>2
  <2>3. \A q \in relay.claims : q # <<>> /\ q \in replica'[Last(q)].claims
    BY <2>1, <1>8
  <2>4. /\ \A e \in Clients : \A v \in replica'[e].writes :
             v \in replica'[v[1]].writes /\ (v \in relay.writes \/ e = v[1])
        /\ \A v \in relay.writes \cup fast : v \in replica'[v[1]].writes
    <3>1. /\ \A e \in Clients : \A v \in replica[e].writes : v[1] \in Clients
          /\ \A v \in relay.writes \cup fast : v[1] \in Clients
      BY OfClient, OfRelay, OfWrite, <1>3 DEF IInv
    <3> QED BY <3>1, <1>8 DEF IInv, Origins
  <2> QED BY <2>2, <2>3, <2>4, <1>1 DEF Origins
<1>11. Winners'
  <2>1. HasWinner(replica'[c].claims)
    BY <1>4, <1>6, <1>7
  <2>2. \A d \in Clients : HasWinner(replica'[d].claims)
    BY <2>1, <1>8 DEF IInv, Winners
  <2> QED BY <2>2, <1>1 DEF IInv, Winners
<1>12. Stages'
  <2> SUFFICES ASSUME NEW d \in Clients PROVE Stage(d)'
    BY DEF Stages
  <2>1. Stage(d)
    BY DEF IInv, Stages
  <2>2. CASE d # c
    BY <2>1, <2>2, <1>1, <1>2 DEF Stage
  <2>3. CASE d = c
    <3>1. \A v \in replica[c].writes : v[1] = c => v[2] \in Nat /\ v[2] <= tries[c]
      <4>1. \A v \in replica[c].writes : v[2] \in Nat
        <5>1. replica[c].writes \in SUBSET Writes
          BY <1>3, OfClient DEF IInv
        <5>2. \A v \in Writes : v[2] \in 1..MaxTries
          BY OfWrite
        <5>3. 1..MaxTries \subseteq Nat
          BY Bounds
        <5> QED BY <5>1, <5>2, <5>3
      <4> QED BY <4>1, <2>1, <2>3 DEF Stage
    <3>2. \A v \in replica'[c].writes : v[1] = c => v[2] <= tries'[c] /\ v[2] < tries'[c]
      BY <3>1, <1>2, <1>9
    <3>3. tries'[c] > 0
      BY <1>2, <1>9
    <3> QED BY <3>2, <3>3, <2>3, <1>1, <1>2 DEF Stage
  <2> QED BY <2>2, <2>3
<1>13. ClaimKnown'
  <2> SUFFICES ASSUME NEW a \in alive, NEW d \in alive
               PROVE /\ attempt'[a].pc \in {"flushing", "settling"} =>
                          Reached(a, d)' \/ OnItsWay(a, d)' \/ InBuffer(a)'
                     /\ attempt'[a].pc = "reading" => Reached(a, d)'
    BY <1>1 DEF ClaimKnown
  <2>1. CASE a # c
    <3>1. attempt'[a] = attempt[a] /\ Own(a)' = Own(a)
          /\ replica[d].claims \subseteq replica'[d].claims
      BY <2>1, <1>2, <1>3, <1>8 DEF Own
    <3>2. /\ InBuffer(a)' = InBuffer(a)
          /\ Reached(a, d) => Reached(a, d)'
          /\ OnItsWay(a, d)' = OnItsWay(a, d)
      BY <3>1, <1>1 DEF InBuffer, Reached, OnItsWay
    <3> QED BY <3>1, <3>2 DEF IInv, ClaimKnown
  <2>2. CASE a = c
    <3>1. unsentFor[c] \in Nat /\ behindFor[d] \in Nat
      BY <1>3, OfClient DEF IInv
    <3>2. CASE Own(c)' \subseteq relay.claims
      <4>1. OnItsWay(c, d)'
        BY <3>1, <3>2, <1>1, <1>2, Bounds DEF OnItsWay
      <4> QED BY <4>1, <2>2, <1>2
    <3>3. CASE ~(Own(c)' \subseteq relay.claims)
      <4>1. InBuffer(c)'
        BY <3>1, <3>3, <1>1, <1>2 DEF InBuffer
      <4> QED BY <4>1, <2>2, <1>2
    <3> QED BY <3>2, <3>3
  <2> QED BY <2>1, <2>2
<1>14. WriteKnown'
  <2> SUFFICES ASSUME NEW v \in fast, Live(v), NEW d \in alive
               PROVE \/ v \in replica'[d].writes
                     \/ attempt'[d].pc = "copying"
                     \/ Beaten(d)'
                     \/ attempt'[d].pc # "reading" /\ InTime(v, d)'
    BY <1>1 DEF WriteKnown, Live
  <2>1. CASE d # c
    <3>1. /\ Beaten(d)' = Beaten(d) /\ InTime(v, d)' = InTime(v, d)
          /\ attempt'[d] = attempt[d] /\ replica'[d].writes = replica[d].writes
      BY <2>1, <1>1, <1>2, <1>3 DEF Beaten, Own, InTime
    <3> QED BY <3>1 DEF IInv, WriteKnown
  <2>2. CASE d = c
    <3>1. behindFor[d] \in Nat /\ unsentFor[v[1]] \in Nat
      <4>1. v[1] \in Clients
        BY <1>3, OfWrite
      <4> QED BY <4>1, <1>3, OfClient DEF IInv
    <3>2. InTime(v, d)'
      BY <2>2, <3>1, <1>1, <1>2, Bounds DEF InTime
    <3> QED BY <3>2, <2>2, <1>2
  <2> QED BY <2>1, <2>2
<1>15. NoneConcurrent'
  BY <1>1 DEF IInv, NoneConcurrent, Live
<1>16. AloneWins'
  <2> SUFFICES ASSUME NEW d \in alive, attempt'[d].alone
               PROVE /\ alive = {d}
                     /\ relay.claims \subseteq replica'[d].claims
                     /\ relay.writes \subseteq replica'[d].writes
                     /\ kind = "init" => Mine(d)'
    BY <1>1 DEF AloneWins
  <2>1. CASE d # c
    <3>1. attempt[d].alone
      BY <2>1, <1>2, <1>3
    <3>2. alive = {d}
      BY <3>1 DEF IInv, AloneWins
    <3> QED BY <2>1, <3>2
  <2>2. CASE d = c
    <3>1. alive = {c} /\ aware[c] = {c} /\ ~Behind(c)
      BY <2>2, <1>2 DEF Alone
    <3>2. relay.claims \subseteq replica[c].claims /\ relay.writes \subseteq replica[c].writes
      BY <3>1, <1>3, BehindIs DEF IInv
    <3>3. ASSUME kind = "init" PROVE Mine(c)'
      <4>1. CASE replica'[c].claims = replica[c].claims \cup {p}
        BY <4>1, <1>6 DEF Mine, Unclaimed, Claimant
      <4>2. CASE ~SetsClaim(c) /\ replica'[c].claims = replica[c].claims
        <5>1. ~Unclaimed(c) /\ Claimant(c) = c
          BY <4>2, <3>1 DEF SetsClaim, Stale
        <5> QED BY <5>1, <4>2 DEF Mine, Unclaimed, Claimant
      <4> QED BY <4>1, <4>2, <1>7
    <3> QED BY <2>2, <3>1, <3>2, <3>3, <1>3, <1>8
  <2> QED BY <2>1, <2>2
<1> QED BY <1>10, <1>11, <1>12, <1>13, <1>14, <1>15, <1>16 DEF Rest

LEMMA PushKeeps ==
  ASSUME IInv, NEW c \in alive, PushEffect(c)
  PROVE Rest'
<1>1. /\ kind' = kind /\ alive' = alive /\ replica' = replica /\ behindFor' = behindFor
      /\ attempt' = attempt /\ tries' = tries /\ saw' = saw /\ fast' = fast
  BY DEF PushEffect
<1>2. /\ relay'.claims = relay.claims \cup replica[c].claims
      /\ relay'.writes = relay.writes \cup replica[c].writes
      /\ \A d \in Clients : d # c => unsentFor'[d] = unsentFor[d]
  BY DEF PushEffect
<1>3. c \in Clients /\ alive \subseteq Clients /\ fast \subseteq Writes
  BY DEF IInv, TypeOK
<1>4. Origins'
  BY <1>1, <1>2, <1>3 DEF IInv, Origins
<1>5. Winners'
  <2>1. HasWinner(relay.claims \cup replica[c].claims)
    BY <1>3, OfClient, OfRelay, MergedWinner DEF IInv, Winners
  <2> QED BY <2>1, <1>1, <1>2 DEF IInv, Winners
<1>6. Stages'
  BY <1>1 DEF IInv, Stages, Stage
<1>7. ClaimKnown'
  <2> SUFFICES ASSUME NEW a \in alive, NEW d \in alive
               PROVE /\ attempt[a].pc \in {"flushing", "settling"} =>
                          Reached(a, d)' \/ OnItsWay(a, d)' \/ InBuffer(a)'
                     /\ attempt[a].pc = "reading" => Reached(a, d)'
    BY <1>1 DEF ClaimKnown
  <2>1. Reached(a, d)' = Reached(a, d) /\ Own(a)' = Own(a)
    BY <1>1 DEF Reached, Own
  <2>2. OnItsWay(a, d) => OnItsWay(a, d)'
    BY <2>1, <1>1, <1>2 DEF OnItsWay
  <2>3. ASSUME InBuffer(a) PROVE OnItsWay(a, d)' \/ InBuffer(a)'
    <3>1. attempt[a].pc = "flushing" /\ attempt[a].waited <= unsentFor[a]
          /\ attempt[a].since = 0
      BY <2>3, <1>3 DEF InBuffer, IInv, Stages, Stage
    <3>2. /\ attempt[a].waited \in Nat /\ behindFor[d] \in Nat
          /\ unsentFor[a] \in Nat /\ unsentFor[a] <= MaxFlush
      BY <1>3, OfClient DEF IInv
    <3>3. CASE Own(a) \subseteq relay'.claims
      <4>1. OnItsWay(a, d)'
        BY <2>1, <3>1, <3>2, <3>3, <1>1, Bounds DEF OnItsWay
      <4> QED BY <4>1
    <3>4. CASE ~(Own(a) \subseteq relay'.claims)
      <4>1. a # c
        BY <3>4, <1>2 DEF Own
      <4>2. InBuffer(a)'
        BY <2>1, <3>1, <3>4, <4>1, <1>1, <1>2, <1>3 DEF InBuffer
      <4> QED BY <4>2
    <3> QED BY <3>3, <3>4
  <2> QED BY <2>1, <2>2, <2>3 DEF IInv, ClaimKnown
<1>8. \A v \in fast : Live(v)' => Live(v)
  BY <1>1, <1>2, <1>3 DEF Live, IInv, Origins
<1>9. WriteKnown'
  <2> SUFFICES ASSUME NEW v \in fast, Live(v), NEW d \in alive
               PROVE \/ v \in replica[d].writes
                     \/ attempt[d].pc = "copying"
                     \/ Beaten(d)'
                     \/ attempt[d].pc # "reading" /\ InTime(v, d)'
    BY <1>1, <1>8 DEF WriteKnown
  <2>1. Beaten(d)' = Beaten(d)
    BY <1>1 DEF Beaten, Own
  <2>2. ASSUME InTime(v, d) PROVE InTime(v, d)'
    <3>1. v[1] \in Clients
      BY <1>3, OfWrite
    <3>2. /\ unsentFor[v[1]] \in Nat /\ unsentFor[v[1]] <= MaxFlush /\ behindFor[d] \in Nat
          /\ attempt[d].since \in Nat /\ attempt[d].waited \in Nat
      BY <3>1, <1>3, OfClient DEF IInv
    <3>3. CASE v \in relay.writes
      BY <2>2, <3>3, <1>1, <1>2 DEF InTime
    <3>4. CASE v \notin relay.writes /\ v \in relay'.writes
      BY <2>2, <3>2, <3>4, <1>1, Bounds DEF InTime
    <3>5. CASE v \notin relay'.writes
      <4>1. v[1] # c
        BY <3>5, <1>2 DEF IInv, Origins
      <4>2. unsentFor'[v[1]] = unsentFor[v[1]]
        BY <4>1, <3>1, <1>2
      <4> QED BY <2>2, <4>2, <3>5, <1>1, <1>2 DEF InTime
    <3> QED BY <3>3, <3>4, <3>5
  <2> QED BY <2>1, <2>2 DEF IInv, WriteKnown
<1>10. NoneConcurrent'
  BY <1>1, <1>8 DEF IInv, NoneConcurrent
<1>11. AloneWins'
  <2> SUFFICES ASSUME NEW d \in alive, attempt[d].alone
               PROVE /\ alive = {d}
                     /\ relay'.claims \subseteq replica[d].claims
                     /\ relay'.writes \subseteq replica[d].writes
                     /\ kind = "init" => Mine(d)
    BY <1>1 DEF AloneWins, Mine, Unclaimed, Claimant
  <2>1. /\ alive = {d}
        /\ relay.claims \subseteq replica[d].claims
        /\ relay.writes \subseteq replica[d].writes
        /\ kind = "init" => Mine(d)
    BY DEF IInv, AloneWins
  <2>2. d = c
    BY <2>1
  <2> QED BY <2>1, <2>2, <1>2
<1> QED BY <1>4, <1>5, <1>6, <1>7, <1>9, <1>10, <1>11 DEF Rest

LEMMA ReceiveKeeps ==
  ASSUME IInv, NEW c \in alive, ReceiveEffect(c)
  PROVE Rest'
<1>1. /\ kind' = kind /\ alive' = alive /\ relay' = relay
      /\ unsentFor' = unsentFor /\ tries' = tries /\ saw' = saw /\ fast' = fast
  BY DEF ReceiveEffect
<1>2. /\ \A d \in Clients : d # c => /\ replica'[d] = replica[d] /\ attempt'[d] = attempt[d]
                                     /\ behindFor'[d] = behindFor[d]
      /\ replica'[c].claims = replica[c].claims \cup relay.claims
      /\ replica'[c].writes = replica[c].writes \cup relay.writes
      /\ \/ attempt'[c] = attempt[c]
         \/ /\ attempt[c].pc = "settling" /\ attempt'[c].pc = "settling"
            /\ attempt'[c].since = 0 /\ attempt'[c].waited = attempt[c].waited
            /\ attempt'[c].alone = attempt[c].alone
  BY DEF ReceiveEffect
<1>3. c \in Clients /\ alive \subseteq Clients /\ fast \subseteq Writes
  BY DEF IInv, TypeOK
<1>4. \A d \in Clients : /\ replica[d].claims \subseteq replica'[d].claims
                         /\ replica[d].writes \subseteq replica'[d].writes
  BY <1>2
<1>5. /\ \A e \in Clients : \A p \in replica[e].claims : Last(p) \in Clients
      /\ \A p \in relay.claims : Last(p) \in Clients
  BY OfClient, OfRelay, LastIsAClient DEF IInv, Origins
<1>6. /\ \A e \in Clients : \A v \in replica[e].writes : v[1] \in Clients
      /\ \A v \in relay.writes \cup fast : v[1] \in Clients
  BY OfClient, OfRelay, OfWrite, <1>3 DEF IInv
<1>7. Origins'
  <2>1. ASSUME NEW e \in Clients, NEW p \in replica'[e].claims
        PROVE p # <<>> /\ p \in replica'[Last(p)].claims
    <3>1. p \in replica[e].claims \/ p \in relay.claims
      BY <1>2
    <3>2. p # <<>> /\ p \in replica[Last(p)].claims /\ Last(p) \in Clients
      BY <3>1, <1>5 DEF IInv, Origins
    <3> QED BY <3>2, <1>4
  <2>2. \A p \in relay.claims : p # <<>> /\ p \in replica'[Last(p)].claims
    BY <1>4, <1>5 DEF IInv, Origins
  <2>3. ASSUME NEW e \in Clients, NEW v \in replica'[e].writes
        PROVE v \in replica'[v[1]].writes /\ (v \in relay.writes \/ e = v[1])
    <3>1. v \in replica[e].writes \/ v \in relay.writes
      BY <1>2
    <3>2. /\ v \in replica[v[1]].writes /\ v[1] \in Clients
          /\ v \in relay.writes \/ e = v[1]
      BY <3>1, <1>6 DEF IInv, Origins
    <3> QED BY <3>2, <1>4
  <2>4. \A v \in relay.writes \cup fast : v \in replica'[v[1]].writes
    BY <1>4, <1>6 DEF IInv, Origins
  <2> QED BY <2>1, <2>2, <2>3, <2>4, <1>1 DEF Origins
<1>8. Winners'
  <2>1. HasWinner(replica[c].claims \cup relay.claims)
    BY <1>3, OfClient, OfRelay, MergedWinner DEF IInv, Winners
  <2>2. \A d \in Clients : HasWinner(replica'[d].claims)
    <3> TAKE d \in Clients
    <3>1. CASE d = c
      BY <3>1, <2>1, <1>2
    <3>2. CASE d # c
      BY <3>2, <1>2 DEF IInv, Winners
    <3> QED BY <3>1, <3>2
  <2> QED BY <2>2, <1>1 DEF IInv, Winners
<1>9. \A d \in Clients : Own(d)' = Own(d)
  <2> SUFFICES ASSUME NEW d \in Clients PROVE Own(d)' = Own(d)
    OBVIOUS
  <2>1. CASE d # c
    BY <2>1, <1>2 DEF Own
  <2>2. CASE d = c
    <3>1. \A p \in relay.claims : Last(p) = c => p \in replica[c].claims
      BY DEF IInv, Origins
    <3> QED BY <3>1, <2>2, <1>2 DEF Own
  <2> QED BY <2>1, <2>2
<1>10. \A d \in Clients : /\ attempt'[d].pc = attempt[d].pc
                          /\ attempt'[d].waited = attempt[d].waited
                          /\ attempt'[d].alone = attempt[d].alone
                          /\ attempt'[d].since = attempt[d].since \/ attempt'[d].since = 0
                          /\ attempt[d].pc # "settling" => attempt'[d] = attempt[d]
  BY <1>2
<1>11. Stages'
  <2> SUFFICES ASSUME NEW d \in Clients PROVE Stage(d)'
    BY DEF Stages
  <2>1. Stage(d)
    BY DEF IInv, Stages
  <2>2. attempt'[d].pc = "idle" \/ d \notin alive => attempt'[d] = Idle
    <3>1. attempt[d].pc = "idle" \/ d \notin alive => attempt[d] = Idle
      BY <2>1 DEF Stage
    <3>2. Idle.pc # "settling"
      BY IdleIs
    <3> QED BY <3>1, <3>2, <1>10
  <2>3. attempt'[d].pc = "flushing" => attempt'[d].since = 0
    BY <2>1, <1>10 DEF Stage
  <2>4. \A v \in replica'[d].writes :
          v[1] = d => v[2] <= tries[d] /\ (attempt[d].pc # "idle" => v[2] < tries[d])
    <3>1. \A v \in relay.writes : v[1] = d => v \in replica[d].writes
      BY DEF IInv, Origins
    <3>2. \A v \in replica'[d].writes : v[1] = d => v \in replica[d].writes
      BY <3>1, <1>2
    <3> QED BY <3>2, <2>1 DEF Stage
  <2> QED BY <2>1, <2>2, <2>3, <2>4, <1>1, <1>10 DEF Stage
<1>12. ClaimKnown'
  <2> SUFFICES ASSUME NEW a \in alive, NEW d \in alive
               PROVE /\ attempt[a].pc \in {"flushing", "settling"} =>
                          Reached(a, d)' \/ OnItsWay(a, d)' \/ InBuffer(a)'
                     /\ attempt[a].pc = "reading" => Reached(a, d)'
    BY <1>1, <1>3, <1>10 DEF ClaimKnown
  <2>1. Reached(a, d) => Reached(a, d)'
    BY <1>3, <1>4, <1>9 DEF Reached
  <2>2. InBuffer(a) => InBuffer(a)'
    BY <1>1, <1>3, <1>9, <1>10 DEF InBuffer
  <2>3. ASSUME OnItsWay(a, d) PROVE Reached(a, d)' \/ OnItsWay(a, d)'
    <3>1. CASE d = c
      <4>1. Reached(a, d)'
        BY <3>1, <2>3, <1>2, <1>3, <1>9 DEF OnItsWay, Reached
      <4> QED BY <4>1
    <3>2. CASE d # c
      <4>1. behindFor'[d] = behindFor[d] /\ behindFor[d] \in Nat
        BY <3>2, <1>2, <1>3, OfClient DEF IInv
      <4>2. OnItsWay(a, d)'
        BY <4>1, <2>3, <1>1, <1>3, <1>9, <1>10 DEF OnItsWay
      <4> QED BY <4>2
    <3> QED BY <3>1, <3>2
  <2> QED BY <2>1, <2>2, <2>3 DEF IInv, ClaimKnown
<1>13. WriteKnown'
  <2> SUFFICES ASSUME NEW v \in fast, Live(v), NEW d \in alive
               PROVE \/ v \in replica'[d].writes
                     \/ attempt[d].pc = "copying"
                     \/ Beaten(d)'
                     \/ attempt[d].pc # "reading" /\ InTime(v, d)'
    BY <1>1, <1>3, <1>10 DEF WriteKnown, Live
  <2>1. Beaten(d) => Beaten(d)'
    BY <1>3, <1>4, <1>9 DEF Beaten
  <2>2. ASSUME InTime(v, d) PROVE v \in replica'[d].writes \/ InTime(v, d)'
    <3>1. /\ unsentFor[v[1]] \in Nat /\ behindFor[d] \in Nat
          /\ attempt'[d].since = attempt[d].since \/ attempt'[d].since = 0
          /\ attempt'[d].waited = attempt[d].waited
      BY <1>3, <1>6, <1>10, OfClient DEF IInv
    <3>2. CASE v \notin relay.writes
      BY <2>2, <3>1, <3>2, <1>1, Bounds DEF InTime
    <3>3. CASE v \in relay.writes /\ d = c
      BY <3>3, <1>2
    <3>4. CASE v \in relay.writes /\ d # c
      <4>1. behindFor'[d] = behindFor[d]
        BY <3>4, <1>2, <1>3
      <4> QED BY <2>2, <3>1, <3>4, <4>1, <1>1, Bounds DEF InTime
    <3> QED BY <3>2, <3>3, <3>4
  <2>3. replica[d].writes \subseteq replica'[d].writes
    BY <1>3, <1>4
  <2> QED BY <2>1, <2>2, <2>3 DEF IInv, WriteKnown
<1>14. NoneConcurrent'
  BY <1>1 DEF IInv, NoneConcurrent, Live
<1>15. AloneWins'
  <2> SUFFICES ASSUME NEW d \in alive, attempt'[d].alone PROVE FALSE
    BY <1>1 DEF AloneWins
  <2>1. attempt[d].alone
    BY <1>3, <1>10
  <2>2. alive = {d} /\ relay.claims \subseteq replica[d].claims
        /\ relay.writes \subseteq replica[d].writes
    BY <2>1 DEF IInv, AloneWins
  <2>3. ~Behind(c)
    BY <2>2, <1>3, BehindIs DEF IInv
  <2> QED BY <2>3 DEF ReceiveEffect
<1> QED BY <1>7, <1>8, <1>11, <1>12, <1>13, <1>14, <1>15 DEF Rest

LEMMA DieKeeps ==
  ASSUME IInv, NEW c \in alive, DieEffect(c)
  PROVE Rest'
<1>1. /\ kind' = kind /\ replica' = replica /\ relay' = relay
      /\ unsentFor' = unsentFor /\ behindFor' = behindFor
      /\ tries' = tries /\ saw' = saw /\ fast' = fast /\ alive' = alive \ {c}
  BY DEF DieEffect
<1>2. /\ \A d \in Clients : d # c => attempt'[d] = attempt[d]
      /\ attempt'[c] = Idle
  BY DEF DieEffect
<1>3. c \in Clients /\ alive \subseteq Clients
  BY DEF IInv, TypeOK
<1>4. Origins' /\ Winners'
  BY <1>1 DEF IInv, Origins, Winners
<1>5. Stages'
  <2> SUFFICES ASSUME NEW d \in Clients PROVE Stage(d)'
    BY DEF Stages
  <2>1. Stage(d)
    BY DEF IInv, Stages
  <2>2. CASE d # c
    BY <2>1, <2>2, <1>1, <1>2 DEF Stage
  <2>3. CASE d = c
    BY <2>1, <2>3, <1>1, <1>2, IdleIs DEF Stage
  <2> QED BY <2>2, <2>3
<1>6. ClaimKnown'
  <2> SUFFICES ASSUME NEW a \in alive', NEW d \in alive'
               PROVE /\ attempt'[a].pc \in {"flushing", "settling"} =>
                          Reached(a, d)' \/ OnItsWay(a, d)' \/ InBuffer(a)'
                     /\ attempt'[a].pc = "reading" => Reached(a, d)'
    BY DEF ClaimKnown
  <2>1. a \in alive /\ d \in alive /\ attempt'[a] = attempt[a]
    BY <1>1, <1>2, <1>3
  <2>2. InBuffer(a)' = InBuffer(a)
        /\ Reached(a, d)' = Reached(a, d) /\ OnItsWay(a, d)' = OnItsWay(a, d)
    BY <2>1, <1>1 DEF InBuffer, Own, Reached, OnItsWay
  <2> QED BY <2>1, <2>2 DEF IInv, ClaimKnown
<1>7. \A v \in fast : Live(v)' => Live(v)
  BY <1>1 DEF Live
<1>8. WriteKnown'
  <2> SUFFICES ASSUME NEW v \in fast, Live(v), NEW d \in alive'
               PROVE \/ v \in replica[d].writes
                     \/ attempt'[d].pc = "copying"
                     \/ Beaten(d)'
                     \/ attempt'[d].pc # "reading" /\ InTime(v, d)'
    BY <1>1, <1>7 DEF WriteKnown
  <2>1. d \in alive /\ attempt'[d] = attempt[d]
    BY <1>1, <1>2, <1>3
  <2>2. Beaten(d)' = Beaten(d) /\ InTime(v, d)' = InTime(v, d)
    BY <2>1, <1>1 DEF Beaten, Own, InTime
  <2> QED BY <2>1, <2>2 DEF IInv, WriteKnown
<1>9. NoneConcurrent'
  BY <1>1, <1>7 DEF IInv, NoneConcurrent
<1>10. AloneWins'
  <2> SUFFICES ASSUME NEW d \in alive', attempt'[d].alone PROVE FALSE
    BY DEF AloneWins
  <2>1. d \in alive /\ d # c /\ attempt[d].alone
    BY <1>1, <1>2, <1>3
  <2>2. alive = {d}
    BY <2>1 DEF IInv, AloneWins
  <2> QED BY <2>1, <2>2
<1> QED BY <1>4, <1>5, <1>6, <1>8, <1>9, <1>10 DEF Rest

LEMMA TickKeeps ==
  ASSUME IInv, TypeOK', TickEffect
  PROVE Rest'
<1>1. /\ kind' = kind /\ alive' = alive /\ replica' = replica /\ relay' = relay
      /\ tries' = tries /\ saw' = saw /\ fast' = fast
  BY DEF TickEffect
<1>2. \A c \in Clients :
        /\ attempt'[c].pc = attempt[c].pc /\ attempt'[c].alone = attempt[c].alone
        /\ attempt'[c].since = 0
           \/ (attempt[c].pc = "settling" /\ attempt'[c].since <= attempt[c].since + 1)
        /\ attempt'[c].waited = 0 \/ attempt'[c].waited <= attempt[c].waited + 1
        /\ attempt[c] = Idle => attempt'[c] = Idle
  BY DEF TickEffect
<1>3. \A c \in alive : /\ Unsent(c) => unsentFor'[c] = unsentFor[c] + 1
                       /\ Behind(c) => behindFor'[c] = behindFor[c] + 1
  BY DEF TickEffect
<1>4. alive \subseteq Clients /\ fast \subseteq Writes
  BY DEF IInv, TypeOK
<1>5. \A c \in Clients : /\ unsentFor'[c] \in Nat /\ behindFor'[c] \in Nat
                         /\ attempt'[c].since \in Nat /\ attempt'[c].waited \in Nat
  <2>1. /\ unsentFor' \in [Clients -> 0..MaxFlush] /\ behindFor' \in [Clients -> 0..MaxDelay]
        /\ attempt' \in [Clients -> Attempts]
    BY DEF TypeOK
  <2>2. 0..MaxFlush \subseteq Nat /\ 0..MaxDelay \subseteq Nat
    BY Bounds
  <2> QED BY <2>1, <2>2 DEF Attempts
<1>6. Origins' /\ Winners'
  BY <1>1 DEF IInv, Origins, Winners
<1>7. Stages'
  BY <1>1, <1>2 DEF IInv, Stages, Stage
<1>8. ClaimKnown'
  <2> SUFFICES ASSUME NEW a \in alive, NEW d \in alive
               PROVE /\ attempt[a].pc \in {"flushing", "settling"} =>
                          Reached(a, d)' \/ OnItsWay(a, d)' \/ InBuffer(a)'
                     /\ attempt[a].pc = "reading" => Reached(a, d)'
    BY <1>1, <1>2, <1>4 DEF ClaimKnown
  <2>1. Reached(a, d)' = Reached(a, d) /\ Own(a)' = Own(a)
    BY <1>1 DEF Reached, Own
  <2>2. /\ attempt[a].since \in Nat /\ attempt[a].waited \in Nat
        /\ unsentFor[a] \in Nat /\ behindFor[d] \in Nat
        /\ unsentFor'[a] \in Nat /\ behindFor'[d] \in Nat
        /\ attempt'[a].since \in Nat /\ attempt'[a].waited \in Nat
    BY <1>4, <1>5, OfClient DEF IInv
  <2>3. ASSUME OnItsWay(a, d), ~Reached(a, d) PROVE OnItsWay(a, d)'
    <3>1. Behind(d)
      BY <2>3, <1>4, BehindIs DEF OnItsWay, Reached, IInv
    <3>2. behindFor'[d] = behindFor[d] + 1
      BY <3>1, <1>3
    <3>3. attempt'[a].since <= attempt[a].since + 1
          /\ attempt'[a].waited <= attempt[a].waited + 1
      BY <2>2, <1>2, <1>4
    <3> QED BY <2>1, <2>2, <2>3, <3>2, <3>3, <1>1, Bounds DEF OnItsWay
  <2>4. ASSUME InBuffer(a) PROVE InBuffer(a)'
    <3>1. Unsent(a)
      BY <2>4, <1>4, UnsentIs DEF InBuffer, Own, IInv
    <3>2. unsentFor'[a] = unsentFor[a] + 1
      BY <3>1, <1>3
    <3>3. attempt'[a].waited <= attempt[a].waited + 1
      BY <2>2, <1>2, <1>4
    <3> QED BY <2>1, <2>2, <2>4, <3>2, <3>3, <1>1, <1>2, <1>4 DEF InBuffer
  <2> QED BY <2>1, <2>3, <2>4 DEF IInv, ClaimKnown
<1>9. WriteKnown'
  <2> SUFFICES ASSUME NEW v \in fast, Live(v), NEW d \in alive, v \notin replica[d].writes
               PROVE \/ attempt[d].pc = "copying"
                     \/ Beaten(d)'
                     \/ attempt[d].pc # "reading" /\ InTime(v, d)'
    BY <1>1, <1>2, <1>4 DEF WriteKnown, Live
  <2>1. Beaten(d)' = Beaten(d)
    BY <1>1 DEF Beaten, Own
  <2>2. v[1] \in Clients
    BY <1>4, OfWrite
  <2>3. /\ attempt[d].since \in Nat /\ attempt[d].waited \in Nat
        /\ unsentFor[v[1]] \in Nat /\ behindFor[d] \in Nat
        /\ unsentFor'[v[1]] \in Nat /\ behindFor'[d] \in Nat
        /\ attempt'[d].since \in Nat /\ attempt'[d].waited \in Nat
    BY <2>2, <1>4, <1>5, OfClient DEF IInv
  <2>4. attempt'[d].since <= attempt[d].since + 1
        /\ attempt'[d].waited <= attempt[d].waited + 1
    BY <2>3, <1>2, <1>4
  <2>5. ASSUME InTime(v, d) PROVE InTime(v, d)'
    <3>1. CASE v \in relay.writes
      <4>1. Behind(d)
        BY <3>1, <1>4, BehindIs DEF IInv
      <4>2. behindFor'[d] = behindFor[d] + 1
        BY <4>1, <1>3
      <4> QED BY <2>3, <2>4, <2>5, <3>1, <4>2, <1>1, Bounds DEF InTime
    <3>2. CASE v \notin relay.writes
      <4>1. v[1] \in alive /\ v \in replica[v[1]].writes
        BY <3>2 DEF Live, IInv, Origins
      <4>2. Unsent(v[1])
        BY <3>2, <4>1, <2>2, UnsentIs DEF IInv
      <4>3. unsentFor'[v[1]] = unsentFor[v[1]] + 1
        BY <4>1, <4>2, <1>3
      <4> QED BY <2>3, <2>4, <2>5, <3>2, <4>3, <1>1, Bounds DEF InTime
    <3> QED BY <3>1, <3>2
  <2> QED BY <2>1, <2>5 DEF IInv, WriteKnown
<1>10. NoneConcurrent'
  BY <1>1 DEF IInv, NoneConcurrent, Live
<1>11. AloneWins'
  <2>1. \A d \in alive : attempt'[d].alone = attempt[d].alone
    BY <1>2, <1>4
  <2> QED BY <2>1, <1>1 DEF IInv, AloneWins, Mine, Unclaimed, Claimant
<1> QED BY <1>6, <1>7, <1>8, <1>9, <1>10, <1>11 DEF Rest

-----------------------------------------------------------------------------
(* The invariant holds *)

LEMMA InitHolds == Init => IInv
<1> SUFFICES ASSUME Init PROVE IInv
  OBVIOUS
<1>1. /\ kind \in Kinds /\ alive = Clients
      /\ replica = [c \in Clients |-> Nothing] /\ relay = Nothing
      /\ aware \in {[c \in Clients |-> {c}], [c \in Clients |-> Clients]}
      /\ attempt = [c \in Clients |-> Idle]
      /\ tries = [c \in Clients |-> 0]
      /\ unsentFor = [c \in Clients |-> 0] /\ behindFor = [c \in Clients |-> 0]
      /\ saw = [w \in Writes |-> {}] /\ fast = {}
  BY DEF Init
<1>2. Nothing \in Nets /\ Nothing.claims = {} /\ Nothing.writes = {}
  BY DEF Nothing, Nets
<1>3. kind \in {"init", "reconcile"}
  BY <1>1, Bounds
<1>4. 0 \in 0..MaxTries /\ 0 \in 0..MaxFlush /\ 0 \in 0..MaxDelay
  BY Bounds
<1>5. TypeOK
  <2>1. aware \in [Clients -> SUBSET Clients]
    BY <1>1
  <2> QED BY <1>1, <1>2, <1>3, <1>4, <2>1, IdleIs DEF TypeOK
<1>6. Origins /\ Winners /\ NoneConcurrent /\ WriteKnown
  BY <1>1, <1>2 DEF Origins, Winners, HasWinner, NoneConcurrent, WriteKnown
<1>7. Stages /\ ClaimKnown /\ AloneWins
  BY <1>1, <1>2, IdleIs DEF Stages, Stage, ClaimKnown, AloneWins
<1> QED BY <1>5, <1>6, <1>7 DEF IInv

LEMMA AttemptKeeps ==
  ASSUME IInv, NEW c \in Clients,
         \/ Claim(c) \/ Flushed(c) \/ SettledInit(c) \/ DecideInit(c)
         \/ SettledReconcile(c) \/ SettleTimesOut(c) \/ CopyWritten(c)
  PROVE IInv'
<1>0. TypeOK
  BY DEF IInv
<1> USE <1>0
<1>1. CASE Claim(c)
  <2>1. ClaimEffect(c) /\ TypeOK'
    BY <1>1, ClaimDoes DEF IInv
  <2>2. c \in alive
    BY <2>1 DEF ClaimEffect
  <2> QED BY <2>1, <2>2, ClaimKeeps DEF Rest, IInv
<1>2. ASSUME NEW place \in Pcs, c \in alive, MayMove(c, place), Goes(c, place),
             UNCHANGED <<kind, alive, netVars, aware, tries, historyVars>>
      PROVE IInv'
  <2>1. MoveEffect(c, place) /\ TypeOK'
    BY <1>2, GoesTo
  <2>2. Rest'
    BY <1>2, <2>1, MoveKeeps
  <2> QED BY <2>1, <2>2 DEF Rest, IInv
<1>3. ASSUME c \in alive, Ends(c),
             UNCHANGED <<kind, alive, netVars, aware, tries, historyVars>>
      PROVE IInv'
  <2>1. EndEffect(c) /\ TypeOK'
    BY <1>3, EndsAt
  <2>2. Rest'
    BY <1>3, <2>1, EndKeeps
  <2> QED BY <2>1, <2>2 DEF Rest, IInv
<1>4. ASSUME NEW isFast \in BOOLEAN, c \in alive, attempt[c].pc # "idle",
             isFast => MayWrite(c), Write(c, isFast), Ends(c),
             UNCHANGED <<kind, alive, relay, unsentFor, behindFor, aware, tries>>
      PROVE IInv'
  <2>1. tries[c] > 0
    BY <1>4 DEF IInv, Stages, Stage
  <2>2. WriteEffect(c, isFast) /\ ThisWrite(c) \in Writes /\ TypeOK'
    BY <1>4, <2>1, WritesAt
  <2>3. Rest'
    BY <1>4, <2>2, WriteKeeps
  <2> QED BY <2>2, <2>3 DEF Rest, IInv
<1>5. CASE Flushed(c)
  <2>1. c \in alive /\ attempt[c].pc = "flushing" /\ (~Unsent(c) \/ OutOfTime(c))
    BY <1>5 DEF Flushed, At
  <2>2. ~InBuffer(c)
    <3>1. CASE ~Unsent(c)
      BY <3>1, UnsentIs DEF InBuffer, Own
    <3>2. CASE OutOfTime(c)
      <4>1. attempt[c].waited >= MaxWait /\ attempt[c].waited \in Nat
            /\ unsentFor[c] \in Nat /\ unsentFor[c] <= MaxFlush
        BY <3>2, OfClient DEF OutOfTime
      <4> QED BY <4>1, Bounds DEF InBuffer
    <3> QED BY <2>1, <3>1, <3>2
  <2>3. MayMove(c, "settling") /\ "settling" \in Pcs
    BY <2>1, <2>2 DEF MayMove, Pcs
  <2> QED BY <1>2, <1>5, <2>1, <2>3 DEF Flushed
<1>6. CASE SettledInit(c)
  <2>1. c \in alive /\ MayMove(c, "reading") /\ "reading" \in Pcs
    BY <1>6 DEF SettledInit, MayMove, Settles, At, Pcs
  <2> QED BY <1>2, <1>6, <2>1 DEF SettledInit
<1>7. CASE SettleTimesOut(c)
  <2>1. c \in alive /\ MayMove(c, "copying") /\ "copying" \in Pcs
    BY <1>7 DEF SettleTimesOut, MayMove, Waiting, At, Pcs
  <2> QED BY <1>2, <1>7, <2>1 DEF SettleTimesOut
<1>8. CASE CopyWritten(c)
  <2>1. c \in alive /\ attempt[c].pc # "idle"
    BY <1>8 DEF CopyWritten, At
  <2> QED BY <1>4, <1>8, <2>1 DEF CopyWritten
<1>9. CASE DecideInit(c)
  <2>1. c \in alive /\ attempt[c].pc = "reading" /\ Ends(c) /\ kind = "init"
    BY <1>9 DEF DecideInit, At, IInv, Stages, Stage
  <2>2. UNCHANGED <<kind, alive, relay, unsentFor, behindFor, aware, tries>>
    BY <1>9 DEF DecideInit
  <2>3. CASE MayInsert(c)
    <3>1. Write(c, TRUE)
      BY <1>9, <2>3 DEF DecideInit
    <3>2. MayWrite(c)
      BY <2>1, <2>3 DEF MayInsert, MayWrite
    <3> QED BY <3>1, <3>2, <2>1, <2>2, <1>4
  <2>4. CASE ~MayInsert(c)
    <3>1. UNCHANGED <<kind, alive, netVars, aware, tries, historyVars>>
      BY <1>9, <2>2, <2>4 DEF DecideInit, WritesNothing, netVars, historyVars
    <3> QED BY <3>1, <2>1, <1>3
  <2> QED BY <2>3, <2>4
<1>10. CASE SettledReconcile(c)
  <2>1. c \in alive /\ attempt[c].pc = "settling" /\ kind = "reconcile" /\ Settles(c)
    BY <1>10 DEF SettledReconcile, Settles, At
  <2>2. UNCHANGED <<kind, alive, relay, unsentFor, behindFor, aware, tries>>
    BY <1>10 DEF SettledReconcile
  <2>3. CASE MayApply(c)
    <3>1. Write(c, TRUE) /\ Ends(c)
      BY <1>10, <2>3 DEF SettledReconcile
    <3>2. MayWrite(c)
      BY <2>1, <2>3 DEF MayApply, MayWrite
    <3> QED BY <3>1, <3>2, <2>1, <2>2, <1>4
  <2>4. CASE ~MayApply(c)
    <3>1. Goes(c, "copying") /\ UNCHANGED <<kind, alive, netVars, aware, tries, historyVars>>
      BY <1>10, <2>2, <2>4 DEF SettledReconcile, WritesNothing, netVars, historyVars
    <3>2. MayMove(c, "copying") /\ "copying" \in Pcs
      BY <2>1 DEF MayMove, Pcs
    <3> QED BY <3>1, <3>2, <2>1, <1>2
  <2> QED BY <2>3, <2>4
<1> QED BY <1>1, <1>5, <1>6, <1>7, <1>8, <1>9, <1>10

LEMMA StepHolds == IInv /\ [Next]_vars => IInv'
<1> SUFFICES ASSUME IInv, [Next]_vars PROVE IInv'
  OBVIOUS
<1>0. TypeOK /\ Rest
  BY DEF IInv, Rest
<1>1. ASSUME NEW c \in Clients, Push(c) PROVE IInv'
  <2>1. PushEffect(c) /\ TypeOK'
    BY <1>0, <1>1, PushDoes
  <2>2. Rest'
    BY <2>1, PushKeeps DEF PushEffect
  <2> QED BY <2>1, <2>2 DEF Rest, IInv
<1>2. ASSUME NEW c \in Clients, Receive(c) PROVE IInv'
  <2>1. ReceiveEffect(c) /\ TypeOK'
    BY <1>0, <1>2, ReceiveDoes
  <2>2. Rest'
    BY <2>1, ReceiveKeeps DEF ReceiveEffect
  <2> QED BY <2>1, <2>2 DEF Rest, IInv
<1>3. ASSUME NEW c \in Clients, Die(c) PROVE IInv'
  <2>1. DieEffect(c) /\ TypeOK'
    BY <1>0, <1>3, DieDoes
  <2>2. Rest'
    BY <2>1, DieKeeps DEF DieEffect
  <2> QED BY <2>1, <2>2 DEF Rest, IInv
<1>4. ASSUME NEW c \in Clients, NEW d \in Clients,
             AwarenessArrives(c, d) \/ AwarenessGone(c, d)
      PROVE IInv'
  BY <1>0, <1>4, AwarenessDoes, StillKeeps DEF Rest, IInv
<1>5. CASE Tick
  BY <1>0, <1>5, TickDoes, TickKeeps DEF Rest, IInv
<1>6. CASE UNCHANGED vars
  <2>1. UNCHANGED <<kind, alive, netVars, attempt, tries, historyVars>> /\ aware' = aware
    BY <1>6 DEF vars
  <2>2. Rest'
    BY <1>0, <2>1, StillKeeps
  <2>3. TypeOK'
    BY <1>0, <2>1 DEF TypeOK, netVars, historyVars
  <2> QED BY <2>2, <2>3 DEF Rest, IInv
<1> QED BY <1>1, <1>2, <1>3, <1>4, <1>5, <1>6, AttemptKeeps DEF Next

THEOREM InvariantHolds == Spec => []IInv
<1>1. Init => IInv
  BY InitHolds
<1>2. IInv /\ [Next]_vars => IInv'
  BY StepHolds
<1> QED BY <1>1, <1>2, PTL DEF Spec

(***************************************************************************)
(* Type correctness: claims are sequences of clients, and no update waits  *)
(* for longer than a flush or a delay.                                     *)
(***************************************************************************)
THEOREM TypesHold == Spec => []TypeOK
<1>1. IInv => TypeOK
  BY DEF IInv
<1> QED BY <1>1, InvariantHolds, PTL

(***************************************************************************)
(* One client writes: an empty document is seeded once, and of two clients *)
(* that apply an edit without a copy one knew the other's                  *)
(* (initContentClaim.ts, reconcileClaim.ts), for any number of clients,    *)
(* attempts and deaths, if the quiet period outlasts the network.          *)
(***************************************************************************)
THEOREM OneWriterHolds == Spec => []OneWriter
<1>1. IInv => OneWriter
  BY DEF IInv, NoneConcurrent, OneWriter, Concurrent, Live
<1> QED BY <1>1, InvariantHolds, PTL

(***************************************************************************)
(* The last client left does not leave a document empty for the sake of a  *)
(* claimant that is gone (isClaimStale of initContentClaim.ts).            *)
(***************************************************************************)
LEMMA DeadClaimsStep ==
  ASSUME IInv, [Next]_vars, NEW c \in Clients, attempt[c].alone, kind = "init",
         c \in alive', attempt'[c] = Idle
  PROVE replica'[c].writes # {}
<1>0. TypeOK /\ attempt[c] # Idle /\ attempt'[c] # attempt[c]
  BY IdleIs DEF IInv
<1>1. c \in alive
  BY <1>0 DEF IInv, Stages, Stage
<1>2. Mine(c)
  BY <1>1 DEF IInv, AloneWins
<1>3. attempt[c].pc # "idle" /\ attempt[c].pc # "copying"
  BY <1>0 DEF IInv, Stages, Stage
<1>4. ASSUME NEW d \in Clients, NEW place \in Pcs, place # "idle", Goes(d, place)
      PROVE FALSE
  <2>1. attempt'[c] = attempt[c] \/ attempt'[c].pc = place
    <3>1. attempt \in [Clients -> Attempts] /\ attempt' = [attempt EXCEPT ![d].pc = place]
      BY <1>0, <1>4 DEF TypeOK, Goes
    <3> QED BY <3>1 DEF Attempts
  <2> QED BY <2>1, <1>0, <1>4, IdleIs
<1>5. ASSUME NEW d \in Clients, d # c, Ends(d) PROVE FALSE
  BY <1>0, <1>5 DEF TypeOK, Ends
<1>6. ASSUME NEW d \in Clients, Claim(d) PROVE FALSE
  <2>1. ClaimEffect(d)
    BY <1>0, <1>6, ClaimDoes DEF IInv
  <2>2. CASE d = c
    BY <2>1, <2>2, <1>3 DEF ClaimEffect
  <2>3. CASE d # c
    BY <2>1, <2>3, <1>0 DEF ClaimEffect, OthersKept
  <2> QED BY <2>2, <2>3
<1>7. ASSUME NEW d \in Clients, Flushed(d) \/ SettledInit(d) \/ SettleTimesOut(d) PROVE FALSE
  BY <1>4, <1>7 DEF Flushed, SettledInit, SettleTimesOut, Pcs
<1>8. ASSUME NEW d \in Clients, SettledReconcile(d) \/ CopyWritten(d) PROVE FALSE
  <2>1. ~SettledReconcile(d)
    BY DEF SettledReconcile
  <2>2. attempt[d].pc = "copying" /\ kind = "reconcile"
    BY <1>8, <2>1 DEF CopyWritten, At, IInv, Stages, Stage
  <2> QED BY <2>2
<1>9. ASSUME NEW d \in Clients, DecideInit(d) PROVE replica'[c].writes # {}
  <2>1. d = c
    BY <1>5, <1>9 DEF DecideInit
  <2>2. CASE MayInsert(c)
    <3>1. Write(c, TRUE) /\ Ends(c) /\ c \in alive
          /\ UNCHANGED <<kind, alive, relay, unsentFor, behindFor, aware, tries>>
      BY <1>1, <1>9, <2>1, <2>2 DEF DecideInit
    <3>2. tries[c] > 0
      BY <1>3 DEF IInv, Stages, Stage
    <3>3. WriteEffect(c, TRUE)
      BY <1>0, <3>1, <3>2, WritesAt
    <3> QED BY <3>3 DEF WriteEffect
  <2>3. CASE ~MayInsert(c)
    <3>1. replica' = replica
      BY <1>9, <2>1, <2>3 DEF DecideInit, WritesNothing
    <3>2. replica[c].writes # {}
      BY <2>3, <1>2 DEF MayInsert
    <3> QED BY <3>1, <3>2
  <2> QED BY <2>2, <2>3
<1>10. ASSUME NEW d \in Clients, Push(d) PROVE FALSE
  BY <1>0, <1>10 DEF Push
<1>11. ASSUME NEW d \in Clients, Receive(d) PROVE FALSE
  <2>1. ReceiveEffect(d)
    BY <1>0, <1>11, ReceiveDoes
  <2>2. attempt'[c].pc = attempt[c].pc
    BY <2>1 DEF ReceiveEffect
  <2> QED BY <2>2, <1>3, IdleIs
<1>12. ASSUME NEW d \in Clients, Die(d) PROVE FALSE
  <2>1. d # c
    BY <1>12 DEF Die
  <2> QED BY <2>1, <1>5, <1>12 DEF Die
<1>13. ASSUME NEW d \in Clients, NEW e \in Clients,
              AwarenessArrives(d, e) \/ AwarenessGone(d, e)
       PROVE FALSE
  BY <1>0, <1>13 DEF AwarenessArrives, AwarenessGone
<1>14. ~Tick
  <2> SUFFICES ASSUME Tick PROVE FALSE
    OBVIOUS
  <2>1. TickEffect
    BY <1>0, TickDoes
  <2>2. attempt'[c].pc = attempt[c].pc
    BY <2>1 DEF TickEffect
  <2> QED BY <2>2, <1>3, IdleIs
<1>15. vars' # vars
  BY <1>0 DEF vars
<1> QED BY <1>6, <1>7, <1>8, <1>9, <1>10, <1>11, <1>12, <1>13, <1>14, <1>15 DEF Next

THEOREM DeadClaimsReplaced == Spec => DeadClaimsAreReplaced
<1>1. IInv /\ [Next]_vars =>
        \A c \in Clients :
          (attempt[c].alone /\ kind = "init" /\ c \in alive' /\ attempt'[c] = Idle)
            => replica'[c].writes # {}
  BY DeadClaimsStep
<1>2. IInv /\ [Next]_vars =>
        [\A c \in Clients :
           (attempt[c].alone /\ kind = "init" /\ c \in alive' /\ attempt'[c] = Idle)
             => replica'[c].writes # {}]_vars
  BY <1>1
<1> QED BY <1>2, InvariantHolds, PTL DEF Spec, DeadClaimsAreReplaced
=============================================================================
