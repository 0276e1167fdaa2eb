---------------------------- MODULE SamplingProofs ----------------------------
(***************************************************************************)
(* What is proved of the sampler, for any vocabulary, configuration, block *)
(* of threads and context: the token of every row is the one asked for.    *)
(*                                                                         *)
(* The lists of the K largest are right whatever order the tokens arrive   *)
(* in: a list keeps the largest of those it was offered, and a list of     *)
(* lists keeps the largest of all, because after the j-th offer its j-th   *)
(* place is at least the j-th of the list it is given.                     *)
(***************************************************************************)
EXTENDS Sampling, AttentionProofs

-----------------------------------------------------------------------------
(* A list in descending order, and an offer to it.                          *)

Entries == [v : Int, i : Int]
ListsOf(k) == {list \in Seq(Entries) : Len(list) = k}

\* e went into its place, before p + 1, and the last of the list out.
Inserted(list, e, new, p) ==
  /\ \A j \in 1 .. p : new[j] = list[j] /\ list[j].v >= e.v
  /\ new[p + 1] = e
  /\ \A j \in p + 2 .. Len(list) : new[j] = list[j - 1]
  /\ \A j \in p + 1 .. Len(list) : list[j].v < e.v

Descends(list) == \A i \in DOMAIN list, j \in DOMAIN list : i < j => list[i].v >= list[j].v

\* What a list of k entries is.
LEMMA ListsType ==
  ASSUME NEW k \in Nat, NEW list \in ListsOf(k)
  PROVE  /\ DOMAIN list = 1 .. k /\ Len(list) = k /\ list \in Seq(Entries)
         /\ \A j \in 1 .. k : list[j] \in Entries /\ list[j].v \in Int /\ list[j].i \in Int
  <1>1. list \in Seq(Entries) /\ Len(list) = k
    BY DEF ListsOf
  <1>2. DOMAIN list = 1 .. k /\ \A j \in 1 .. k : list[j] \in Entries
    BY <1>1
  <1>3. \A e \in Entries : e.v \in Int /\ e.i \in Int
    BY DEF Entries
  <1> QED BY <1>1, <1>2, <1>3

\* Where an entry goes.
LEMMA PlaceType ==
  ASSUME NEW k \in Nat \ {0}, NEW list \in ListsOf(k), NEW e \in Entries, ~(e.v <= Last(list).v)
  PROVE  /\ PlaceOf(list, e) \in 0 .. k - 1
         /\ Descends(list) => \A j \in 1 .. k : j <= PlaceOf(list, e) <=> list[j].v >= e.v
  <1> DEFINE S == {0} \cup {j \in DOMAIN list : list[j].v >= e.v}
             p == PlaceOf(list, e)
  <1>1. DOMAIN list = 1 .. k /\ Len(list) = k /\ \A j \in 1 .. k : list[j] \in Entries /\ list[j].v \in Int
    BY ListsType
  <1>2. e.v \in Int /\ list[k].v < e.v
    BY <1>1 DEF Entries, Last
  <1>3. S \in SUBSET Int /\ S # {} /\ \A y \in S : y <= k
    BY <1>1
  <1>4. p = Max(S)
    BY DEF PlaceOf
  <1>5. p \in S /\ \A y \in S : y <= p
    <2> HIDE DEF S, p
    <2> QED BY <1>3, <1>4, MaxUpTo
  <1>6. p # k
    BY <1>1, <1>2, <1>5
  <1>7. p \in 0 .. k - 1
    BY <1>1, <1>5, <1>6
  <1>8. ASSUME Descends(list), NEW j \in 1 .. k PROVE j <= p <=> list[j].v >= e.v
    <2> HIDE DEF p
    <2>1. CASE list[j].v >= e.v
      <3>1. j \in S
        BY <1>1, <2>1
      <3> QED BY <1>5, <2>1, <3>1
    <2>2. CASE ~(list[j].v >= e.v)
      <3>1. CASE j <= p
        <4>1. p \in 1 .. k /\ list[p].v >= e.v
          BY <1>1, <1>5, <1>7, <3>1
        <4>2. list[j].v >= list[p].v
          <5>1. CASE j < p
            BY <1>1, <1>8, <4>1, <5>1 DEF Descends
          <5>2. CASE ~(j < p)
            <6>1. j = p
              BY <3>1, <4>1, <5>2
            <6> QED BY <1>1, <4>1, <6>1
          <5> QED BY <5>1, <5>2
        <4>3. list[j].v \in Int /\ list[p].v \in Int
          BY <1>1, <4>1
        <4> QED BY <1>2, <2>2, <4>1, <4>2, <4>3
      <3> QED BY <2>2, <3>1
    <2> QED BY <2>1, <2>2
  <1> QED BY <1>7, <1>8

\* An offer takes the place of the last, or is not taken.
LEMMA OfferType ==
  ASSUME NEW k \in Nat \ {0}, NEW list \in ListsOf(k), NEW e \in Entries
  PROVE  /\ Offer(list, e) \in ListsOf(k)
         /\ e.v <= list[k].v => Offer(list, e) = list
         /\ ~(e.v <= list[k].v) /\ Descends(list) => \E p \in 0 .. k - 1 : Inserted(list, e, Offer(list, e), p)
  <1> DEFINE p == PlaceOf(list, e)
             new == Offer(list, e)
             a == SubSeq(list, 1, p)
             b == SubSeq(list, p + 1, k - 1)
  <1>1. DOMAIN list = 1 .. k /\ Len(list) = k /\ list \in Seq(Entries) /\ \A j \in 1 .. k : list[j] \in Entries /\ list[j].v \in Int
    BY ListsType
  <1>2. Last(list) = list[k]
    BY <1>1 DEF Last
  <1>3. CASE e.v <= list[k].v
    BY <1>2, <1>3 DEF Offer
  <1>4. CASE ~(e.v <= list[k].v)
    <2>1. p \in 0 .. k - 1 /\ p \in Int /\ (Descends(list) => \A j \in 1 .. k : j <= p <=> list[j].v >= e.v)
      BY <1>2, <1>4, PlaceType
    <2>2. new = a \o <<e>> \o b
      BY <1>1, <1>2, <1>4 DEF Offer
    <2> HIDE DEF p, new
    <2>3. a \in Seq(Entries) /\ Len(a) = p /\ \A j \in 1 .. p : a[j] = list[j]
      BY <1>1, <2>1
    <2>4. b \in Seq(Entries) /\ Len(b) = k - 1 - p /\ \A j \in 1 .. k - 1 - p : b[j] = list[p + j]
      BY <1>1, <2>1
    <2> HIDE DEF a, b
    <2> DEFINE c == a \o <<e>>
    <2>5. c \in Seq(Entries) /\ Len(c) = p + 1 /\ c[p + 1] = e /\ \A j \in 1 .. p : c[j] = a[j]
      BY <2>1, <2>3
    <2> HIDE DEF c
    <2>6. c \o b \in Seq(Entries) /\ Len(c \o b) = k /\ \A j \in 1 .. p + 1 : (c \o b)[j] = c[j]
      <3>1. c \o b \in Seq(Entries)
        BY <2>4, <2>5
      <3>2. Len(c \o b) = Len(c) + Len(b)
        BY <2>4, <2>5
      <3>3. \A j \in 1 .. p + 1 : (c \o b)[j] = c[j]
        BY <2>1, <2>4, <2>5
      <3> QED BY <2>1, <2>4, <2>5, <3>1, <3>2, <3>3
    <2>7. \A j \in p + 2 .. k : (c \o b)[j] = b[j - (p + 1)]
      BY <2>1, <2>4, <2>5
    <2>8. new = c \o b
      BY <2>2 DEF c
    <2>9. /\ new \in Seq(Entries) /\ Len(new) = k /\ new[p + 1] = e
          /\ \A j \in 1 .. p : new[j] = list[j]
          /\ \A j \in p + 2 .. k : new[j] = b[j - (p + 1)]
      <3>1. p + 1 \in 1 .. p + 1 /\ \A j \in 1 .. p : j \in 1 .. p + 1
        BY <2>1
      <3> QED BY <2>3, <2>5, <2>6, <2>7, <2>8, <3>1
    <2>10. \A j \in p + 2 .. k : new[j] = list[j - 1]
      <3> TAKE j \in p + 2 .. k
      <3>1. j - (p + 1) \in 1 .. k - 1 - p /\ p + (j - (p + 1)) = j - 1
        BY <2>1
      <3> QED BY <2>4, <2>9, <3>1
    <2>11. ASSUME Descends(list) PROVE Inserted(list, e, new, p)
      <3>1. \A j \in 1 .. p : j \in 1 .. k /\ j <= p
        BY <2>1
      <3>2. \A j \in p + 1 .. k : j \in 1 .. k /\ ~(j <= p) /\ list[j].v \in Int
        BY <1>1, <2>1
      <3>3. e.v \in Int
        BY DEF Entries
      <3>4. \A j \in 1 .. p : list[j].v >= e.v
        BY <2>1, <2>11, <3>1
      <3>5. \A j \in p + 1 .. k : list[j].v < e.v
        BY <2>1, <2>11, <3>2, <3>3
      <3> QED BY <1>1, <2>9, <2>10, <3>4, <3>5 DEF Inserted
    <2>12. new \in ListsOf(k)
      BY <2>9 DEF ListsOf
    <2> QED BY <1>4, <2>1, <2>11, <2>12 DEF new
  <1> QED BY <1>3, <1>4

Rises(old, new, k) == \A j \in 1 .. k : old[j].v <= new[j].v

\* An offer raises every place, and the place after those that are not below it.
LEMMA OfferRises ==
  ASSUME NEW k \in Nat \ {0}, NEW list \in ListsOf(k), NEW e \in Entries, Descends(list)
  PROVE  /\ Offer(list, e) \in ListsOf(k) /\ Descends(Offer(list, e)) /\ Rises(list, Offer(list, e), k)
         /\ \A m \in 1 .. k : (\A i \in 1 .. m - 1 : list[i].v >= e.v) => Offer(list, e)[m].v >= e.v
  <1> DEFINE new == Offer(list, e)
  <1>1. new \in ListsOf(k) /\ e.v \in Int
    BY OfferType DEF Entries
  <1>2. DOMAIN list = 1 .. k /\ Len(list) = k /\ \A j \in 1 .. k : list[j].v \in Int
    BY ListsType
  <1>2a. DOMAIN new = 1 .. k /\ \A j \in 1 .. k : new[j].v \in Int
    <2> HIDE DEF new
    <2> QED BY <1>1, ListsType
  <1>2b. \A i \in 1 .. k, j \in 1 .. k : i < j => list[i].v >= list[j].v
    BY <1>2 DEF Descends
  <1>3. CASE e.v <= list[k].v
    <2>1. new = list
      BY <1>3, OfferType
    <2> HIDE DEF new
    <2>2. Descends(new) /\ Rises(list, new, k)
      BY <1>2, <2>1 DEF Rises
    <2>3. \A m \in 1 .. k : list[m].v >= e.v
      <3> TAKE m \in 1 .. k
      <3>1. list[m].v >= list[k].v
        BY <1>2, <1>2b
      <3>2. k \in 1 .. k
        OBVIOUS
      <3> QED BY <1>1, <1>2, <1>3, <3>1, <3>2
    <2> QED BY <1>1, <2>1, <2>2, <2>3 DEF new
  <1>4. CASE ~(e.v <= list[k].v)
    <2>1. PICK p \in 0 .. k - 1 : Inserted(list, e, new, p)
      BY <1>4, OfferType
    <2> HIDE DEF new
    <2>2. /\ \A j \in 1 .. p : new[j] = list[j] /\ list[j].v >= e.v
          /\ new[p + 1] = e
          /\ \A j \in p + 2 .. k : new[j] = list[j - 1]
          /\ \A j \in p + 1 .. k : list[j].v < e.v
      BY <1>2, <2>1 DEF Inserted
    <2>3. \A j \in 1 .. k : j \in 1 .. p \/ j = p + 1 \/ (j \in p + 2 .. k /\ j - 1 \in 1 .. k /\ j - 1 \in p + 1 .. k)
      BY <2>1
    <2>4. \A j \in 1 .. p : j \in 1 .. k
      BY <2>1
    <2>5. Rises(list, new, k)
      <3> SUFFICES ASSUME NEW j \in 1 .. k PROVE list[j].v <= new[j].v
        BY DEF Rises
      <3>1. CASE j \in 1 .. p
        BY <1>2, <2>2, <3>1
      <3>2. CASE j = p + 1
        <4>1. list[j].v < e.v
          BY <2>1, <2>2, <3>2
        <4> QED BY <1>1, <1>2, <2>2, <3>2, <4>1
      <3>3. CASE j \in p + 2 .. k /\ j - 1 \in 1 .. k
        <4>1. new[j] = list[j - 1]
          BY <2>2, <3>3
        <4>2. list[j - 1].v >= list[j].v
          BY <1>2b, <3>3
        <4> QED BY <1>2, <3>3, <4>1, <4>2
      <3> QED BY <2>3, <3>1, <3>2, <3>3
    <2>6. Descends(new)
      <3> SUFFICES ASSUME NEW i \in 1 .. k, NEW j \in 1 .. k, i < j PROVE new[i].v >= new[j].v
        BY <1>2a DEF Descends
      <3>1. CASE j \in 1 .. p
        <4>1. i \in 1 .. p
          BY <3>1
        <4> QED BY <1>2b, <2>2, <3>1, <4>1
      <3>2. CASE j = p + 1
        <4>1. i \in 1 .. p
          BY <2>1, <3>2
        <4> QED BY <2>2, <3>2, <4>1
      <3>3. CASE j \in p + 2 .. k /\ j - 1 \in 1 .. k /\ j - 1 \in p + 1 .. k
        <4>1. new[j] = list[j - 1] /\ list[j - 1].v < e.v /\ list[j - 1].v \in Int
          BY <1>2, <2>2, <3>3
        <4>2. CASE i \in 1 .. p
          <5>1. new[i] = list[i] /\ list[i].v >= e.v /\ list[i].v \in Int
            BY <1>2, <2>2, <4>2
          <5> QED BY <1>1, <4>1, <5>1
        <4>3. CASE i = p + 1
          BY <1>1, <2>2, <4>1, <4>3
        <4>4. CASE i \in p + 2 .. k /\ i - 1 \in 1 .. k
          <5>1. new[i] = list[i - 1]
            BY <2>2, <4>4
          <5>2. i - 1 < j - 1
            OBVIOUS
          <5> QED BY <1>2b, <3>3, <4>1, <4>4, <5>1, <5>2
        <4> QED BY <2>3, <4>2, <4>3, <4>4
      <3> QED BY <2>3, <3>1, <3>2, <3>3
    <2>7. ASSUME NEW m \in 1 .. k, \A i \in 1 .. m - 1 : list[i].v >= e.v PROVE new[m].v >= e.v
      <3>1. CASE m \in 1 .. p
        BY <2>2, <3>1
      <3>2. CASE m = p + 1
        BY <1>1, <2>2, <3>2
      <3>3. CASE m \in p + 2 .. k /\ m - 1 \in 1 .. k /\ m - 1 \in p + 1 .. k
        <4>1. m - 1 \in 1 .. m - 1
          BY <3>3
        <4>2. list[m - 1].v >= e.v /\ list[m - 1].v < e.v /\ list[m - 1].v \in Int
          BY <1>2, <2>2, <2>7, <3>3, <4>1
        <4> QED BY <1>1, <4>2
      <3> QED BY <2>3, <3>1, <3>2, <3>3
    <2> QED BY <1>1, <2>5, <2>6, <2>7 DEF new
  <1> QED BY <1>3, <1>4
-----------------------------------------------------------------------------
(* The largest of a set of tokens.                                          *)

\* Rows of logits, all of them above those of no token.
HighRows == {x \in [Ids -> Int] : \A t \in Ids : MinusMax + 12 < x[t]}

Genuine(x, list, S) == \A j \in DOMAIN list : list[j] = None \/ (list[j].i \in S /\ list[j].v = x[list[j].i])
Distinct(list) == \A i \in DOMAIN list, j \in DOMAIN list : i < j /\ list[j].i \in Ids => list[i].i # list[j].i
Covers(x, list, k, S) == \A t \in S : x[t] <= list[k].v \/ \E j \in 1 .. k : list[j].i = t

\* The k largest of the tokens of S, or all of them.
Top(x, list, k, S) == list \in ListsOf(k) /\ Genuine(x, list, S) /\ Descends(list) /\ Distinct(list) /\ Covers(x, list, k, S)

\* None is below every token.
LEMMA RowType ==
  ASSUME NEW x \in HighRows, NEW t \in Ids
  PROVE  /\ x[t] \in Int /\ MinusMax + 12 < x[t] /\ Entry(x, t) \in Entries /\ Entry(x, t).v = x[t] /\ Entry(x, t).i = t
         /\ t \in Int /\ t >= 0 /\ MinusMax \in Int /\ MinusMax < x[t]
  BY SamplerAssumption DEF HighRows, Entry, Entries, MinusMax, Ids

\* None is an entry of no token, below every other.
LEMMA NoneType == None \in Entries /\ None.v = MinusMax /\ None.i = -1 /\ MinusMax \in Int /\ None.i \notin Ids
  BY DEF None, Entries, MinusMax, Ids

\* A list has the lowest at least.
LEMMA TopLow ==
  ASSUME NEW k \in Nat \ {0}, NEW x \in HighRows, NEW S \in SUBSET Ids, NEW list, Top(x, list, k, S)
  PROVE  \A j \in 1 .. k : list[j].v >= MinusMax /\ (list[j].i \in Ids => list[j].i \in S /\ list[j].v = x[list[j].i])
  <1> SUFFICES ASSUME NEW j \in 1 .. k
               PROVE  list[j].v >= MinusMax /\ (list[j].i \in Ids => list[j].i \in S /\ list[j].v = x[list[j].i])
    OBVIOUS
  <1>1. list \in ListsOf(k) /\ DOMAIN list = 1 .. k
    BY ListsType DEF Top
  <1>2. CASE list[j] = None
    BY <1>2, NoneType
  <1>3. CASE list[j].i \in S /\ list[j].v = x[list[j].i]
    <2>1. list[j].i \in Ids
      BY <1>3
    <2> QED BY <1>3, <2>1, RowType
  <1> QED BY <1>1, <1>2, <1>3 DEF Top, Genuine

\* No token is in the empty list.
LEMMA NoneYetTop ==
  ASSUME NEW k \in Nat \ {0}, NEW x \in HighRows
  PROVE  Top(x, NoneYet(k), k, {}) /\ NoneYet(k) \in ListsOf(k)
  <1> DEFINE list == NoneYet(k)
  <1>1. \A j \in 1 .. k : list[j] = None
    BY DEF NoneYet
  <1>2. list \in Seq(Entries) /\ Len(list) = k /\ DOMAIN list = 1 .. k
    <2>1. list \in [1 .. k -> Entries]
      BY NoneType DEF NoneYet
    <2> HIDE DEF list
    <2> QED BY <2>1
  <1> HIDE DEF list
  <1>3. list \in ListsOf(k)
    BY <1>2 DEF ListsOf
  <1>4. Genuine(x, list, {}) /\ Descends(list) /\ Distinct(list)
    <2>1. \A j \in DOMAIN list : list[j].v = MinusMax /\ list[j].i \notin Ids
      BY <1>1, <1>2, NoneType
    <2> QED BY <1>1, <1>2, <2>1, NoneType DEF Genuine, Descends, Distinct
  <1>5. Covers(x, list, k, {})
    BY DEF Covers
  <1> QED BY <1>3, <1>4, <1>5 DEF Top, list

\* An offer of the lowest is not taken.
LEMMA OfferNothing ==
  ASSUME NEW k \in Nat \ {0}, NEW x \in HighRows, NEW S \in SUBSET Ids, NEW list, Top(x, list, k, S),
         NEW e \in Entries, e.v <= MinusMax
  PROVE  Offer(list, e) = list
  <1>1. list \in ListsOf(k) /\ k \in 1 .. k
    BY DEF Top
  <1>2. list[k].v >= MinusMax /\ list[k].v \in Int /\ e.v \in Int
    BY <1>1, TopLow, ListsType DEF Entries
  <1>3. e.v <= list[k].v
    BY <1>2, NoneType
  <1> QED BY <1>1, <1>3, OfferType

\* A token that is not larger than the last of a list need not be offered.
LEMMA TopWithout ==
  ASSUME NEW k \in Nat \ {0}, NEW x \in HighRows, NEW S \in SUBSET Ids, NEW list, Top(x, list, k, S),
         NEW t \in Ids, x[t] <= list[k].v
  PROVE  Top(x, list, k, S \cup {t})
  <1>1. Genuine(x, list, S \cup {t})
    BY DEF Top, Genuine
  <1>2. Covers(x, list, k, S \cup {t})
    BY DEF Top, Covers
  <1> QED BY <1>1, <1>2 DEF Top

\* A list with a token offered is that of the tokens with this one.
LEMMA OfferTop ==
  ASSUME NEW k \in Nat \ {0}, NEW x \in HighRows, NEW S \in SUBSET Ids, NEW list, Top(x, list, k, S),
         NEW t \in Ids, t \notin S
  PROVE  Top(x, Offer(list, Entry(x, t)), k, S \cup {t})
  <1> DEFINE e == Entry(x, t)
             new == Offer(list, e)
             T == S \cup {t}
  <1>1. list \in ListsOf(k) /\ DOMAIN list = 1 .. k /\ \A j \in 1 .. k : list[j].v \in Int
    BY ListsType DEF Top
  <1>2. e \in Entries /\ e.v = x[t] /\ e.i = t /\ x[t] \in Int
    BY RowType
  <1> HIDE DEF e
  <1>3. CASE e.v <= list[k].v
    <2>1. new = list
      BY <1>1, <1>2, <1>3, OfferType
    <2>2. Top(x, list, k, T)
      BY <1>2, <1>3, TopWithout
    <2> QED BY <2>1, <2>2 DEF e
  <1>4. CASE ~(e.v <= list[k].v)
    <2>1. Descends(list) /\ Genuine(x, list, S) /\ Distinct(list) /\ Covers(x, list, k, S)
      BY DEF Top
    <2>2. PICK p \in 0 .. k - 1 : Inserted(list, e, new, p)
      BY <1>1, <1>2, <1>4, <2>1, OfferType
    <2>3. new \in ListsOf(k) /\ Descends(new) /\ Rises(list, new, k)
      BY <1>1, <1>2, <2>1, OfferRises
    <2> HIDE DEF new
    <2>4. DOMAIN new = 1 .. k /\ \A j \in 1 .. k : new[j].v \in Int
      BY <2>3, ListsType
    <2>5. /\ \A j \in 1 .. p : new[j] = list[j]
          /\ new[p + 1] = e
          /\ \A j \in p + 2 .. k : new[j] = list[j - 1]
      BY <1>1, <2>2, ListsType DEF Inserted
    <2>6. \A j \in 1 .. k : j \in 1 .. p \/ j = p + 1 \/ (j \in p + 2 .. k /\ j - 1 \in 1 .. k /\ j - 1 \in p + 1 .. k)
      BY <2>2
    <2>7. Genuine(x, new, T)
      <3> SUFFICES ASSUME NEW j \in 1 .. k PROVE new[j] = None \/ (new[j].i \in T /\ new[j].v = x[new[j].i])
        BY <2>4 DEF Genuine
      <3>0. \A i \in 1 .. k : list[i] = None \/ (list[i].i \in T /\ list[i].v = x[list[i].i])
        BY <1>1, <2>1 DEF Genuine
      <3>1. CASE j \in 1 .. p
        BY <2>5, <3>0, <3>1
      <3>2. CASE j = p + 1
        BY <1>2, <2>5, <3>2
      <3>3. CASE j \in p + 2 .. k /\ j - 1 \in 1 .. k
        BY <2>5, <3>0, <3>3
      <3> QED BY <2>6, <3>1, <3>2, <3>3
    <2>8. Distinct(new)
      <3> SUFFICES ASSUME NEW i \in 1 .. k, NEW j \in 1 .. k, i < j, new[j].i \in Ids PROVE new[i].i # new[j].i
        BY <2>4 DEF Distinct
      <3>0. /\ \A m \in 1 .. k, n \in 1 .. k : m < n /\ list[n].i \in Ids => list[m].i # list[n].i
            /\ \A m \in 1 .. k : list[m].i # t
        <4>1. \A m \in 1 .. k : list[m].i # t
          BY TopLow
        <4> QED BY <1>1, <2>1, <4>1 DEF Distinct
      <3>1. CASE j \in 1 .. p
        <4>1. i \in 1 .. p
          BY <3>1
        <4> QED BY <2>5, <3>0, <3>1, <4>1
      <3>2. CASE j = p + 1
        <4>1. i \in 1 .. p
          BY <2>2, <3>2
        <4> QED BY <1>2, <2>5, <3>0, <3>2, <4>1
      <3>3. CASE j \in p + 2 .. k /\ j - 1 \in 1 .. k /\ j - 1 \in p + 1 .. k
        <4>1. new[j] = list[j - 1]
          BY <2>5, <3>3
        <4>2. CASE i \in 1 .. p
          <5>1. i < j - 1 /\ new[i] = list[i]
            BY <2>5, <3>3, <4>2
          <5> QED BY <3>0, <3>3, <4>1, <5>1
        <4>3. CASE i = p + 1
          BY <1>2, <2>5, <3>0, <3>3, <4>1, <4>3
        <4>4. CASE i \in p + 2 .. k /\ i - 1 \in 1 .. k
          <5>1. i - 1 < j - 1 /\ new[i] = list[i - 1]
            BY <2>5, <4>4
          <5> QED BY <3>0, <3>3, <4>1, <4>4, <5>1
        <4> QED BY <2>6, <4>2, <4>3, <4>4
      <3> QED BY <2>6, <3>1, <3>2, <3>3
    <2>9. Covers(x, new, k, T)
      <3> SUFFICES ASSUME NEW s \in T PROVE x[s] <= new[k].v \/ \E j \in 1 .. k : new[j].i = s
        BY DEF Covers
      <3>0. k \in 1 .. k /\ list[k].v <= new[k].v /\ x[s] \in Int
        BY <2>3, RowType DEF Rises
      <3>1. CASE s = t
        <4>1. p + 1 \in 1 .. k
          BY <2>2
        <4> QED BY <1>2, <2>5, <3>1, <4>1
      <3>2. CASE s \in S /\ x[s] <= list[k].v
        BY <1>1, <2>4, <3>0, <3>2
      <3>3. ASSUME s \in S, NEW j \in 1 .. k, list[j].i = s PROVE x[s] <= new[k].v \/ \E i \in 1 .. k : new[i].i = s
        <4>1. CASE j \in 1 .. p
          BY <2>5, <3>3, <4>1
        <4>2. CASE j \in p + 1 .. k - 1
          <5>1. j + 1 \in p + 2 .. k /\ j + 1 \in 1 .. k /\ (j + 1) - 1 = j
            BY <4>2
          <5> QED BY <2>5, <3>3, <5>1
        <4>3. CASE j = k
          <5>1. list[k].v = x[s]
            BY <3>0, <3>3, <4>3, TopLow
          <5> QED BY <1>1, <2>4, <3>0, <5>1
        <4> QED BY <4>1, <4>2, <4>3
      <3> QED BY <2>1, <3>1, <3>2, <3>3 DEF Covers
    <2> QED BY <2>3, <2>7, <2>8, <2>9 DEF Top, new, e
  <1> QED BY <1>3, <1>4

\* f[j] is the list after the first j offers.
Offering(f, list, entries, ballot) ==
  /\ f[0] = list
  /\ \A j \in 1 .. Len(entries) : f[j] = IF j \in ballot THEN Offer(f[j - 1], entries[j]) ELSE f[j - 1]
  /\ OfferAll(list, entries, ballot) = f[Len(entries)]

\* Entries are offered one by one.
LEMMA OfferSteps ==
  ASSUME NEW k \in Nat \ {0}, NEW list \in ListsOf(k), NEW entries \in Seq(Entries), NEW ballot
  PROVE  \E f \in [0 .. Len(entries) -> ListsOf(k)] : Offering(f, list, entries, ballot)
  <1> DEFINE n == Len(entries)
             D == ListsOf(k)
             One(a, j) == IF j \in ballot THEN Offer(a, entries[j]) ELSE a
             st == [y \in D \X (1 .. n) |-> One(y[1], y[2])]
             Value(g, j) == IF j = 0 THEN list ELSE One(g[j - 1], j)
             Is(g) == g = [j \in 0 .. n |-> Value(g, j)]
  <1>1. n \in Nat /\ list \in D /\ \A a \in D, j \in 1 .. n : One(a, j) \in D
    <2>1. \A j \in 1 .. n : entries[j] \in Entries
      OBVIOUS
    <2> QED BY <2>1, OfferType
  <1>2. OfferAll(list, entries, ballot) = (CHOOSE g : Is(g))[n]
    BY DEF OfferAll
  <1> HIDE DEF n, D, One
  <1>3. st \in [D \X (1 .. n) -> D] /\ \A a \in D, j \in 1 .. n : st[<<a, j>>] = One(a, j)
    BY <1>1
  <1> HIDE DEF st
  <1>4. PICK f \in [0 .. n -> D] : Stepwise(f, st, list, n)
    BY <1>1, <1>3, StepsExist
  <1>5. f[0] = list /\ \A j \in 1 .. n : f[j] = One(f[j - 1], j)
    <2>0. \A j \in 1 .. n : j - 1 \in 0 .. n
      BY <1>1
    <2>1. \A j \in 1 .. n : f[j - 1] \in D /\ f[j] = st[<<f[j - 1], j>>]
      BY <1>4, <2>0 DEF Stepwise
    <2> QED BY <1>3, <1>4, <2>1 DEF Stepwise
  <1>6. Is(f)
    <2>1. \A j \in 0 .. n : f[j] = Value(f, j)
      BY <1>1, <1>5
    <2> HIDE DEF Value
    <2> QED BY <1>4, <2>1
  <1> DEFINE it == CHOOSE g : Is(g)
  <1>7. Is(it)
    <2> HIDE DEF Is
    <2> QED BY <1>6
  <1> HIDE DEF it
  <1>8. \A j \in 0 .. n : it[j] = Value(it, j)
    <2>1. it = [j \in 0 .. n |-> Value(it, j)]
      BY <1>7
    <2> HIDE DEF Value
    <2> QED BY <2>1
  <1>9. it[n] = f[n]
    <2> DEFINE Good == {j \in 0 .. n : it[j] = f[j]}
    <2>1. 0 \in Good
      BY <1>1, <1>5, <1>8
    <2>2. ASSUME NEW m \in 0 .. n, m < n, m \in Good PROVE m + 1 \in Good
      <3>1. m + 1 \in 1 .. n /\ m + 1 \in 0 .. n /\ (m + 1) - 1 = m /\ m + 1 # 0
        BY <1>1, <2>2
      <3>2. it[m + 1] = One(it[m], m + 1) /\ f[m + 1] = One(f[m], m + 1) /\ it[m] = f[m]
        BY <1>5, <1>8, <2>2, <3>1
      <3> QED BY <3>1, <3>2
    <2> HIDE DEF Good
    <2>3. \A m \in 0 .. n : m \in Good
      BY <1>1, <2>1, <2>2, UpTo
    <2>4. n \in Good
      BY <1>1, <2>3
    <2> QED BY <2>4 DEF Good
  <1>10. OfferAll(list, entries, ballot) = f[n]
    BY <1>2, <1>9 DEF it
  <1> QED BY <1>4, <1>5, <1>10 DEF n, D, One, Offering

\* Those of the first j of a list.
TokensOf(l, j) == {t \in Ids : \E m \in 1 .. j : l[m].i = t}
AtLeast(new, l, j) == \A m \in 1 .. j : new[m].v >= l[m].v

\* The next of a list l, offered to a list that has those before it.
LEMMA MergeStep ==
  ASSUME NEW k \in Nat \ {0}, NEW x \in HighRows, NEW S \in SUBSET Ids, NEW T \in SUBSET Ids, S \cap T = {},
         NEW l, Top(x, l, k, T), NEW j \in 0 .. k - 1,
         NEW list, Top(x, list, k, S \cup TokensOf(l, j)), AtLeast(list, l, j)
  PROVE  Top(x, Offer(list, l[j + 1]), k, S \cup TokensOf(l, j + 1)) /\ AtLeast(Offer(list, l[j + 1]), l, j + 1)
  <1> DEFINE e == l[j + 1]
             new == Offer(list, e)
             U == S \cup TokensOf(l, j)
             V == S \cup TokensOf(l, j + 1)
  <1>1. j + 1 \in 1 .. k /\ j \in Nat /\ \A m \in 1 .. j + 1 : m \in 1 .. j \/ m = j + 1
    OBVIOUS
  <1>2. /\ l \in ListsOf(k) /\ DOMAIN l = 1 .. k
        /\ \A m \in 1 .. k : l[m] \in Entries /\ l[m].v \in Int /\ l[m].i \in Int
    BY ListsType DEF Top
  <1>2a. list \in ListsOf(k) /\ Descends(list)
    BY DEF Top
  <1>3. \A m \in 1 .. k : list[m].v >= MinusMax /\ list[m].v \in Int
    <2>1. U \in SUBSET Ids
      BY DEF TokensOf
    <2> QED BY <1>2a, <2>1, TopLow, ListsType
  <1>4. TokensOf(l, j + 1) = TokensOf(l, j) \cup ({e.i} \cap Ids)
    <2>1. \A t \in Ids : (\E m \in 1 .. j + 1 : l[m].i = t) <=> (\E m \in 1 .. j : l[m].i = t) \/ l[j + 1].i = t
      BY <1>1
    <2> QED BY <2>1 DEF TokensOf
  <1>5. CASE e = None
    <2>1. new = list
      <3>1. U \in SUBSET Ids /\ e.v <= MinusMax /\ e \in Entries
        BY <1>5, NoneType DEF TokensOf
      <3> QED BY <3>1, OfferNothing
    <2>2. V = U
      BY <1>4, <1>5, NoneType
    <2>3. AtLeast(list, l, j + 1)
      <3>1. list[j + 1].v >= l[j + 1].v
        BY <1>1, <1>3, <1>5, NoneType
      <3> QED BY <1>1, <3>1 DEF AtLeast
    <2> QED BY <2>1, <2>2, <2>3
  <1>6. CASE e.i \in T /\ e.v = x[e.i]
    <2> DEFINE t == e.i
    <2>1. t \in Ids /\ t \in T /\ t \notin S
      BY <1>6
    <2>2. t \notin TokensOf(l, j)
      <3>1. \A m \in 1 .. j : m \in 1 .. k /\ m < j + 1
        BY <1>1
      <3>2. \A m \in 1 .. j : l[m].i # l[j + 1].i
        BY <1>1, <1>2, <2>1, <3>1 DEF Top, Distinct
      <3> QED BY <3>2 DEF TokensOf
    <2>3. e = Entry(x, t)
      <3>1. e \in Entries
        BY <1>1, <1>2
      <3> QED BY <1>6, <3>1 DEF Entry, Entries
    <2>4. Top(x, new, k, U \cup {t})
      <3>1. U \in SUBSET Ids /\ t \notin U
        BY <2>1, <2>2 DEF TokensOf
      <3> HIDE DEF U, t
      <3> QED BY <2>1, <2>3, <3>1, OfferTop DEF U
    <2>5. V = U \cup {t}
      BY <1>4, <2>1
    <2>6. AtLeast(new, l, j + 1)
      <3>1. new \in ListsOf(k) /\ Rises(list, new, k) /\ e \in Entries /\ e.v \in Int
        BY <1>1, <1>2, <1>2a, OfferRises
      <3>2. \A m \in 1 .. k : (\A i \in 1 .. m - 1 : list[i].v >= e.v) => new[m].v >= e.v
        BY <1>1, <1>2, <1>2a, OfferRises
      <3> HIDE DEF new
      <3>3. \A m \in 1 .. k : new[m].v \in Int
        BY <3>1, ListsType
      <3>4. ASSUME NEW m \in 1 .. j PROVE new[m].v >= l[m].v /\ list[m].v >= e.v
        <4>1. m \in 1 .. k /\ m < j + 1
          BY <1>1
        <4>2. list[m].v >= l[m].v /\ list[m].v <= new[m].v
          BY <3>1, <4>1 DEF AtLeast, Rises
        <4>3. l[m].v >= l[j + 1].v
          BY <1>1, <1>2, <4>1 DEF Top, Descends
        <4> QED BY <1>2, <1>3, <3>1, <3>3, <4>1, <4>2, <4>3
      <3>5. new[j + 1].v >= e.v
        <4>1. \A i \in 1 .. (j + 1) - 1 : list[i].v >= e.v
          BY <1>1, <3>4
        <4> QED BY <1>1, <3>2, <4>1
      <3> QED BY <1>1, <3>4, <3>5 DEF AtLeast
    <2> HIDE DEF new, U, V, e, t
    <2> QED BY <2>4, <2>5, <2>6 DEF new, U, V, e
  <1>7. e = None \/ (e.i \in T /\ e.v = x[e.i])
    BY <1>1, <1>2 DEF Top, Genuine
  <1> QED BY <1>5, <1>6, <1>7

\* The list of some tokens, merged with that of others, is the list of them all.
LEMMA MergeTop ==
  ASSUME NEW k \in Nat \ {0}, NEW x \in HighRows, NEW S \in SUBSET Ids, NEW T \in SUBSET Ids, S \cap T = {},
         NEW list, Top(x, list, k, S), NEW l, Top(x, l, k, T)
  PROVE  Top(x, OfferAll(list, l, 1 .. k), k, S \cup T)
  <1>1. list \in ListsOf(k) /\ l \in ListsOf(k) /\ l \in Seq(Entries) /\ Len(l) = k /\ DOMAIN l = 1 .. k
    BY ListsType DEF Top
  <1> DEFINE all == 1 .. k
  <1> HIDE DEF all
  <1>2a. PICK f \in [0 .. Len(l) -> ListsOf(k)] : Offering(f, list, l, all)
    BY <1>1, OfferSteps
  <1>2. /\ f \in [0 .. k -> ListsOf(k)] /\ f[0] = list
        /\ \A j \in 1 .. k : f[j] = Offer(f[j - 1], l[j])
        /\ OfferAll(list, l, 1 .. k) = f[k]
    BY <1>1, <1>2a DEF all, Offering
  <1> DEFINE Good == {j \in 0 .. k : Top(x, f[j], k, S \cup TokensOf(l, j)) /\ AtLeast(f[j], l, j)}
  <1>3. 0 \in Good
    <2>1. TokensOf(l, 0) = {}
      BY DEF TokensOf
    <2>2. S \cup TokensOf(l, 0) = S /\ AtLeast(f[0], l, 0)
      BY <2>1 DEF AtLeast
    <2>3. Top(x, f[0], k, S \cup TokensOf(l, 0))
      <3> HIDE DEF Good
      <3> QED BY <1>2, <2>2
    <2> QED BY <2>2, <2>3
  <1>4. ASSUME NEW j \in 0 .. k, j < k, j \in Good PROVE j + 1 \in Good
    <2>1. j + 1 \in 1 .. k /\ j + 1 \in 0 .. k /\ j \in 0 .. k - 1 /\ (j + 1) - 1 = j
      BY <1>4
    <2>2. f[j + 1] = Offer(f[j], l[j + 1])
      BY <1>2, <2>1
    <2>3. Top(x, f[j], k, S \cup TokensOf(l, j)) /\ AtLeast(f[j], l, j)
      BY <1>4
    <2> HIDE DEF Good
    <2>4. Top(x, f[j + 1], k, S \cup TokensOf(l, j + 1)) /\ AtLeast(f[j + 1], l, j + 1)
      <3> DEFINE now == f[j]
      <3> HIDE DEF now
      <3>1. Top(x, now, k, S \cup TokensOf(l, j)) /\ AtLeast(now, l, j)
        BY <2>3 DEF now
      <3>2. Top(x, Offer(now, l[j + 1]), k, S \cup TokensOf(l, j + 1)) /\ AtLeast(Offer(now, l[j + 1]), l, j + 1)
        BY <2>1, <3>1, MergeStep
      <3> QED BY <2>2, <3>2 DEF now
    <2> QED BY <2>1, <2>4 DEF Good
  <1>5. Top(x, f[k], k, S \cup TokensOf(l, k)) /\ AtLeast(f[k], l, k)
    <2> HIDE DEF Good
    <2>1. \A j \in 0 .. k : j \in Good
      BY <1>3, <1>4, UpTo
    <2>2. k \in Good
      BY <2>1
    <2> QED BY <2>2 DEF Good
  <1> DEFINE new == f[k]
  <1>6. new \in ListsOf(k) /\ \A j \in 1 .. k : new[j].v \in Int /\ l[j].v \in Int
    <2>1. new \in ListsOf(k)
      BY <1>2
    <2> HIDE DEF new
    <2> QED BY <1>1, <2>1, ListsType
  <1> HIDE DEF new
  <1>7. TokensOf(l, k) \in SUBSET T
    <2>1. \A t \in Ids, m \in 1 .. k : l[m].i = t => t \in T
      BY TopLow
    <2> QED BY <2>1 DEF TokensOf
  <1>8. Genuine(x, new, S \cup T)
    BY <1>5, <1>7 DEF Top, Genuine, new
  <1>9. Covers(x, new, k, S \cup T)
    <2> SUFFICES ASSUME NEW t \in S \cup T PROVE x[t] <= new[k].v \/ \E j \in 1 .. k : new[j].i = t
      BY DEF Covers
    <2>1. CASE t \in S \cup TokensOf(l, k)
      BY <1>5, <2>1 DEF Top, Covers, new
    <2>2. CASE t \in T /\ t \notin TokensOf(l, k)
      <3>1. x[t] <= l[k].v
        <4>1. ~ \E j \in 1 .. k : l[j].i = t
          BY <2>2 DEF TokensOf
        <4> QED BY <2>2, <4>1 DEF Top, Covers
      <3>2. new[k].v >= l[k].v /\ k \in 1 .. k
        BY <1>5 DEF AtLeast, new
      <3>3. x[t] \in Int
        BY RowType
      <3> QED BY <1>6, <3>1, <3>2, <3>3
    <2> QED BY <2>1, <2>2
  <1>10. Top(x, new, k, S \cup T)
    BY <1>5, <1>6, <1>8, <1>9 DEF Top, new
  <1> QED BY <1>2, <1>10 DEF new

\* One by one, every token is offered.
LEMMA SerialTop ==
  ASSUME NEW k \in Nat \ {0}, NEW x \in HighRows
  PROVE  Top(x, TopKSerial(x, k), k, Ids)
  <1> DEFINE entries == [i \in 1 .. Vocab |-> Entry(x, i - 1)]
             all == 1 .. Vocab
             list == NoneYet(k)
             Below(j) == {t \in Ids : t < j}
  <1>1. Vocab \in Nat /\ \A j \in 1 .. Vocab : j - 1 \in Ids
    BY SamplerAssumption DEF Ids
  <1>2. entries \in Seq(Entries) /\ Len(entries) = Vocab /\ \A j \in 1 .. Vocab : entries[j] = Entry(x, j - 1)
    <2>1. \A j \in 1 .. Vocab : Entry(x, j - 1) \in Entries
      BY <1>1, RowType
    <2> QED BY <1>1, <2>1
  <1>3. Top(x, list, k, {}) /\ list \in ListsOf(k)
    BY NoneYetTop
  <1>4. TopKSerial(x, k) = OfferAll(list, entries, all)
    BY DEF TopKSerial
  <1> HIDE DEF entries, all, list
  <1>5. PICK f \in [0 .. Len(entries) -> ListsOf(k)] : Offering(f, list, entries, all)
    BY <1>2, <1>3, OfferSteps
  <1>6. /\ f[0] = list /\ TopKSerial(x, k) = f[Vocab]
        /\ \A j \in 1 .. Vocab : f[j] = Offer(f[j - 1], Entry(x, j - 1))
    BY <1>2, <1>4, <1>5 DEF Offering, all
  <1> DEFINE Good == {j \in 0 .. Vocab : Top(x, f[j], k, Below(j))}
  <1>7. 0 \in Good
    <2>1. Below(0) = {} /\ 0 \in 0 .. Vocab
      BY <1>1 DEF Ids
    <2> HIDE DEF Below
    <2>2. Top(x, f[0], k, Below(0))
      BY <1>3, <1>6, <2>1
    <2> QED BY <2>1, <2>2
  <1>8. ASSUME NEW j \in 0 .. Vocab, j < Vocab, j \in Good PROVE j + 1 \in Good
    <2>1. j + 1 \in 1 .. Vocab /\ j + 1 \in 0 .. Vocab /\ (j + 1) - 1 = j /\ j \in Ids
      BY <1>1, <1>8 DEF Ids
    <2>2. Below(j) \in SUBSET Ids /\ j \notin Below(j) /\ Below(j + 1) = Below(j) \cup {j}
      BY <2>1 DEF Ids
    <2> DEFINE now == f[j]
               S == Below(j)
    <2>3. Top(x, now, k, S)
      BY <1>8
    <2>4. f[j + 1] = Offer(now, Entry(x, j))
      BY <1>6, <2>1
    <2> HIDE DEF now, S, Below
    <2>5. Top(x, Offer(now, Entry(x, j)), k, S \cup {j})
      BY <2>1, <2>2, <2>3, OfferTop DEF S
    <2>6. Top(x, f[j + 1], k, Below(j + 1))
      BY <2>2, <2>4, <2>5 DEF S
    <2> QED BY <2>1, <2>6
  <1>9. Top(x, f[Vocab], k, Below(Vocab))
    <2> HIDE DEF Good
    <2>1. \A j \in 0 .. Vocab : j \in Good
      BY <1>1, <1>7, <1>8, UpTo
    <2>2. Vocab \in Good
      BY <1>1, <2>1
    <2> QED BY <2>2 DEF Good
  <1>10. Below(Vocab) = Ids
    BY <1>1 DEF Ids
  <1> QED BY <1>6, <1>9, <1>10

\* The tokens of the first j lanes of a warp.
LaneIds(base, j) == {t \in Ids : base <= t /\ t < base + j}

\* What a lane has.
LEMMA LanesType ==
  ASSUME NEW x \in HighRows, NEW base \in Nat
  PROVE  /\ LaneEntries(x, base) \in Seq(Entries) /\ Len(LaneEntries(x, base)) = Warp /\ Warp \in Nat
         /\ \A l \in 1 .. Warp : base + l - 1 \in Ids => LaneEntries(x, base)[l] = Entry(x, base + l - 1)
         /\ \A l \in 1 .. Warp : base + l - 1 \notin Ids => LaneEntries(x, base)[l].v = MinusMax
  <1> DEFINE One(l) == IF base + l - 1 < Vocab THEN Entry(x, base + l - 1) ELSE [v |-> MinusMax, i |-> base + l - 1]
             lanes == LaneEntries(x, base)
  <1>1. Warp \in Nat /\ Vocab \in Nat
    BY SamplerAssumption
  <1>2. lanes = [l \in 1 .. Warp |-> One(l)]
    BY DEF LaneEntries
  <1>3. \A l \in 1 .. Warp : base + l - 1 \in Int /\ (base + l - 1 \in Ids <=> base + l - 1 < Vocab)
    BY <1>1 DEF Ids
  <1>4. ASSUME NEW l \in 1 .. Warp
        PROVE  /\ One(l) \in Entries
               /\ base + l - 1 \in Ids => One(l) = Entry(x, base + l - 1)
               /\ base + l - 1 \notin Ids => One(l).v = MinusMax
    <2>1. CASE base + l - 1 \in Ids
      <3>1. Entry(x, base + l - 1) \in Entries
        BY <2>1, RowType
      <3> QED BY <1>3, <2>1, <3>1
    <2>2. CASE base + l - 1 \notin Ids
      <3>1. One(l) = [v |-> MinusMax, i |-> base + l - 1]
        BY <1>3, <2>2
      <3> QED BY <1>3, <2>2, <3>1, NoneType DEF Entries
    <2> QED BY <2>1, <2>2
  <1> HIDE DEF One, lanes
  <1>5. lanes \in Seq(Entries) /\ Len(lanes) = Warp /\ \A l \in 1 .. Warp : lanes[l] = One(l)
    BY <1>1, <1>2, <1>4
  <1> QED BY <1>1, <1>4, <1>5 DEF lanes

\* A turn of a warp adds the tokens of its lanes: those that lose the vote
\* are not larger than the last of the list, which never falls.
LEMMA WarpTurnTop ==
  ASSUME NEW k \in Nat \ {0}, NEW x \in HighRows, NEW S \in SUBSET Ids, NEW list, Top(x, list, k, S),
         NEW base \in Nat, S \cap LaneIds(base, Warp) = {}
  PROVE  Top(x, WarpTurn(x, list, base), k, S \cup LaneIds(base, Warp))
  <1> DEFINE lanes == LaneEntries(x, base)
             ballot == {l \in 1 .. Warp : lanes[l].v > Last(list).v}
             U(j) == S \cup LaneIds(base, j)
  <1>1. list \in ListsOf(k) /\ Last(list) = list[k] /\ list[k].v \in Int /\ list[k].v >= MinusMax /\ k \in 1 .. k
    <2>1. list \in ListsOf(k) /\ k \in 1 .. k
      BY DEF Top
    <2>2. Len(list) = k /\ list[k].v \in Int
      BY <2>1, ListsType
    <2>3. list[k].v >= MinusMax
      BY <2>1, TopLow
    <2> QED BY <2>1, <2>2, <2>3 DEF Last
  <1>2. /\ lanes \in Seq(Entries) /\ Len(lanes) = Warp /\ Warp \in Nat
        /\ \A l \in 1 .. Warp : base + l - 1 \in Ids => lanes[l] = Entry(x, base + l - 1)
        /\ \A l \in 1 .. Warp : base + l - 1 \notin Ids => lanes[l].v = MinusMax
    BY LanesType
  <1>3. WarpTurn(x, list, base) = OfferAll(list, lanes, ballot)
    BY DEF WarpTurn
  <1> HIDE DEF lanes
  <1>4. \A l \in 1 .. Warp : l \in ballot <=> lanes[l].v > list[k].v
    BY <1>1
  <1> HIDE DEF ballot
  <1>5. PICK f \in [0 .. Len(lanes) -> ListsOf(k)] : Offering(f, list, lanes, ballot)
    BY <1>1, <1>2, OfferSteps
  <1>6. /\ f[0] = list /\ WarpTurn(x, list, base) = f[Warp] /\ \A j \in 0 .. Warp : f[j] \in ListsOf(k)
        /\ \A j \in 1 .. Warp : f[j] = IF j \in ballot THEN Offer(f[j - 1], lanes[j]) ELSE f[j - 1]
    BY <1>2, <1>3, <1>5 DEF Offering
  <1> DEFINE Good == {j \in 0 .. Warp : Top(x, f[j], k, U(j)) /\ list[k].v <= f[j][k].v}
  <1>7. 0 \in Good
    <2>1. LaneIds(base, 0) = {}
      BY DEF LaneIds, Ids
    <2>2. Top(x, f[0], k, U(0)) /\ list[k].v <= f[0][k].v
      <3>1. U(0) = S
        BY <2>1
      <3> HIDE DEF U
      <3> QED BY <1>1, <1>6, <3>1
    <2> QED BY <1>2, <2>2
  <1>8. ASSUME NEW j \in 0 .. Warp, j < Warp, j \in Good PROVE j + 1 \in Good
    <2> DEFINE t == base + j
               now == f[j]
               T == U(j)
    <2>1. j + 1 \in 1 .. Warp /\ j + 1 \in 0 .. Warp /\ (j + 1) - 1 = j /\ base + (j + 1) - 1 = t /\ t \in Int
      BY <1>2, <1>8
    <2>2. T \in SUBSET Ids /\ Top(x, now, k, T) /\ list[k].v <= now[k].v /\ now \in ListsOf(k)
      BY <1>6, <1>8 DEF LaneIds
    <2>2a. now[k].v \in Int
      <3> HIDE DEF now
      <3> QED BY <1>1, <2>2, ListsType
    <2>3. f[j + 1] = IF j + 1 \in ballot THEN Offer(now, lanes[j + 1]) ELSE now
      BY <1>6, <2>1
    <2>4. U(j + 1) = T \cup ({t} \cap Ids)
      <3>1. LaneIds(base, j + 1) = LaneIds(base, j) \cup ({t} \cap Ids)
        BY DEF LaneIds, Ids
      <3> QED BY <3>1
    <2>5. t \notin T
      <3>1. CASE t \in Ids
        <4>1. t \in LaneIds(base, Warp) /\ t \notin LaneIds(base, j)
          BY <1>2, <1>8, <3>1 DEF LaneIds, Ids
        <4> QED BY <4>1
      <3>2. CASE t \notin Ids
        BY <2>2, <3>2
      <3> QED BY <3>1, <3>2
    <2> DEFINE e == lanes[j + 1]
               new == f[j + 1]
    <2>6. e \in Entries /\ e.v \in Int
      <3>1. e \in Entries
        BY <1>2, <2>1
      <3> HIDE DEF e
      <3> QED BY <3>1 DEF Entries
    <2>6a. /\ t \in Ids => e = Entry(x, t)
           /\ t \notin Ids => e.v = MinusMax
           /\ j + 1 \in ballot <=> e.v > list[k].v
      BY <1>2, <1>4, <2>1
    <2>6b. new = IF j + 1 \in ballot THEN Offer(now, e) ELSE now
      BY <2>3
    <2> HIDE DEF t, now, e, T, U, new
    <2>7. CASE t \in Ids /\ j + 1 \in ballot
      <3>1. new = Offer(now, Entry(x, t)) /\ new = Offer(now, e) /\ U(j + 1) = T \cup {t}
        BY <2>4, <2>6a, <2>6b, <2>7
      <3>2. Top(x, Offer(now, Entry(x, t)), k, T \cup {t})
        BY <2>2, <2>5, <2>7, OfferTop
      <3>3. now[k].v <= new[k].v /\ new[k].v \in Int
        <4>1. Descends(now)
          BY <2>2 DEF Top
        <4>2. new \in ListsOf(k) /\ Rises(now, new, k)
          BY <2>2, <2>6, <3>1, <4>1, OfferRises
        <4> QED BY <1>1, <4>2, ListsType DEF Rises
      <3>4. list[k].v <= new[k].v
        BY <1>1, <2>2, <2>2a, <3>3
      <3>5. Top(x, new, k, U(j + 1))
        BY <3>1, <3>2
      <3> QED BY <2>1, <3>4, <3>5 DEF new
    <2>8. CASE t \in Ids /\ ~(j + 1 \in ballot)
      <3>1. new = now /\ U(j + 1) = T \cup {t}
        BY <2>4, <2>6b, <2>8
      <3>2. x[t] <= now[k].v
        <4>1. e.v = x[t] /\ e.v <= list[k].v
          BY <1>1, <2>6, <2>6a, <2>8, RowType
        <4> QED BY <1>1, <2>2, <2>2a, <2>6, <4>1
      <3>3. Top(x, new, k, T \cup {t})
        BY <2>2, <2>8, <3>1, <3>2, TopWithout
      <3> QED BY <2>1, <2>2, <3>1, <3>3 DEF new
    <2>9. CASE t \notin Ids
      <3>1. new = now /\ U(j + 1) = T
        <4>1. ~(e.v > list[k].v)
          BY <1>1, <2>6a, <2>9, NoneType
        <4> QED BY <2>4, <2>6a, <2>6b, <2>9, <4>1
      <3> QED BY <2>1, <2>2, <3>1 DEF new
    <2> QED BY <2>7, <2>8, <2>9
  <1>9. Top(x, f[Warp], k, U(Warp))
    <2> HIDE DEF Good
    <2>1. \A j \in 0 .. Warp : j \in Good
      BY <1>2, <1>7, <1>8, UpTo
    <2>2. Warp \in Good
      BY <1>2, <2>1
    <2> QED BY <2>2 DEF Good
  <1> QED BY <1>6, <1>9

\* Offers keep the length of a list.
LEMMA OfferAllType ==
  ASSUME NEW k \in Nat \ {0}, NEW list \in ListsOf(k), NEW entries \in Seq(Entries), NEW ballot
  PROVE  OfferAll(list, entries, ballot) \in ListsOf(k)
  <1>1. PICK f \in [0 .. Len(entries) -> ListsOf(k)] : Offering(f, list, entries, ballot)
    BY OfferSteps
  <1>2. Len(entries) \in 0 .. Len(entries)
    OBVIOUS
  <1> QED BY <1>1, <1>2 DEF Offering

\* Where the turns of a warp start, and the tokens of the first n of them.
Bases(w) == Steps(w * Warp, Vocab, Warps * Warp)
Visited(w, n) == {t \in Ids : \E m \in 1 .. n : t \in LaneIds(Bases(w)[m], Warp)}
WarpOf(t) == (t \div Warp) % Warps

\* The turns of a warp start a stride apart, and reach to the end of the vocabulary.
LEMMA BasesType ==
  ASSUME NEW w \in 0 .. Warps - 1
  PROVE  /\ Bases(w) \in Seq(Int) /\ Len(Bases(w)) \in Nat
         /\ \A m \in 1 .. Len(Bases(w)) : Bases(w)[m] \in Nat /\ Bases(w)[m] = w * Warp + (m - 1) * (Warps * Warp)
         /\ \A m \in 1 .. Len(Bases(w)), n \in 1 .. Len(Bases(w)) : m < n => Bases(w)[m] + Warp <= Bases(w)[n]
         /\ \A t \in w * Warp .. Vocab - 1 :
              \E m \in 1 .. Len(Bases(w)) : Bases(w)[m] <= t /\ t < Bases(w)[m] + Warps * Warp
  <1> DEFINE P == Warps * Warp
             lo == w * Warp
             s == Bases(w)
  <1>1. Warp \in Nat /\ Warp > 0 /\ Warps \in Nat /\ Warps > 0 /\ Vocab \in Int /\ w \in Nat
    BY SamplerAssumption
  <1>2. P \in Nat /\ P >= Warp /\ lo \in Nat
    <2>1. Warp * 1 <= Warp * Warps /\ Warp * Warps \in Int /\ Warp * Warps = P
      BY <1>1, TimesOrder
    <2> QED BY <1>1, <2>1
  <1> HIDE DEF P, lo
  <1>3. P \in Positive
    BY <1>1, <1>2 DEF Positive
  <1>4. s = Steps(lo, Vocab, P)
    BY DEF Bases, lo, P
  <1> HIDE DEF s
  <1>5. Stepped(s, lo, Vocab, P)
    BY <1>1, <1>2, <1>3, <1>4, StepsStep
  <1>6. \A m \in 1 .. Len(s) : s[m] \in Nat
    BY <1>2, <1>5 DEF Stepped
  <1>7. \A m \in 1 .. Len(s), n \in 1 .. Len(s) : m < n => s[m] + Warp <= s[n]
    <2> TAKE m \in 1 .. Len(s), n \in 1 .. Len(s)
    <2>1. m < n => s[m] + P <= s[n]
      BY <1>5 DEF Stepped
    <2>2. s[m] \in Nat /\ s[n] \in Nat
      BY <1>6
    <2> QED BY <1>1, <1>2, <2>1, <2>2
  <1> QED BY <1>5, <1>6, <1>7 DEF Stepped, s, lo, P

\* Those of a turn of warp w.
LEMMA TurnWarp ==
  ASSUME NEW w \in 0 .. Warps - 1, NEW a \in Nat, NEW t \in Int,
         w * Warp + a * (Warps * Warp) <= t, t < w * Warp + a * (Warps * Warp) + Warp
  PROVE  WarpOf(t) = w
  <1> DEFINE base == w * Warp + a * (Warps * Warp)
             Q == Warps * a + w
  <1>1. Warp \in Nat /\ Warp > 0 /\ Warps \in Nat /\ Warps > 0 /\ w \in Nat /\ Warp \in Positive /\ Warps \in Positive
    BY SamplerAssumption DEF Positive
  <1>2. base = Warp * Q /\ Q \in Int /\ Q \in Nat
    <2>1. a * (Warps * Warp) = Warp * (Warps * a)
      BY <1>1
    <2>2. Warps * a \in Nat
      BY <1>1
    <2> DEFINE W == Warps * a
    <2> HIDE DEF W
    <2>3. W \in Nat /\ a * (Warps * Warp) = Warp * W /\ base = w * Warp + a * (Warps * Warp) /\ Q = W + w
      BY <2>1, <2>2 DEF W
    <2>4. Warp * (W + w) = Warp * W + w * Warp
      BY <1>1, <2>3
    <2> QED BY <1>1, <2>3, <2>4
  <1>3. Q % Warps = w
    BY <1>1, Quotient
  <1> HIDE DEF Q, base
  <1>4. t - base \in 0 .. Warp - 1 /\ base \in Int
    <2>1. base \in Int
      BY <1>1, <1>2
    <2> QED BY <1>1, <2>1 DEF base
  <1>5. (Warp * Q + (t - base)) \div Warp = Q
    BY <1>1, <1>2, <1>4, Quotient
  <1>6. Warp * Q + (t - base) = t
    BY <1>2, <1>4
  <1> QED BY <1>3, <1>5, <1>6 DEF WarpOf

\* A warp takes the tokens of its turns, each of them once.
LEMMA TurnedAll ==
  ASSUME NEW w \in 0 .. Warps - 1
  PROVE  Visited(w, Len(Bases(w))) = {t \in Ids : WarpOf(t) = w}
  <1> DEFINE n == Len(Bases(w))
             P == Warps * Warp
  <1>1. Warp \in Nat /\ Warp > 0 /\ Warps \in Nat /\ Warps > 0 /\ w \in Nat /\ Vocab \in Nat
        /\ Warp \in Positive /\ Warps \in Positive
    BY SamplerAssumption DEF Positive
  <1>1a. P \in Nat /\ P >= Warp /\ w * Warp \in Nat /\ n \in Nat
    <2>1. Warp * 1 <= Warp * Warps /\ Warp * Warps \in Int /\ Warp * Warps = P
      BY <1>1, TimesOrder
    <2> QED BY <1>1, <2>1, BasesType
  <1>2. ASSUME NEW t \in Ids, NEW m \in 1 .. n, t \in LaneIds(Bases(w)[m], Warp) PROVE WarpOf(t) = w
    <2>1. Bases(w)[m] = w * Warp + (m - 1) * (Warps * Warp) /\ m - 1 \in Nat /\ t \in Int
      BY BasesType DEF Ids
    <2>2. Bases(w)[m] <= t /\ t < Bases(w)[m] + Warp
      BY <1>2 DEF LaneIds
    <2> QED BY <2>1, <2>2, TurnWarp
  <1>3. ASSUME NEW t \in Ids, WarpOf(t) = w PROVE \E m \in 1 .. n : t \in LaneIds(Bases(w)[m], Warp)
    <2> DEFINE q == t \div Warp
               r == t % Warp
               a == q \div Warps
    <2>1. t \in Nat /\ t < Vocab
      BY <1>1 DEF Ids
    <2>2. t = Warp * q + r /\ r \in 0 .. Warp - 1 /\ q \in Nat
      BY <1>1, <2>1, DivMod
    <2>3. q % Warps = w
      BY <1>3 DEF WarpOf
    <2> HIDE DEF q, r
    <2>4. q = Warps * a + w /\ a \in Nat
      <3>1. q \in Int /\ q \in Nat
        BY <2>2
      <3>2. q = Warps * (q \div Warps) + (q % Warps)
        BY <1>1, <3>1, DivMod
      <3>3. q \div Warps \in Nat
        BY <1>1, <3>1, DivMod
      <3> QED BY <2>3, <3>2, <3>3
    <2> HIDE DEF a
    <2>5. Warp * q = P * a + w * Warp /\ P * a \in Nat
      <3>1. Warp * (Warps * a) = P * a
        BY <1>1, <2>4
      <3> DEFINE W == Warps * a
      <3>2. W \in Nat
        BY <1>1, <2>4
      <3>3. q = W + w /\ Warp * W = P * a
        BY <2>4, <3>1
      <3> HIDE DEF W
      <3>4. Warp * q = Warp * W + w * Warp
        BY <1>1, <3>2, <3>3
      <3>5. P * a \in Nat
        BY <1>1a, <2>4
      <3> QED BY <3>3, <3>4, <3>5
    <2>6. t = P * a + w * Warp + r
      BY <2>2, <2>5
    <2>7. t \in w * Warp .. Vocab - 1
      BY <1>1, <1>1a, <2>1, <2>2, <2>5, <2>6
    <2>8. PICK m \in 1 .. n : Bases(w)[m] <= t /\ t < Bases(w)[m] + P
      BY <2>7, BasesType
    <2> DEFINE b == m - 1
    <2>9. b \in Nat /\ Bases(w)[m] = w * Warp + P * b /\ Bases(w)[m] \in Nat
      <3>1. m - 1 \in Nat /\ Bases(w)[m] = w * Warp + (m - 1) * P /\ Bases(w)[m] \in Nat
        BY <1>1a, BasesType
      <3> HIDE DEF P
      <3>2. (m - 1) * P = P * (m - 1)
        BY <1>1a, <3>1
      <3> QED BY <3>1, <3>2
    <2> HIDE DEF P, b
    <2> DEFINE pa == P * a
               pb == P * b
               first == w * Warp
    <2>12. pa \in Nat /\ pb \in Int /\ first \in Nat /\ P \in Nat /\ r \in Nat /\ r < P /\ t \in Int
      BY <1>1, <1>1a, <2>1, <2>2, <2>5, <2>9
    <2>12a. t = pa + first + r /\ first + pb <= t /\ t < first + pb + P
      BY <2>6, <2>8, <2>9
    <2>13. pa < pb + P /\ pb < pa + P /\ pa \in Nat /\ pb \in Int /\ P \in Nat
      <3> HIDE DEF pa, pb, first
      <3> QED BY <2>12, <2>12a
    <2> HIDE DEF pa, pb, first
    <2>10. a = b
      <3>1. CASE a < b
        <4>1. a + 1 <= b /\ a + 1 \in Int /\ b \in Int /\ a \in Int
          BY <2>4, <2>9, <3>1
        <4>2. P * (a + 1) <= P * b
          BY <1>1a, <4>1, TimesOrder
        <4>3. P * (a + 1) = P * a + P
          BY <1>1a, <4>1
        <4> QED BY <2>13, <4>2, <4>3 DEF pa, pb
      <3>2. CASE b < a
        <4>1. b + 1 <= a /\ b + 1 \in Int /\ a \in Int /\ b \in Int
          BY <2>4, <2>9, <3>2
        <4>2. P * (b + 1) <= P * a
          BY <1>1a, <4>1, TimesOrder
        <4>3. P * (b + 1) = P * b + P
          BY <1>1a, <4>1
        <4> QED BY <2>13, <4>2, <4>3 DEF pa, pb
      <3> QED BY <2>4, <2>9, <3>1, <3>2
    <2>11. t < Bases(w)[m] + Warp
      BY <1>1, <1>1a, <2>2, <2>5, <2>6, <2>9, <2>10
    <2> QED BY <2>8, <2>11 DEF LaneIds
  <1> HIDE DEF n
  <1>4. \A t \in Ids : (\E m \in 1 .. n : t \in LaneIds(Bases(w)[m], Warp)) <=> WarpOf(t) = w
    BY <1>2, <1>3
  <1> QED BY <1>4 DEF Visited, n

\* f[n] is the list of the warp after n turns.
Turning(f, x, k, w) ==
  /\ f[0] = NoneYet(k)
  /\ \A m \in 1 .. Len(Bases(w)) : f[m] = WarpTurn(x, f[m - 1], Bases(w)[m])
  /\ WarpList(x, k, w) = f[Len(Bases(w))]

\* A warp takes its turns one by one.
LEMMA WarpSteps ==
  ASSUME NEW k \in Nat \ {0}, NEW x \in HighRows, NEW w \in 0 .. Warps - 1
  PROVE  \E f \in [0 .. Len(Bases(w)) -> ListsOf(k)] : Turning(f, x, k, w)
  <1> DEFINE n == Len(Bases(w))
             D == ListsOf(k)
             One(a, m) == WarpTurn(x, a, Bases(w)[m])
             st == [y \in D \X (1 .. n) |-> One(y[1], y[2])]
             Value(g, m) == IF m = 0 THEN NoneYet(k) ELSE One(g[m - 1], m)
             Is(g) == g = [m \in 0 .. n |-> Value(g, m)]
  <1>1. n \in Nat /\ NoneYet(k) \in D /\ \A a \in D, m \in 1 .. n : One(a, m) \in D
    <2>1. ASSUME NEW a \in D, NEW m \in 1 .. n PROVE One(a, m) \in D
      <3>1. Bases(w)[m] \in Nat
        BY BasesType
      <3>2. LaneEntries(x, Bases(w)[m]) \in Seq(Entries)
        BY <3>1, LanesType
      <3>3. WarpTurn(x, a, Bases(w)[m]) \in ListsOf(k)
        BY <2>1, <3>2, OfferAllType DEF WarpTurn
      <3> QED BY <3>3
    <2> HIDE DEF One
    <2> QED BY <2>1, BasesType, NoneYetTop
  <1>2. WarpList(x, k, w) = (CHOOSE g : Is(g))[n]
    BY DEF WarpList, Bases
  <1> HIDE DEF n, D, One
  <1>3. st \in [D \X (1 .. n) -> D] /\ \A a \in D, m \in 1 .. n : st[<<a, m>>] = One(a, m)
    BY <1>1
  <1> HIDE DEF st
  <1>4. PICK f \in [0 .. n -> D] : Stepwise(f, st, NoneYet(k), n)
    BY <1>1, <1>3, StepsExist
  <1>5. f[0] = NoneYet(k) /\ \A m \in 1 .. n : f[m] = One(f[m - 1], m)
    <2>0. \A m \in 1 .. n : m - 1 \in 0 .. n
      BY <1>1
    <2>1. \A m \in 1 .. n : f[m - 1] \in D /\ f[m] = st[<<f[m - 1], m>>]
      BY <1>4, <2>0 DEF Stepwise
    <2> QED BY <1>3, <1>4, <2>1 DEF Stepwise
  <1>6. Is(f)
    <2>1. \A m \in 0 .. n : f[m] = Value(f, m)
      BY <1>1, <1>5
    <2> HIDE DEF Value
    <2> QED BY <1>4, <2>1
  <1> DEFINE it == CHOOSE g : Is(g)
  <1>7. Is(it)
    <2> HIDE DEF Is
    <2> QED BY <1>6
  <1> HIDE DEF it
  <1>8. \A m \in 0 .. n : it[m] = Value(it, m)
    <2>1. it = [m \in 0 .. n |-> Value(it, m)]
      BY <1>7
    <2> HIDE DEF Value
    <2> QED BY <2>1
  <1>9. it[n] = f[n]
    <2> DEFINE Good == {j \in 0 .. n : it[j] = f[j]}
    <2>1. 0 \in Good
      BY <1>1, <1>5, <1>8
    <2>2. ASSUME NEW m \in 0 .. n, m < n, m \in Good PROVE m + 1 \in Good
      <3>1. m + 1 \in 1 .. n /\ m + 1 \in 0 .. n /\ (m + 1) - 1 = m /\ m + 1 # 0
        BY <1>1, <2>2
      <3>2. it[m + 1] = One(it[m], m + 1) /\ f[m + 1] = One(f[m], m + 1) /\ it[m] = f[m]
        BY <1>5, <1>8, <2>2, <3>1
      <3> QED BY <3>1, <3>2
    <2> HIDE DEF Good
    <2>3. \A m \in 0 .. n : m \in Good
      BY <1>1, <2>1, <2>2, UpTo
    <2>4. n \in Good
      BY <1>1, <2>3
    <2> QED BY <2>4 DEF Good
  <1>10. WarpList(x, k, w) = f[n]
    BY <1>2, <1>9 DEF it
  <1> QED BY <1>4, <1>5, <1>10 DEF n, D, One, Turning


\* The list of a warp is that of its tokens.
LEMMA WarpListTop ==
  ASSUME NEW k \in Nat \ {0}, NEW x \in HighRows, NEW w \in 0 .. Warps - 1
  PROVE  Top(x, WarpList(x, k, w), k, {t \in Ids : WarpOf(t) = w})
  <1> DEFINE n == Len(Bases(w))
  <1>1. PICK f \in [0 .. n -> ListsOf(k)] : Turning(f, x, k, w)
    BY WarpSteps
  <1> DEFINE Good == {m \in 0 .. n : Top(x, f[m], k, Visited(w, m))}
  <1>2. n \in Nat /\ f[0] = NoneYet(k) /\ WarpList(x, k, w) = f[n]
    BY <1>1, BasesType DEF Turning
  <1>3. 0 \in Good
    <2>1. Visited(w, 0) = {}
      BY DEF Visited
    <2>2. Top(x, f[0], k, Visited(w, 0))
      BY <1>2, <2>1, NoneYetTop
    <2> QED BY <1>2, <2>2
  <1>4. ASSUME NEW m \in 0 .. n, m < n, m \in Good PROVE m + 1 \in Good
    <2> DEFINE base == Bases(w)[m + 1]
               S == Visited(w, m)
               now == f[m]
    <2>1. m + 1 \in 1 .. n /\ m + 1 \in 0 .. n /\ (m + 1) - 1 = m
      BY <1>2, <1>4
    <2>2. f[m + 1] = WarpTurn(x, now, base)
      BY <1>1, <2>1 DEF Turning
    <2>3. base \in Nat /\ S \in SUBSET Ids /\ Top(x, now, k, S)
      BY <1>4, <2>1, BasesType DEF Visited
    <2>4. Visited(w, m + 1) = S \cup LaneIds(base, Warp)
      <3>1. \A t : (\E l \in 1 .. m + 1 : t \in LaneIds(Bases(w)[l], Warp))
                    <=> (\E l \in 1 .. m : t \in LaneIds(Bases(w)[l], Warp)) \/ t \in LaneIds(base, Warp)
        <4>1. \A l \in 1 .. m + 1 : l \in 1 .. m \/ l = m + 1
          OBVIOUS
        <4>2. \A l \in 1 .. m : l \in 1 .. m + 1
          OBVIOUS
        <4>3. m + 1 \in 1 .. m + 1
          OBVIOUS
        <4> QED BY <4>1, <4>2, <4>3
      <3>2. LaneIds(base, Warp) \in SUBSET Ids
        BY DEF LaneIds
      <3> QED BY <3>1, <3>2 DEF Visited
    <2>5. S \cap LaneIds(base, Warp) = {}
      <3> SUFFICES ASSUME NEW t \in Ids, NEW l \in 1 .. m, t \in LaneIds(Bases(w)[l], Warp), t \in LaneIds(base, Warp) PROVE FALSE
        BY DEF Visited
      <3>1. l \in 1 .. n /\ l < m + 1
        BY <2>1
      <3>2. Bases(w)[l] + Warp <= Bases(w)[m + 1] /\ Bases(w)[l] \in Nat
        BY <2>1, <3>1, BasesType
      <3>3. t < Bases(w)[l] + Warp /\ base <= t /\ t \in Int /\ Warp \in Int
        BY SamplerAssumption DEF LaneIds, Ids
      <3> QED BY <2>3, <3>2, <3>3
    <2> HIDE DEF base, S, now
    <2>6. Top(x, WarpTurn(x, now, base), k, S \cup LaneIds(base, Warp))
      BY <2>3, <2>5, WarpTurnTop
    <2> QED BY <2>1, <2>2, <2>4, <2>6
  <1>5. Top(x, f[n], k, Visited(w, n))
    <2> HIDE DEF Good
    <2>1. \A m \in 0 .. n : m \in Good
      BY <1>2, <1>3, <1>4, UpTo
    <2>2. n \in Good
      BY <1>2, <2>1
    <2> QED BY <2>2 DEF Good
  <1> QED BY <1>2, <1>5, TurnedAll


\* f[w] is the list of the first w warps.
Merging(f, x, k) ==
  /\ f[0] = NoneYet(k)
  /\ \A w \in 1 .. Warps : f[w] = OfferAll(f[w - 1], WarpList(x, k, w - 1), 1 .. k)
  /\ TopKWarps(x, k) = f[Warps]

\* Thread 0 merges the lists of the warps one by one.
LEMMA MergedSteps ==
  ASSUME NEW k \in Nat \ {0}, NEW x \in HighRows
  PROVE  \E f \in [0 .. Warps -> ListsOf(k)] : Merging(f, x, k)
  <1> DEFINE n == Warps
             D == ListsOf(k)
             One(a, w) == OfferAll(a, WarpList(x, k, w - 1), 1 .. k)
             st == [y \in D \X (1 .. n) |-> One(y[1], y[2])]
             Value(g, w) == IF w = 0 THEN NoneYet(k) ELSE One(g[w - 1], w)
             Is(g) == g = [w \in 0 .. n |-> Value(g, w)]
  <1>1. n \in Nat /\ NoneYet(k) \in D /\ \A a \in D, w \in 1 .. n : One(a, w) \in D
    <2>1. ASSUME NEW a \in D, NEW w \in 1 .. n PROVE One(a, w) \in D
      <3>1. w - 1 \in 0 .. Warps - 1
        BY SamplerAssumption
      <3>2. WarpList(x, k, w - 1) \in Seq(Entries)
        BY <3>1, WarpListTop DEF Top, ListsOf
      <3> DEFINE l == WarpList(x, k, w - 1)
                 all == 1 .. k
      <3>3. a \in ListsOf(k) /\ l \in Seq(Entries)
        BY <2>1, <3>2
      <3> HIDE DEF l, all
      <3>4. OfferAll(a, l, all) \in ListsOf(k)
        BY <3>3, OfferAllType
      <3> QED BY <3>4 DEF l, all
    <2> HIDE DEF One
    <2> QED BY <2>1, NoneYetTop, SamplerAssumption
  <1>2. TopKWarps(x, k) = (CHOOSE g : Is(g))[n]
    BY DEF TopKWarps
  <1> HIDE DEF n, D, One
  <1>3. st \in [D \X (1 .. n) -> D] /\ \A a \in D, w \in 1 .. n : st[<<a, w>>] = One(a, w)
    BY <1>1
  <1> HIDE DEF st
  <1>4. PICK f \in [0 .. n -> D] : Stepwise(f, st, NoneYet(k), n)
    BY <1>1, <1>3, StepsExist
  <1>5. f[0] = NoneYet(k) /\ \A w \in 1 .. n : f[w] = One(f[w - 1], w)
    <2>0. \A w \in 1 .. n : w - 1 \in 0 .. n
      BY <1>1
    <2>1. \A w \in 1 .. n : f[w - 1] \in D /\ f[w] = st[<<f[w - 1], w>>]
      BY <1>4, <2>0 DEF Stepwise
    <2> QED BY <1>3, <1>4, <2>1 DEF Stepwise
  <1>6. Is(f)
    <2>1. \A w \in 0 .. n : f[w] = Value(f, w)
      BY <1>1, <1>5
    <2> HIDE DEF Value
    <2> QED BY <1>4, <2>1
  <1> DEFINE it == CHOOSE g : Is(g)
  <1>7. Is(it)
    <2> HIDE DEF Is
    <2> QED BY <1>6
  <1> HIDE DEF it
  <1>8. \A w \in 0 .. n : it[w] = Value(it, w)
    <2>1. it = [w \in 0 .. n |-> Value(it, w)]
      BY <1>7
    <2> HIDE DEF Value
    <2> QED BY <2>1
  <1>9. it[n] = f[n]
    <2> DEFINE Good == {j \in 0 .. n : it[j] = f[j]}
    <2>1. 0 \in Good
      BY <1>1, <1>5, <1>8
    <2>2. ASSUME NEW m \in 0 .. n, m < n, m \in Good PROVE m + 1 \in Good
      <3>1. m + 1 \in 1 .. n /\ m + 1 \in 0 .. n /\ (m + 1) - 1 = m /\ m + 1 # 0
        BY <1>1, <2>2
      <3>2. it[m + 1] = One(it[m], m + 1) /\ f[m + 1] = One(f[m], m + 1) /\ it[m] = f[m]
        BY <1>5, <1>8, <2>2, <3>1
      <3> QED BY <3>1, <3>2
    <2> HIDE DEF Good
    <2>3. \A m \in 0 .. n : m \in Good
      BY <1>1, <2>1, <2>2, UpTo
    <2>4. n \in Good
      BY <1>1, <2>3
    <2> QED BY <2>4 DEF Good
  <1>10. TopKWarps(x, k) = f[n]
    BY <1>2, <1>9 DEF it
  <1> QED BY <1>4, <1>5, <1>10 DEF n, D, One, Merging


\* The lists of all the warps, merged, are the list of the vocabulary.
LEMMA TopKWarpsTop ==
  ASSUME NEW k \in Nat \ {0}, NEW x \in HighRows
  PROVE  Top(x, TopKWarps(x, k), k, Ids)
  <1> DEFINE Of(n) == {t \in Ids : WarpOf(t) < n}
  <1>1. PICK f \in [0 .. Warps -> ListsOf(k)] : Merging(f, x, k)
    BY MergedSteps
  <1> DEFINE Good == {w \in 0 .. Warps : Top(x, f[w], k, Of(w))}
  <1>2. Warps \in Nat /\ f[0] = NoneYet(k) /\ TopKWarps(x, k) = f[Warps]
    BY <1>1, SamplerAssumption DEF Merging
  <1>3. \A t \in Ids : WarpOf(t) \in 0 .. Warps - 1
    <2> TAKE t \in Ids
    <2>1. t \in Int /\ Warp \in Positive /\ Warps \in Positive
      BY SamplerAssumption DEF Positive, Ids
    <2>2. t \div Warp \in Int
      BY <2>1, DivMod
    <2> QED BY <2>1, <2>2, DivMod DEF WarpOf
  <1>4. 0 \in Good
    <2>1. Of(0) = {}
      BY <1>3
    <2>2. Top(x, f[0], k, Of(0))
      BY <1>2, <2>1, NoneYetTop
    <2> QED BY <1>2, <2>2
  <1>5. ASSUME NEW w \in 0 .. Warps, w < Warps, w \in Good PROVE w + 1 \in Good
    <2> DEFINE S == Of(w)
               T == {t \in Ids : WarpOf(t) = w}
               now == f[w]
               l == WarpList(x, k, w)
    <2>1. w + 1 \in 1 .. Warps /\ w + 1 \in 0 .. Warps /\ (w + 1) - 1 = w /\ w \in 0 .. Warps - 1
      BY <1>2, <1>5
    <2>2. f[w + 1] = OfferAll(now, l, 1 .. k)
      <3>1. f[w + 1] = OfferAll(f[(w + 1) - 1], WarpList(x, k, (w + 1) - 1), 1 .. k)
        BY <1>1, <2>1 DEF Merging
      <3> QED BY <2>1, <3>1
    <2>3. Top(x, l, k, T) /\ Top(x, now, k, S)
      BY <1>5, <2>1, WarpListTop
    <2>4. S \in SUBSET Ids /\ T \in SUBSET Ids /\ S \cap T = {} /\ Of(w + 1) = S \cup T
      <3>1. \A t \in Ids : WarpOf(t) < w + 1 <=> WarpOf(t) < w \/ WarpOf(t) = w
        BY <1>3, <2>1
      <3>2. \A t \in Ids : ~(WarpOf(t) < w /\ WarpOf(t) = w)
        BY <1>3, <2>1
      <3> QED BY <3>1, <3>2
    <2> HIDE DEF S, T, now, l, Of
    <2>5. Top(x, OfferAll(now, l, 1 .. k), k, S \cup T)
      BY <2>3, <2>4, MergeTop
    <2> QED BY <2>1, <2>2, <2>4, <2>5
  <1>6. Top(x, f[Warps], k, Of(Warps))
    <2> HIDE DEF Good
    <2>1. \A w \in 0 .. Warps : w \in Good
      BY <1>2, <1>4, <1>5, UpTo
    <2>2. Warps \in Good
      BY <1>2, <2>1
    <2> QED BY <2>2 DEF Good
  <1>7. Of(Warps) = Ids
    BY <1>2, <1>3
  <1> QED BY <1>2, <1>6, <1>7

\* Both kernels leave the K largest of the vocabulary.
LEMMA TopKTop ==
  ASSUME NEW k \in Nat \ {0}, NEW x \in HighRows
  PROVE  Top(x, TopK(x, k), k, Ids)
  BY TopKWarpsTop, SerialTop DEF TopK
-----------------------------------------------------------------------------
(* A list of the whole vocabulary has as many tokens as it can.             *)

\* The places of a list, and the tokens, are as many as they are counted.
LEMMA FewerPlaces ==
  ASSUME NEW n \in Nat, NEW list, \A i \in 1 .. n : list[i].i \in Ids,
         \A i \in 1 .. n, j \in 1 .. n : i < j => list[i].i # list[j].i
  PROVE  n <= Vocab
  <1> DEFINE g == [m \in 1 .. n |-> list[m].i]
  <1>1. g \in [1 .. n -> Ids] /\ \A m \in 1 .. n : g[m] = list[m].i
    OBVIOUS
  <1> HIDE DEF g
  <1>2. \A a \in 1 .. n, b \in 1 .. n : g[a] = g[b] => a = b
    <2> TAKE a \in 1 .. n, b \in 1 .. n
    <2>1. a < b \/ b < a \/ a = b
      OBVIOUS
    <2> QED BY <1>1, <2>1
  <1>3. g \in Injection(1 .. n, Ids)
    BY <1>1, <1>2 DEF Injection, IsInjective
  <1>4. IsFiniteSet(Ids) /\ Cardinality(Ids) = Vocab
    BY FS_Interval, SamplerAssumption DEF Ids
  <1>5. Cardinality(1 .. n) <= Cardinality(Ids)
    BY <1>3, <1>4, FS_Injection
  <1>6. Cardinality(1 .. n) = n
    BY FS_Interval
  <1> QED BY <1>4, <1>5, <1>6

\* A list that has every token has as many places as the vocabulary.
LEMMA FewerTokens ==
  ASSUME NEW n \in Nat, NEW list, \A t \in Ids : \E m \in 1 .. n : list[m].i = t
  PROVE  Vocab <= n
  <1> DEFINE g == [t \in Ids |-> CHOOSE m \in 1 .. n : list[m].i = t]
  <1>1. \A t \in Ids : g[t] \in 1 .. n /\ list[g[t]].i = t
    OBVIOUS
  <1>2. g \in [Ids -> 1 .. n]
    <2>1. g = [t \in Ids |-> g[t]]
      OBVIOUS
    <2> HIDE DEF g
    <2> QED BY <1>1, <2>1
  <1> HIDE DEF g
  <1>3. g \in Injection(Ids, 1 .. n)
    BY <1>1, <1>2 DEF Injection, IsInjective
  <1>4. IsFiniteSet(1 .. n) /\ Cardinality(1 .. n) = n
    BY FS_Interval
  <1>5. Cardinality(Ids) <= Cardinality(1 .. n)
    BY <1>3, <1>4, FS_Injection
  <1>6. Cardinality(Ids) = Vocab
    BY FS_Interval, SamplerAssumption DEF Ids
  <1> QED BY <1>4, <1>5, <1>6

\* A place has a token as long as there are tokens.
LEMMA TopFull ==
  ASSUME NEW k \in Nat \ {0}, NEW x \in HighRows, NEW list, Top(x, list, k, Ids), NEW j \in 1 .. k
  PROVE  /\ j <= Vocab => list[j].i \in Ids /\ list[j].v = x[list[j].i]
         /\ j > Vocab => list[j] = None
  <1>1. list \in ListsOf(k) /\ DOMAIN list = 1 .. k /\ Vocab \in Nat /\ \A m \in 1 .. k : list[m].v \in Int
    BY ListsType, SamplerAssumption DEF Top
  <1>2. \A m \in 1 .. k : list[m].i \in Ids => list[m].v = x[list[m].i] /\ list[m].v > MinusMax
    BY TopLow, RowType
  <1>3. \A m \in 1 .. k : list[m] = None \/ list[m].i \in Ids
    BY <1>1 DEF Top, Genuine
  <1>4. \A m \in 1 .. k, n \in 1 .. k : m <= n /\ list[n].i \in Ids => list[m].i \in Ids
    <2> SUFFICES ASSUME NEW m \in 1 .. k, NEW n \in 1 .. k, m < n, list[n].i \in Ids PROVE list[m].i \in Ids
      BY <1>1
    <2>1. list[m].v >= list[n].v /\ list[n].v > MinusMax
      BY <1>1, <1>2 DEF Top, Descends
    <2>2. list[m] # None
      BY <1>1, <2>1, NoneType
    <2> QED BY <1>3, <2>2
  <1>5. ASSUME list[j].i \in Ids PROVE j <= Vocab
    <2>1. \A m \in 1 .. j : m \in 1 .. k /\ m <= j
      OBVIOUS
    <2>2. \A m \in 1 .. j : list[m].i \in Ids
      BY <1>4, <1>5, <2>1
    <2>3. \A m \in 1 .. j, n \in 1 .. j : m < n => list[m].i # list[n].i
      BY <1>1, <2>1, <2>2 DEF Top, Distinct
    <2> QED BY <2>2, <2>3, FewerPlaces
  <1>6. ASSUME list[j].i \notin Ids PROVE j > Vocab
    <2>1. k \in 1 .. k /\ list[k] = None
      BY <1>3, <1>4, <1>6
    <2>2. ASSUME NEW t \in Ids PROVE \E m \in 1 .. j - 1 : list[m].i = t
      <3>1. ~(x[t] <= list[k].v)
        BY <2>1, NoneType, RowType
      <3>2. PICK m \in 1 .. k : list[m].i = t
        BY <3>1 DEF Top, Covers
      <3>3. ~(j <= m)
        BY <1>4, <1>6, <3>2
      <3>4. m \in 1 .. j - 1
        BY <3>3
      <3> QED BY <3>2, <3>4
    <2>3. Vocab <= j - 1
      <3>1. j - 1 \in Nat
        OBVIOUS
      <3> DEFINE n == j - 1
      <3> HIDE DEF n
      <3>2. \A t \in Ids : \E m \in 1 .. n : list[m].i = t
        BY <2>2 DEF n
      <3>3. Vocab <= n
        BY <3>1, <3>2, FewerTokens DEF n
      <3> QED BY <3>3 DEF n
    <2> QED BY <1>1, <2>3
  <1>7. CASE list[j].i \in Ids
    <2>1. ~(j > Vocab)
      BY <1>1, <1>5, <1>7
    <2> QED BY <1>2, <1>7, <2>1
  <1>8. CASE list[j].i \notin Ids
    <2>1. ~(j <= Vocab) /\ list[j] = None
      BY <1>1, <1>3, <1>6, <1>8
    <2> QED BY <2>1
  <1> QED BY <1>7, <1>8

\* The first of the list, as many as there are tokens, are the largest.
LEMMA TopLargest ==
  ASSUME NEW k \in Nat \ {0}, NEW x \in HighRows, NEW list, Top(x, list, k, Ids)
  PROVE  AreLargest(x, list, Smaller(k, Vocab))
  <1> DEFINE n == Smaller(k, Vocab)
  <1>1. n \in 1 .. k /\ n <= Vocab /\ (n < k => n = Vocab)
    BY SamplerAssumption DEF Smaller
  <1> HIDE DEF n
  <1>2. list \in ListsOf(k) /\ DOMAIN list = 1 .. k /\ Vocab \in Nat /\ \A m \in 1 .. k : list[m].v \in Int
    BY ListsType, SamplerAssumption DEF Top
  <1>2a. \A j \in 1 .. n : j \in 1 .. k /\ j <= Vocab
    BY <1>1, <1>2
  <1>3. \A j \in 1 .. n : list[j].i \in Ids /\ list[j].v = x[list[j].i]
    BY <1>2a, TopFull
  <1>4. ASSUME NEW j \in 1 .. n, NEW i \in 1 .. n, i < j PROVE list[i].v >= list[j].v /\ list[i].i # list[j].i
    BY <1>2, <1>2a, <1>3, <1>4 DEF Top, Descends, Distinct
  <1>5. ASSUME NEW t \in Ids PROVE x[t] <= list[n].v \/ \E j \in 1 .. n : list[j].i = t
    <2>1. k \in 1 .. k /\ list[n].v >= list[k].v /\ x[t] \in Int
      BY <1>1, <1>2, RowType DEF Top, Descends
    <2>2. CASE x[t] <= list[k].v
      BY <1>1, <1>2, <2>1, <2>2
    <2>3. ASSUME NEW j \in 1 .. k, list[j].i = t PROVE \E m \in 1 .. n : list[m].i = t
      <3>1. CASE j <= n
        <4>1. j \in 1 .. n
          BY <1>1, <3>1
        <4> QED BY <2>3, <4>1
      <3>2. CASE j > n
        <4>1. j > Vocab
          BY <1>1, <3>2
        <4>2. list[j] = None
          BY <4>1, TopFull
        <4> QED BY <2>3, <4>2, NoneType
      <3> QED BY <1>1, <3>1, <3>2
    <2> QED BY <2>2, <2>3 DEF Top, Covers
  <1>6. AreLargest(x, list, n)
    BY <1>3, <1>4, <1>5 DEF AreLargest
  <1> QED BY <1>6 DEF n
-----------------------------------------------------------------------------
(* The draw.                                                                *)

\* An element that no other is below is the smallest.
LEMMA MinIs ==
  ASSUME NEW S \in SUBSET Int, NEW a \in S, \A b \in S : a <= b
  PROVE  Min(S) = a
  <1>1. Min(S) \in S /\ \A b \in S : Min(S) <= b
    BY DEF Min
  <1>2. Min(S) \in Int /\ a \in Int /\ Min(S) <= a /\ a <= Min(S)
    BY <1>1
  <1> QED BY <1>2

\* Numbers that are not none have a smallest.
LEMMA MinOf ==
  ASSUME NEW S \in SUBSET Nat, S # {}
  PROVE  Min(S) \in S /\ \A b \in S : Min(S) <= b
  <1>1. PICK a \in S : \A b \in S : a <= b
    BY Least
  <1>2. S \in SUBSET Int
    OBVIOUS
  <1> QED BY <1>1, <1>2, MinIs

\* Two sets that have the same elements up to n, the first one some of them, have the same smallest.
LEMMA SameMin ==
  ASSUME NEW n \in Nat, NEW S \in SUBSET (1 .. n), S # {}, NEW T \in SUBSET Nat,
         \A j \in 1 .. n : j \in S <=> j \in T, 0 \notin T
  PROVE  Min(T) = Min(S) /\ Min(S) \in S /\ T # {}
  <1>1. Min(S) \in S /\ \A b \in S : Min(S) <= b
    <2>1. S \in SUBSET Nat
      OBVIOUS
    <2> QED BY <2>1, MinOf
  <1> DEFINE m == Min(S)
  <1> HIDE DEF m
  <1>2. m \in 1 .. n /\ m \in T /\ \A b \in S : m <= b
    BY <1>1 DEF m
  <1>3. \A b \in T : m <= b
    <2> TAKE b \in T
    <2>1. b \in 1 .. n \/ b > n
      OBVIOUS
    <2> QED BY <1>2, <2>1
  <1>4. T \in SUBSET Int
    OBVIOUS
  <1> QED BY <1>1, <1>2, <1>3, <1>4, MinIs DEF m

\* sum[j] is the sum of the first j weights.
Sums(sum, w) == sum \in [0 .. Len(w) -> Nat] /\ sum[0] = 0 /\ \A j \in 1 .. Len(w) : sum[j] = sum[j - 1] + w[j]

\* What Cumulative does.
LEMMA CumulativeSums ==
  ASSUME NEW w \in Seq(Nat)
  PROVE  Sums(Cumulative(w), w)
  <1> DEFINE n == Len(w)
             One(a, j) == a + w[j]
             st == [y \in Nat \X (1 .. n) |-> One(y[1], y[2])]
             Value(g, j) == IF j = 0 THEN 0 ELSE One(g[j - 1], j)
             Is(g) == g = [j \in 0 .. n |-> Value(g, j)]
  <1>1. n \in Nat /\ \A a \in Nat, j \in 1 .. n : One(a, j) \in Nat
    <2>1. \A j \in 1 .. n : w[j] \in Nat
      OBVIOUS
    <2> QED BY <2>1
  <1>2. Cumulative(w) = CHOOSE g : Is(g)
    BY DEF Cumulative
  <1> HIDE DEF n, One
  <1>3. st \in [Nat \X (1 .. n) -> Nat] /\ \A a \in Nat, j \in 1 .. n : st[<<a, j>>] = One(a, j)
    BY <1>1
  <1> HIDE DEF st
  <1>4. PICK f \in [0 .. n -> Nat] : Stepwise(f, st, 0, n)
    BY <1>1, <1>3, StepsExist
  <1>5. f[0] = 0 /\ \A j \in 1 .. n : f[j] = One(f[j - 1], j)
    <2>0. \A j \in 1 .. n : j - 1 \in 0 .. n
      BY <1>1
    <2>1. \A j \in 1 .. n : f[j - 1] \in Nat /\ f[j] = st[<<f[j - 1], j>>]
      BY <1>4, <2>0 DEF Stepwise
    <2> QED BY <1>3, <1>4, <2>1 DEF Stepwise
  <1>6. Is(f)
    <2>1. \A j \in 0 .. n : f[j] = Value(f, j)
      BY <1>1, <1>5
    <2> HIDE DEF Value
    <2> QED BY <1>4, <2>1
  <1> DEFINE it == CHOOSE g : Is(g)
  <1>7. Is(it)
    <2> HIDE DEF Is
    <2> QED BY <1>6
  <1> HIDE DEF it
  <1>8. (\A j \in 0 .. n : it[j] = Value(it, j)) /\ DOMAIN it = 0 .. n /\ it = [j \in 0 .. n |-> it[j]]
    <2>1. it = [j \in 0 .. n |-> Value(it, j)]
      BY <1>7
    <2> HIDE DEF Value
    <2> QED BY <2>1
  <1>9. it[0] = 0 /\ \A j \in 1 .. n : it[j] = One(it[j - 1], j)
    <2>1. 0 \in 0 .. n /\ \A j \in 1 .. n : j \in 0 .. n /\ j # 0
      BY <1>1
    <2> QED BY <1>8, <2>1
  <1>10. \A j \in 0 .. n : it[j] \in Nat
    <2> DEFINE Good == {j \in 0 .. n : it[j] \in Nat}
    <2>1. 0 \in Good
      BY <1>1, <1>9
    <2>2. ASSUME NEW m \in 0 .. n, m < n, m \in Good PROVE m + 1 \in Good
      <3>1. m + 1 \in 1 .. n /\ m + 1 \in 0 .. n /\ (m + 1) - 1 = m
        BY <1>1, <2>2
      <3>2. it[m + 1] = One(it[m], m + 1) /\ it[m] \in Nat
        BY <1>9, <2>2, <3>1
      <3> QED BY <1>1, <3>1, <3>2
    <2> HIDE DEF Good
    <2>3. \A m \in 0 .. n : m \in Good
      BY <1>1, <2>1, <2>2, UpTo
    <2> QED BY <2>3 DEF Good
  <1>11. it \in [0 .. n -> Nat]
    BY <1>8, <1>10
  <1> QED BY <1>2, <1>9, <1>11 DEF Sums, it, n, One

\* The weights u are the first of w, and the others of w are zero.
Begins(u, w) ==
  /\ Len(u) \in 1 .. Len(w) /\ w[1] > 0
  /\ \A j \in 1 .. Len(u) : u[j] = w[j]
  /\ \A j \in Len(u) + 1 .. Len(w) : w[j] = 0

SameSums(s, v, n, m) == s[n] = v[m] /\ \A j \in 1 .. m : s[j] = v[j] /\ s[j] > 0 /\ s[j] \in Nat

\* The members of a sequence of naturals.
LEMMA NatSeq ==
  ASSUME NEW w \in Seq(Nat)
  PROVE  Len(w) \in Nat /\ \A j \in 1 .. Len(w) : w[j] \in Nat
  OBVIOUS

\* Sums of the same weights up to a place are the same up to it; where the
\* weights are zero they stay; and none of them is zero.
LEMMA SumsAgree ==
  ASSUME NEW w \in Seq(Nat), NEW u \in Seq(Nat), Begins(u, w), NEW s, Sums(s, w), NEW v, Sums(v, u)
  PROVE  SameSums(s, v, Len(w), Len(u))
  <1> DEFINE n == Len(w)
             m == Len(u)
             Good == {j \in 0 .. n : (j <= m => s[j] = v[j]) /\ (j > m => s[j] = v[m]) /\ (j > 0 => s[j] > 0)}
  <1>0. n \in Nat /\ m \in Nat /\ \A j \in 1 .. n : w[j] \in Nat
    BY NatSeq
  <1>0a. m \in 1 .. n
    BY DEF Begins
  <1>1. n \in Nat /\ m \in Nat /\ m <= n /\ 1 <= m /\ \A j \in 1 .. n : w[j] \in Nat
    <2> HIDE DEF n, m
    <2> QED BY <1>0, <1>0a
  <1>2. /\ \A j \in 0 .. n : s[j] \in Nat
        /\ s[0] = 0 /\ v[0] = 0
        /\ \A j \in 1 .. n : s[j] = s[j - 1] + w[j]
        /\ \A j \in 1 .. m : v[j] = v[j - 1] + u[j]
    BY DEF Sums
  <1>3. (\A j \in 1 .. m : u[j] = w[j]) /\ (\A j \in m + 1 .. n : w[j] = 0) /\ w[1] > 0
    BY DEF Begins
  <1> HIDE DEF n, m
  <1>4. 0 \in Good
    BY <1>1, <1>2
  <1>5. ASSUME NEW j \in 0 .. n, j < n, j \in Good PROVE j + 1 \in Good
    <2>1. j + 1 \in 1 .. n /\ j + 1 \in 0 .. n /\ (j + 1) - 1 = j
      BY <1>1, <1>5
    <2>2. s[j + 1] = s[j] + w[j + 1] /\ w[j + 1] \in Nat /\ s[j] \in Nat
      BY <1>1, <1>2, <2>1
    <2>3. s[j + 1] > 0
      <3>1. CASE j = 0
        <4>1. s[1] = 0 + w[1] /\ w[1] > 0
          BY <1>2, <1>3, <2>2, <3>1
        <4> QED BY <2>2, <3>1, <4>1
      <3>2. CASE j > 0
        <4>1. s[j] > 0
          BY <1>5, <3>2
        <4> DEFINE a == s[j]
                   b == w[j + 1]
        <4>2. s[j + 1] = a + b /\ a \in Nat /\ b \in Nat /\ a > 0
          BY <2>2, <4>1
        <4> HIDE DEF Good, a, b
        <4>3. a + b > 0
          BY <4>2
        <4> QED BY <4>2, <4>3
      <3> QED BY <3>1, <3>2
    <2>4. CASE j + 1 <= m
      <3>1. j + 1 \in 1 .. m /\ ~(j + 1 > m) /\ j <= m
        BY <1>1, <2>1, <2>4
      <3>2. v[j + 1] = v[j] + u[j + 1] /\ u[j + 1] = w[j + 1] /\ s[j] = v[j]
        BY <1>2, <1>3, <1>5, <2>1, <3>1
      <3>3. s[j + 1] = v[j + 1]
        BY <2>2, <3>2
      <3> QED BY <2>1, <2>3, <3>1, <3>3
    <2>5. CASE j + 1 > m
      <3>1. j + 1 \in m + 1 .. n /\ ~(j + 1 <= m)
        BY <1>1, <2>1, <2>5
      <3>2. w[j + 1] = 0
        BY <1>3, <3>1
      <3>3. s[j] = v[m]
        <4>1. j = m \/ j > m
          BY <1>1, <2>5
        <4> QED BY <1>1, <1>5, <4>1
      <3>4. s[j + 1] = v[m]
        BY <2>2, <3>2, <3>3
      <3> QED BY <2>1, <2>3, <3>1, <3>4
    <2> QED BY <1>1, <2>1, <2>4, <2>5
  <1>6. \A j \in 0 .. n : j \in Good
    <2> HIDE DEF Good
    <2> QED BY <1>1, <1>4, <1>5, UpTo
  <1>7. \A j \in 1 .. m : s[j] = v[j] /\ s[j] > 0 /\ s[j] \in Nat
    <2>1. \A j \in 1 .. m : j \in 0 .. n /\ j <= m /\ j > 0
      BY <1>1
    <2> QED BY <1>2, <1>6, <2>1
  <1>8. s[n] = v[m]
    <2>1. n \in Good
      BY <1>1, <1>6
    <2>2. n = m \/ n > m
      BY <1>1
    <2> QED BY <1>1, <2>1, <2>2
  <1> QED BY <1>7, <1>8 DEF SameSums, n, m

\* The weight of a logit that is not above the first.
LEMMA WeightType ==
  ASSUME NEW d \in Int, d <= 0
  PROVE  ExpOf(d) \in Nat /\ (d = 0 => ExpOf(d) = 4096) /\ (d < -12 => ExpOf(d) = 0)
  <1>1. \A m \in 1 .. 13 : Powers[m] \in Nat
    BY DEF Powers
  <1>2. Powers[13] = 4096
    BY DEF Powers
  <1>3. CASE d < -12
    BY <1>3 DEF ExpOf
  <1>4. CASE ~(d < -12)
    <2>1. 13 + d \in 1 .. 13 /\ ExpOf(d) = Powers[13 + d] /\ (d = 0 => 13 + d = 13)
      BY <1>4 DEF ExpOf
    <2> QED BY <1>1, <1>2, <1>4, <2>1
  <1> QED BY <1>3, <1>4

\* The first weight is one, in its parts; where there is no token it is zero.
LEMMA WeightsType ==
  ASSUME NEW k \in Nat \ {0}, NEW x \in HighRows, NEW list, Top(x, list, k, Ids), NEW c, c.inv \in Nat \ {0},
         NEW n \in 1 .. k
  PROVE  /\ Weights(list, c) \in Seq(Nat) /\ Len(Weights(list, c)) = k /\ Weights(list, c)[1] > 0
         /\ \A j \in 1 .. k : j > Vocab => Weights(list, c)[j] = 0
         /\ Weights(SubSeq(list, 1, n), c) \in Seq(Nat) /\ Len(Weights(SubSeq(list, 1, n), c)) = n
         /\ \A j \in 1 .. n : Weights(SubSeq(list, 1, n), c)[j] = Weights(list, c)[j]
  <1> DEFINE w == Weights(list, c)
             part == SubSeq(list, 1, n)
             u == Weights(part, c)
             d(j) == (list[j].v - list[1].v) * c.inv
             inv == c.inv
  <1>1. /\ list \in ListsOf(k) /\ DOMAIN list = 1 .. k /\ Vocab \in Nat /\ list \in Seq(Entries) /\ Len(list) = k
        /\ \A m \in 1 .. k : list[m].v \in Int
    BY ListsType, SamplerAssumption DEF Top
  <1>2. inv \in Nat /\ inv >= 1 /\ 1 \in 1 .. k
    OBVIOUS
  <1> HIDE DEF inv
  <1>3. ASSUME NEW j \in 1 .. k
        PROVE  d(j) \in Int /\ d(j) <= 0 /\ (j = 1 => d(j) = 0) /\ (j > Vocab => d(j) < -12)
    <2> DEFINE e == list[1].v - list[j].v
    <2>1. e \in Int /\ e >= 0 /\ list[j].v - list[1].v = 0 - e
      <3>1. list[1].v >= list[j].v
        <4>1. j = 1 \/ 1 < j
          OBVIOUS
        <4> QED BY <1>1, <1>2, <4>1 DEF Top, Descends
      <3> QED BY <1>1, <1>2, <3>1
    <2>2. j > Vocab => e > 12
      <3> SUFFICES ASSUME j > Vocab PROVE e > 12
        OBVIOUS
      <3>1. list[j].v = MinusMax
        BY TopFull, NoneType
      <3>2. list[1].i \in Ids /\ list[1].v = x[list[1].i]
        <4>1. 1 <= Vocab
          BY SamplerAssumption
        <4> QED BY <1>2, <4>1, TopFull
      <3>3. MinusMax + 12 < list[1].v
        BY <3>2, RowType
      <3> QED BY <1>1, <1>2, <3>1, <3>3, NoneType
    <2>3. d(j) = (0 - e) * inv
      BY <2>1 DEF inv
    <2> DEFINE b == e
    <2>4. j = 1 => e = 0
      BY <1>1
    <2> HIDE DEF e, d
    <2>5. e * inv \in Int /\ e * inv >= e /\ (0 - e) * inv = 0 - e * inv
      <3>1. e * 1 <= e * inv
        BY <1>2, <2>1, TimesOrder
      <3> QED BY <1>2, <2>1, <3>1
    <2>6. e = 0 => e * inv = 0
      BY <1>2
    <2> DEFINE p == e * inv
    <2>7. p \in Int /\ p >= e /\ d(j) = 0 - p /\ (e = 0 => p = 0)
      BY <2>3, <2>5, <2>6
    <2> HIDE DEF p
    <2> QED BY <2>1, <2>2, <2>4, <2>7
  <1>4. w = [j \in 1 .. k |-> ExpOf(d(j))]
    BY <1>1 DEF Weights
  <1>5. part \in Seq(Entries) /\ Len(part) = n /\ \A j \in 1 .. n : part[j] = list[j]
    BY <1>1
  <1>6. u = [j \in 1 .. n |-> ExpOf((part[j].v - part[1].v) * c.inv)]
    <2> HIDE DEF part
    <2>1. DOMAIN part = 1 .. n
      BY <1>5
    <2> QED BY <2>1 DEF Weights
  <1> HIDE DEF w, u, part
  <1>7. u = [j \in 1 .. n |-> ExpOf(d(j))]
    <2>1. \A j \in 1 .. n : (part[j].v - part[1].v) * c.inv = d(j)
      <3>1. 1 \in 1 .. n
        OBVIOUS
      <3> QED BY <1>5, <3>1
    <2> QED BY <1>6, <2>1
  <1>8. \A j \in 1 .. k : ExpOf(d(j)) \in Nat /\ (j > Vocab => ExpOf(d(j)) = 0) /\ (j = 1 => ExpOf(d(j)) = 4096)
    <2> HIDE DEF d
    <2> QED BY <1>3, WeightType
  <1> HIDE DEF d
  <1>9. \A j \in 1 .. n : j \in 1 .. k
    OBVIOUS
  <1>10. w \in Seq(Nat) /\ Len(w) = k /\ \A j \in 1 .. k : w[j] = ExpOf(d(j))
    BY <1>4, <1>8
  <1>11. u \in Seq(Nat) /\ Len(u) = n /\ \A j \in 1 .. n : u[j] = ExpOf(d(j))
    BY <1>7, <1>8, <1>9
  <1> QED BY <1>2, <1>8, <1>9, <1>10, <1>11 DEF w, u, part

\* The draw over the whole list falls on what it falls on among the tokens of it.
LEMMA DrawFalls ==
  ASSUME NEW k \in Nat \ {0}, NEW x \in HighRows, NEW list, Top(x, list, k, Ids), NEW c, c.inv \in Nat \ {0},
         c.topP \in Int, NEW r \in 0 .. Draws - 1
  PROVE  SampleTopK(list, c, r) = FallsOn(list, Smaller(k, Vocab), c, r)
  <1> DEFINE K == Smaller(k, Vocab)
             p == c.topP
             w == Weights(list, c)
             u == Weights(SubSeq(list, 1, K), c)
             s == Cumulative(w)
             v == Cumulative(u)
             A == {j \in 1 .. k : 100 * s[j] >= p * s[k]} \cup {k}
             B == {j \in 1 .. K : 100 * v[j] >= p * v[K]}
             cut == p \in 1 .. 99
             n == IF cut THEN Min(A) ELSE k
             kept == IF cut THEN Min(B) ELSE K
             H == {j \in 1 .. n : r * s[n] < Draws * s[j]}
             G == {j \in 1 .. kept : r * v[kept] < Draws * v[j]}
  <1>1. K \in 1 .. k /\ (K < k => K = Vocab) /\ K \in Nat /\ k \in Nat /\ Draws \in Nat /\ r \in Nat /\ r + 1 <= Draws /\ Draws \in Int
    BY SamplerAssumption DEF Smaller
  <1>2. Len(list) = k
    BY ListsType DEF Top
  <1>3. SampleTopK(list, c, r) = list[IF H = {} THEN n ELSE Min(H)].i
    BY <1>2 DEF SampleTopK
  <1>4. FallsOn(list, K, c, r) = list[Min(G)].i
    BY DEF FallsOn
  <1> HIDE DEF K
  <1>5. /\ w \in Seq(Nat) /\ Len(w) = k /\ w[1] > 0 /\ \A j \in 1 .. k : j > Vocab => w[j] = 0
        /\ u \in Seq(Nat) /\ Len(u) = K /\ \A j \in 1 .. K : u[j] = w[j]
    BY <1>1, WeightsType
  <1> HIDE DEF w, u
  <1>6. /\ \A j \in 1 .. K : s[j] = v[j] /\ s[j] > 0 /\ s[j] \in Nat
        /\ s[k] = v[K]
    <2>1. \A j \in K + 1 .. k : w[j] = 0
      <3> TAKE j \in K + 1 .. k
      <3>1. j \in 1 .. k /\ j > Vocab
        BY <1>1
      <3> QED BY <1>5, <3>1
    <2>2. Sums(s, w) /\ Sums(v, u)
      BY <1>5, CumulativeSums
    <2> HIDE DEF s, v
    <2>3. Begins(u, w)
      BY <1>1, <1>5, <2>1 DEF Begins
    <2>4. SameSums(s, v, Len(w), Len(u))
      BY <1>5, <2>2, <2>3, SumsAgree
    <2>5. SameSums(s, v, k, K)
      BY <1>5, <2>4
    <2> QED BY <2>5 DEF SameSums
  <1> HIDE DEF s, v
  <1>7. K \in 1 .. K /\ k \in 1 .. k /\ s[K] = v[K] /\ v[K] \in Nat
    BY <1>1, <1>6
  <1>8. ASSUME cut PROVE Min(A) = Min(B) /\ Min(B) \in B /\ B # {}
    <2> DEFINE total == v[K]
    <2>1. p \in Nat /\ p <= 100 /\ total \in Nat
      BY <1>7, <1>8
    <2>2. p * total <= 100 * total
      <3> HIDE DEF total, p
      <3>1. total * p <= total * 100
        BY <2>1, TimesOrder
      <3> QED BY <2>1, <3>1
    <2>3. K \in B
      BY <1>7, <2>2
    <2>4. \A j \in 1 .. K : j \in B <=> j \in A
      <3> TAKE j \in 1 .. K
      <3>1. j \in 1 .. k /\ s[j] = v[j] /\ s[k] = v[K]
        BY <1>1, <1>6
      <3>2. CASE j = k
        <4>1. K = k
          BY <1>1, <3>2
        <4> QED BY <2>3, <3>2, <4>1
      <3>3. CASE j # k
        BY <3>1, <3>3
      <3> QED BY <3>2, <3>3
    <2>5. A \in SUBSET Nat /\ 0 \notin A /\ B \in SUBSET (1 .. K) /\ B # {}
      BY <1>1, <2>3
    <2> HIDE DEF A, B
    <2> QED BY <1>1, <2>4, <2>5, SameMin
  <1> HIDE DEF A
  <1>9. kept \in 1 .. K /\ n \in 1 .. k /\ kept <= n /\ s[n] = v[kept]
    <2>1. CASE cut
      <3>1. Min(B) \in 1 .. K /\ n = Min(B) /\ kept = Min(B)
        BY <1>8, <2>1
      <3> HIDE DEF n, kept
      <3> QED BY <1>1, <1>6, <3>1
    <2>2. CASE ~cut
      <3>1. n = k /\ kept = K
        BY <2>2
      <3> HIDE DEF n, kept
      <3> QED BY <1>1, <1>6, <1>7, <3>1
    <2> QED BY <2>1, <2>2
  <1> HIDE DEF n, kept, B, cut
  <1>10. Min(H) = Min(G) /\ H # {}
    <2> DEFINE total == v[kept]
    <2>1. total \in Nat /\ total > 0 /\ s[kept] = total
      BY <1>6, <1>9
    <2>2. kept \in G
      <3>1. r * total < Draws * total
        <4> HIDE DEF total
        <4>1. total * (r + 1) <= total * Draws
          BY <1>1, <2>1, TimesOrder
        <4>2. total * (r + 1) = r * total + total /\ total * Draws = Draws * total /\ r * total \in Int
          BY <1>1, <2>1
        <4> QED BY <1>1, <2>1, <4>1, <4>2
      <3> QED BY <1>1, <1>9, <3>1
    <2>3. \A j \in 1 .. kept : j \in G <=> j \in H
      <3> TAKE j \in 1 .. kept
      <3>1. j \in 1 .. n /\ s[j] = v[j]
        <4>1. j \in 1 .. K
          BY <1>1, <1>9
        <4> QED BY <1>1, <1>6, <1>9, <4>1
      <3> QED BY <1>9, <3>1
    <2>4. G \in SUBSET (1 .. kept) /\ G # {} /\ H \in SUBSET Nat /\ 0 \notin H /\ kept \in Nat
      BY <1>1, <1>9, <2>2
    <2> HIDE DEF G, H
    <2> QED BY <2>3, <2>4, SameMin
  <1> HIDE DEF G, H
  <1>11. SampleTopK(list, c, r) = list[Min(G)].i
    BY <1>3, <1>10
  <1> QED BY <1>4, <1>11 DEF K
-----------------------------------------------------------------------------
(* The greedy choice.                                                       *)

\* The tokens of a thread, and what it starts from.
Mine(t) == Steps(t, Vocab, Threads)
Start == [v |-> MinusMax, i |-> 0]

\* An entry of a token, or what a thread without one has.
Chosen(x, e) == e \in Entries /\ (e = Start \/ (e.i \in Ids /\ e.v = x[e.i]))

\* The entry every thread of the argmax starts from.
LEMMA StartType == Start \in Entries /\ Start.v = MinusMax /\ MinusMax \in Int
  BY DEF Start, Entries, MinusMax

\* A block has threads.
LEMMA ThreadsType == Threads \in Nat /\ Threads > 0 /\ Threads \in Positive
  BY SamplerAssumption DEF Positive

\* The tokens of a thread: those that leave its number as remainder.
LEMMA MineType ==
  ASSUME NEW t \in 0 .. Threads - 1
  PROVE  /\ Mine(t) \in Seq(Int) /\ Len(Mine(t)) \in Nat
         /\ \A j \in 1 .. Len(Mine(t)) : Mine(t)[j] \in Ids
         /\ \A i \in Ids : i % Threads = t => \E j \in 1 .. Len(Mine(t)) : Mine(t)[j] = i
  <1> DEFINE s == Mine(t)
  <1>1. Stepped(s, t, Vocab, Threads)
    BY ThreadsType, SamplerAssumption, StepsStep DEF Mine
  <1> HIDE DEF s
  <1>2. ASSUME NEW j \in 1 .. Len(s) PROVE s[j] \in Ids
    <2>1. s[j] \in Int /\ t <= s[j] /\ s[j] < Vocab
      BY ONLY <1>1, Zenon DEF Stepped
    <2>2. Vocab \in Nat /\ t \in Nat
      BY ThreadsType, SamplerAssumption
    <2> DEFINE b == s[j]
    <2>3. b \in Int /\ t <= b /\ b < Vocab
      BY <2>1
    <2> HIDE DEF b
    <2>4. b \in 0 .. Vocab - 1
      BY ONLY <2>2, <2>3
    <2> QED BY <2>4 DEF b, Ids
  <1>3. ASSUME NEW i \in Ids, i % Threads = t PROVE \E j \in 1 .. Len(s) : s[j] = i
    <2>1. i \in Nat /\ i = Threads * (i \div Threads) + t /\ i \div Threads \in Nat
      <3>1. i \in Int /\ i \in Nat
        BY DEF Ids
      <3> QED BY <1>3, <3>1, ThreadsType, DivMod
    <2>2. i >= t
      <3> DEFINE q == i \div Threads
      <3>1. Threads * q \in Nat
        BY <2>1, ThreadsType
      <3> HIDE DEF q
      <3> QED BY <2>1, <3>1 DEF q
    <2>3. i \in t .. Vocab - 1
      BY <2>1, <2>2, SamplerAssumption DEF Ids
    <2>4. PICK j \in 1 .. Len(s) : s[j] <= i /\ i < s[j] + Threads
      BY <1>1, <2>3 DEF Stepped
    <2>5. s[j] = t + (j - 1) * Threads /\ s[j] \in Int /\ j - 1 \in Nat
      BY <1>1, <2>4 DEF Stepped
    <2>6. s[j] % Threads = t
      <3> DEFINE q == j - 1
      <3>1. s[j] = Threads * q + t
        <4>1. (j - 1) * Threads = Threads * (j - 1) /\ Threads * (j - 1) \in Int
          BY <2>5, ThreadsType
        <4> QED BY <2>5, <4>1
      <3>2. q \in Int
        BY <2>5
      <3> HIDE DEF q
      <3>3. (Threads * q + t) % Threads = t
        BY <3>2, ThreadsType, Quotient
      <3> QED BY <3>1, <3>3
    <2>7. CASE s[j] < i
      <3>1. s[j] + Threads <= i
        <4> DEFINE b == s[j]
        <4>1. b \in Int /\ i \in Int /\ b < i /\ b % Threads = i % Threads
          BY <1>3, <2>1, <2>5, <2>6, <2>7
        <4> HIDE DEF b
        <4>2. b + Threads <= i
          BY <4>1, ThreadsType, SameSlot
        <4> QED BY <4>2 DEF b
      <3> QED BY <2>1, <2>4, <2>5, <3>1, ThreadsType
    <2>8. CASE ~(s[j] < i)
      <3>1. s[j] = i
        BY <2>1, <2>4, <2>5, <2>8
      <3> QED BY <2>4, <3>1
    <2> QED BY <2>7, <2>8
  <1> QED BY <1>1, <1>2, <1>3 DEF Stepped, s

\* The better of two is not below either.
LEMMA BetterOf ==
  ASSUME NEW x, NEW a, Chosen(x, a), NEW e, Chosen(x, e)
  PROVE  Chosen(x, Better(a, e)) /\ Better(a, e).v >= a.v /\ Better(a, e).v >= e.v /\ a.v \in Int /\ e.v \in Int
  <1>1. a.v \in Int /\ e.v \in Int
    BY DEF Chosen, Entries
  <1> QED BY <1>1 DEF Better

\* The entry of one token is its own best.
LEMMA EntryChosen ==
  ASSUME NEW x \in HighRows, NEW t \in Ids
  PROVE  Chosen(x, Entry(x, t)) /\ Entry(x, t).v = x[t]
  BY RowType DEF Chosen


\* f[j] is the best of the first j tokens of the thread.
Comparing(f, x, t) ==
  /\ f[0] = Start
  /\ \A j \in 1 .. Len(Mine(t)) : f[j] = Better(f[j - 1], Entry(x, Mine(t)[j]))
  /\ Best(x, t) = f[Len(Mine(t))]

\* A thread compares its tokens one by one.
LEMMA BestSteps ==
  ASSUME NEW x \in HighRows, NEW t \in 0 .. Threads - 1
  PROVE  \E f \in [0 .. Len(Mine(t)) -> Entries] : Comparing(f, x, t)
  <1> DEFINE n == Len(Mine(t))
             D == Entries
             One(a, j) == Better(a, Entry(x, Mine(t)[j]))
             st == [y \in D \X (1 .. n) |-> One(y[1], y[2])]
             Value(g, j) == IF j = 0 THEN Start ELSE One(g[j - 1], j)
             Is(g) == g = [j \in 0 .. n |-> Value(g, j)]
  <1>1. n \in Nat /\ Start \in D /\ \A a \in D, j \in 1 .. n : One(a, j) \in D
    <2>1. ASSUME NEW a \in D, NEW j \in 1 .. n PROVE One(a, j) \in D
      <3>1. Mine(t)[j] \in Ids
        BY MineType
      <3>2. Entry(x, Mine(t)[j]) \in Entries
        BY <3>1, RowType
      <3> QED BY <2>1, <3>2 DEF Better
    <2> HIDE DEF One
    <2> QED BY <2>1, MineType, StartType
  <1>2. Best(x, t) = (CHOOSE g : Is(g))[n]
    BY DEF Best, Mine, Start
  <1> HIDE DEF n, D, One
  <1>3. st \in [D \X (1 .. n) -> D] /\ \A a \in D, j \in 1 .. n : st[<<a, j>>] = One(a, j)
    BY <1>1
  <1> HIDE DEF st
  <1>4. PICK f \in [0 .. n -> D] : Stepwise(f, st, Start, n)
    BY <1>1, <1>3, StepsExist
  <1>5. f[0] = Start /\ \A j \in 1 .. n : f[j] = One(f[j - 1], j)
    <2>0. \A j \in 1 .. n : j - 1 \in 0 .. n
      BY <1>1
    <2>1. \A j \in 1 .. n : f[j - 1] \in D /\ f[j] = st[<<f[j - 1], j>>]
      BY <1>4, <2>0 DEF Stepwise
    <2> QED BY <1>3, <1>4, <2>1 DEF Stepwise
  <1>6. Is(f)
    <2>1. \A j \in 0 .. n : f[j] = Value(f, j)
      BY <1>1, <1>5
    <2> HIDE DEF Value
    <2> QED BY <1>4, <2>1
  <1> DEFINE it == CHOOSE g : Is(g)
  <1>7. Is(it)
    <2> HIDE DEF Is
    <2> QED BY <1>6
  <1> HIDE DEF it
  <1>8. \A j \in 0 .. n : it[j] = Value(it, j)
    <2>1. it = [j \in 0 .. n |-> Value(it, j)]
      BY <1>7
    <2> HIDE DEF Value
    <2> QED BY <2>1
  <1>9. it[n] = f[n]
    <2> DEFINE Good == {j \in 0 .. n : it[j] = f[j]}
    <2>1. 0 \in Good
      BY <1>1, <1>5, <1>8
    <2>2. ASSUME NEW m \in 0 .. n, m < n, m \in Good PROVE m + 1 \in Good
      <3>1. m + 1 \in 1 .. n /\ m + 1 \in 0 .. n /\ (m + 1) - 1 = m /\ m + 1 # 0
        BY <1>1, <2>2
      <3>2. it[m + 1] = One(it[m], m + 1) /\ f[m + 1] = One(f[m], m + 1) /\ it[m] = f[m]
        BY <1>5, <1>8, <2>2, <3>1
      <3> QED BY <3>1, <3>2
    <2> HIDE DEF Good
    <2>3. \A m \in 0 .. n : m \in Good
      BY <1>1, <2>1, <2>2, UpTo
    <2>4. n \in Good
      BY <1>1, <2>3
    <2> QED BY <2>4 DEF Good
  <1>10. Best(x, t) = f[n]
    BY <1>2, <1>9 DEF it
  <1> QED BY <1>4, <1>5, <1>10 DEF n, D, One, Comparing


\* The best of a thread is not below any of its tokens.
LEMMA BestOf ==
  ASSUME NEW x \in HighRows, NEW t \in 0 .. Threads - 1
  PROVE  Chosen(x, Best(x, t)) /\ \A i \in Ids : i % Threads = t => x[i] <= Best(x, t).v
  <1> DEFINE n == Len(Mine(t))
  <1>1. PICK f \in [0 .. n -> Entries] : Comparing(f, x, t)
    BY BestSteps
  <1> DEFINE Good == {j \in 0 .. n : Chosen(x, f[j]) /\ \A m \in 1 .. j : x[Mine(t)[m]] <= f[j].v}
  <1>2. n \in Nat /\ f[0] = Start /\ Best(x, t) = f[n] /\ \A j \in 1 .. n : Mine(t)[j] \in Ids
    BY <1>1, MineType DEF Comparing
  <1>3. 0 \in Good
    BY <1>2, StartType DEF Chosen
  <1>4. ASSUME NEW j \in 0 .. n, j < n, j \in Good PROVE j + 1 \in Good
    <2> DEFINE a == f[j]
               i == Mine(t)[j + 1]
               e == Entry(x, i)
               b == f[j + 1]
    <2>1. j + 1 \in 1 .. n /\ j + 1 \in 0 .. n /\ (j + 1) - 1 = j
      BY <1>2, <1>4
    <2>2. b = Better(a, e)
      BY <1>1, <2>1 DEF Comparing
    <2>3. Chosen(x, a) /\ \A m \in 1 .. j : x[Mine(t)[m]] <= a.v
      BY <1>4
    <2>4. i \in Ids /\ Chosen(x, e) /\ e.v = x[i]
      BY <1>2, <2>1, EntryChosen
    <2> HIDE DEF a, e, b
    <2>5. Chosen(x, b) /\ b.v >= a.v /\ b.v >= e.v /\ a.v \in Int /\ e.v \in Int /\ b.v \in Int
      <3>1. Chosen(x, Better(a, e)) /\ Better(a, e).v >= a.v /\ Better(a, e).v >= e.v /\ a.v \in Int /\ e.v \in Int
        BY <2>3, <2>4, BetterOf
      <3>2. Chosen(x, b) => b.v \in Int
        BY DEF Chosen, Entries
      <3> QED BY <2>2, <3>1, <3>2
    <2>6. ASSUME NEW m \in 1 .. j + 1 PROVE x[Mine(t)[m]] <= b.v
      <3>1. CASE m = j + 1
        BY <2>4, <2>5, <3>1
      <3>2. CASE m # j + 1
        <4>1. m \in 1 .. j /\ m \in 1 .. n
          BY <1>2, <2>1, <3>2
        <4>2. x[Mine(t)[m]] <= a.v /\ x[Mine(t)[m]] \in Int
          BY <1>2, <2>3, <4>1, RowType
        <4> QED BY <2>5, <4>2
      <3> QED BY <3>1, <3>2
    <2> QED BY <2>1, <2>5, <2>6 DEF b
  <1>5. Chosen(x, f[n]) /\ \A m \in 1 .. n : x[Mine(t)[m]] <= f[n].v
    <2> HIDE DEF Good
    <2>1. \A j \in 0 .. n : j \in Good
      BY <1>2, <1>3, <1>4, UpTo
    <2>2. n \in Good
      BY <1>2, <2>1
    <2> QED BY <2>2 DEF Good
  <1>6. ASSUME NEW i \in Ids, i % Threads = t PROVE x[i] <= f[n].v
    <2>1. PICK m \in 1 .. n : Mine(t)[m] = i
      BY <1>6, MineType
    <2> QED BY <1>5, <2>1
  <1> QED BY <1>2, <1>5, <1>6


\* How many threads still have a part, and the halves of powers of two.
Width(j) == IF j = 0 THEN Threads ELSE Smaller(Threads, Halves[j])

\* How wide the reduction still is after its first j halvings.
LEMMA WidthHalves ==
  ASSUME NEW j \in 1 .. 10
  PROVE  /\ Halves[j] \in Nat /\ Halves[j] > 0
         /\ ~(Halves[j] < Threads) => Width(j) = Width(j - 1) /\ Width(j) <= Halves[j]
         /\ Halves[j] < Threads => Width(j) = Halves[j] /\ Width(j - 1) = 2 * Halves[j] /\ 2 * Halves[j] <= Threads
         /\ Width(10) = 1 /\ Width(0) = Threads
  <1>1. Threads \in {1, 2, 4, 8, 16, 32, 64, 128, 256, 512, 1024}
    BY SamplerAssumption
  <1> QED BY <1>1 DEF Width, Halves, Smaller

\* What halving leaves.
LEMMA HalvedType ==
  ASSUME NEW a \in [0 .. Threads - 1 -> Entries], NEW j \in 1 .. 10
  PROVE  Halved(a, Halves[j]) \in [0 .. Threads - 1 -> Entries]
  <1> DEFINE half == Halves[j]
             One(t) == IF half < Threads /\ t < half THEN Better(a[t], a[t + half]) ELSE a[t]
  <1>1. half \in Nat /\ (half < Threads => 2 * half <= Threads) /\ Threads \in Nat
    BY WidthHalves, ThreadsType
  <1>2. Halved(a, half) = [t \in 0 .. Threads - 1 |-> One(t)]
    BY DEF Halved
  <1> HIDE DEF half
  <1>3. ASSUME NEW t \in 0 .. Threads - 1 PROVE One(t) \in Entries
    <2>1. CASE half < Threads /\ t < half
      <3>1. t + half \in 0 .. Threads - 1
        BY <1>1, <2>1
      <3> QED BY <2>1, <3>1 DEF Better
    <2>2. CASE ~(half < Threads /\ t < half)
      BY <2>2
    <2> QED BY <2>1, <2>2
  <1> HIDE DEF One
  <1> QED BY <1>2, <1>3 DEF half

\* f[j] is what the threads have after j of them.
Halving(f, x) ==
  /\ f[0] = [t \in 0 .. Threads - 1 |-> Best(x, t)]
  /\ \A j \in 1 .. 10 : f[j] = Halved(f[j - 1], Halves[j])
  /\ Argmax(x) = f[10][0].i

\* Halves are compared with each other ten times.
LEMMA HalvingSteps ==
  ASSUME NEW x \in HighRows
  PROVE  \E f \in [0 .. 10 -> [0 .. Threads - 1 -> Entries]] : Halving(f, x)
  <1> DEFINE n == 10
             D == [0 .. Threads - 1 -> Entries]
             One(a, j) == Halved(a, Halves[j])
             st == [y \in D \X (1 .. n) |-> One(y[1], y[2])]
             Value(g, j) == IF j = 0 THEN [t \in 0 .. Threads - 1 |-> Best(x, t)] ELSE One(g[j - 1], j)
             Is(g) == g = [j \in 0 .. n |-> Value(g, j)]
  <1>1. n \in Nat /\ [t \in 0 .. Threads - 1 |-> Best(x, t)] \in D /\ \A a \in D, j \in 1 .. n : One(a, j) \in D
    <2>1. ASSUME NEW a \in D, NEW j \in 1 .. n PROVE One(a, j) \in D
      BY <2>1, HalvedType
    <2>2. [t \in 0 .. Threads - 1 |-> Best(x, t)] \in D
      <3>1. \A t \in 0 .. Threads - 1 : Best(x, t) \in Entries
        BY BestOf DEF Chosen
      <3> QED BY <3>1
    <2> HIDE DEF One
    <2> QED BY <2>1, <2>2
  <1>2. Argmax(x) = (CHOOSE g : Is(g))[n][0].i
    BY DEF Argmax
  <1> HIDE DEF n, D, One
  <1>3. st \in [D \X (1 .. n) -> D] /\ \A a \in D, j \in 1 .. n : st[<<a, j>>] = One(a, j)
    BY <1>1
  <1> HIDE DEF st
  <1>4. PICK f \in [0 .. n -> D] : Stepwise(f, st, [t \in 0 .. Threads - 1 |-> Best(x, t)], n)
    BY <1>1, <1>3, StepsExist
  <1>5. f[0] = [t \in 0 .. Threads - 1 |-> Best(x, t)] /\ \A j \in 1 .. n : f[j] = One(f[j - 1], j)
    <2>0. \A j \in 1 .. n : j - 1 \in 0 .. n
      BY <1>1
    <2>1. \A j \in 1 .. n : f[j - 1] \in D /\ f[j] = st[<<f[j - 1], j>>]
      BY <1>4, <2>0 DEF Stepwise
    <2> QED BY <1>3, <1>4, <2>1 DEF Stepwise
  <1>6. Is(f)
    <2>1. \A j \in 0 .. n : f[j] = Value(f, j)
      BY <1>1, <1>5
    <2> HIDE DEF Value
    <2> QED BY <1>4, <2>1
  <1> DEFINE it == CHOOSE g : Is(g)
  <1>7. Is(it)
    <2> HIDE DEF Is
    <2> QED BY <1>6
  <1> HIDE DEF it
  <1>8. \A j \in 0 .. n : it[j] = Value(it, j)
    <2>1. it = [j \in 0 .. n |-> Value(it, j)]
      BY <1>7
    <2> HIDE DEF Value
    <2> QED BY <2>1
  <1>9. it[n] = f[n]
    <2> DEFINE Good == {j \in 0 .. n : it[j] = f[j]}
    <2>1. 0 \in Good
      BY <1>1, <1>5, <1>8
    <2>2. ASSUME NEW m \in 0 .. n, m < n, m \in Good PROVE m + 1 \in Good
      <3>1. m + 1 \in 1 .. n /\ m + 1 \in 0 .. n /\ (m + 1) - 1 = m /\ m + 1 # 0
        BY <1>1, <2>2
      <3>2. it[m + 1] = One(it[m], m + 1) /\ f[m + 1] = One(f[m], m + 1) /\ it[m] = f[m]
        BY <1>5, <1>8, <2>2, <3>1
      <3> QED BY <3>1, <3>2
    <2> HIDE DEF Good
    <2>3. \A m \in 0 .. n : m \in Good
      BY <1>1, <2>1, <2>2, UpTo
    <2>4. n \in Good
      BY <1>1, <2>3
    <2> QED BY <2>4 DEF Good
  <1>10. Argmax(x) = f[n][0].i
    BY <1>2, <1>9 DEF it
  <1> QED BY <1>4, <1>5, <1>10 DEF n, D, One, Halving

\* One of the first threads is not below any token.
Reduced(x, a, width) ==
  /\ \A u \in 0 .. Threads - 1 : Chosen(x, a[u])
  /\ \A i \in Ids : \E u \in 0 .. width - 1 : x[i] <= a[u].v

\* A half leaves one of the first threads not below any token.
LEMMA HalvedReduced ==
  ASSUME NEW x \in HighRows, NEW a \in [0 .. Threads - 1 -> Entries], NEW j \in 1 .. 10, Reduced(x, a, Width(j - 1))
  PROVE  Reduced(x, Halved(a, Halves[j]), Width(j))
  <1> DEFINE half == Halves[j]
             b == Halved(a, half)
  <1>1. half \in Nat /\ half > 0 /\ Threads \in Nat
        /\ (~(half < Threads) => Width(j) = Width(j - 1))
        /\ (half < Threads => Width(j) = half /\ Width(j - 1) = 2 * half /\ 2 * half <= Threads)
    BY WidthHalves, ThreadsType
  <1>2. \A t \in 0 .. Threads - 1 : b[t] = IF half < Threads /\ t < half THEN Better(a[t], a[t + half]) ELSE a[t]
    BY DEF Halved
  <1>3. /\ \A u \in 0 .. Threads - 1 : Chosen(x, a[u])
        /\ \A i \in Ids : \E u \in 0 .. Width(j - 1) - 1 : x[i] <= a[u].v
    BY DEF Reduced
  <1> HIDE DEF half, b
  <1>4. CASE ~(half < Threads)
    <2>1. \A t \in 0 .. Threads - 1 : b[t] = a[t]
      BY <1>2, <1>4
    <2>2. Width(j) = Width(j - 1) /\ \A u \in 0 .. Width(j) - 1 : u \in 0 .. Threads - 1
      <3>1. Width(j) = Width(j - 1) /\ Width(j) \in Nat /\ Width(j) <= Threads
        BY <1>1, <1>4, ThreadsType DEF Width, Smaller, half
      <3> QED BY <3>1, ThreadsType
    <2>3. Reduced(x, b, Width(j))
      BY <1>3, <2>1, <2>2 DEF Reduced
    <2> QED BY <2>3 DEF b, half
  <1>5. CASE half < Threads
    <2>1. Width(j) = half /\ Width(j - 1) = 2 * half /\ 2 * half <= Threads
      BY <1>1, <1>5
    <2>2. ASSUME NEW t \in 0 .. half - 1
          PROVE  /\ t \in 0 .. Threads - 1 /\ t + half \in 0 .. Threads - 1
                 /\ Chosen(x, b[t]) /\ b[t].v >= a[t].v /\ b[t].v >= a[t + half].v
                 /\ b[t].v \in Int /\ a[t].v \in Int /\ a[t + half].v \in Int
      <3>1. t \in 0 .. Threads - 1 /\ t + half \in 0 .. Threads - 1 /\ t < half
        BY <1>1, <2>1
      <3>2. b[t] = Better(a[t], a[t + half])
        BY <1>2, <1>5, <3>1
      <3>3. Chosen(x, b[t]) /\ b[t].v >= a[t].v /\ b[t].v >= a[t + half].v /\ a[t].v \in Int /\ a[t + half].v \in Int
        BY <1>3, <3>1, <3>2, BetterOf
      <3>4. b[t].v \in Int
        BY <3>3 DEF Chosen, Entries
      <3> QED BY <3>1, <3>3, <3>4
    <2>3. ASSUME NEW u \in 0 .. Threads - 1 PROVE Chosen(x, b[u])
      <3>1. CASE u < half
        <4>1. u \in 0 .. half - 1
          BY <1>1, <3>1
        <4> QED BY <2>2, <4>1
      <3>2. CASE ~(u < half)
        <4>1. b[u] = a[u]
          BY <1>2, <3>2
        <4> QED BY <1>3, <4>1
      <3> QED BY <3>1, <3>2
    <2>4. ASSUME NEW i \in Ids PROVE \E u \in 0 .. half - 1 : x[i] <= b[u].v
      <3>1. PICK u \in 0 .. 2 * half - 1 : x[i] <= a[u].v
        BY <1>3, <2>1
      <3>2. x[i] \in Int
        BY RowType
      <3>3. CASE u < half
        <4>1. u \in 0 .. half - 1
          BY <1>1, <3>3
        <4>2. x[i] <= b[u].v
          BY <2>2, <3>1, <3>2, <4>1
        <4> QED BY <4>1, <4>2
      <3>4. CASE ~(u < half)
        <4> DEFINE t == u - half
        <4>1. t \in 0 .. half - 1 /\ t + half = u
          BY <1>1, <3>4
        <4> HIDE DEF t
        <4>2. x[i] <= b[t].v
          BY <2>2, <3>1, <3>2, <4>1
        <4> QED BY <4>1, <4>2
      <3> QED BY <3>3, <3>4
    <2>5. Reduced(x, b, Width(j))
      BY <2>1, <2>3, <2>4 DEF Reduced
    <2> QED BY <2>5 DEF b, half
  <1> QED BY <1>4, <1>5

\* The greedy choice is a largest logit.
LEMMA ArgmaxRight ==
  ASSUME NEW x \in HighRows
  PROVE  Argmax(x) \in Ids /\ \A t \in Ids : x[t] <= x[Argmax(x)]
  <1>1. PICK f \in [0 .. 10 -> [0 .. Threads - 1 -> Entries]] : Halving(f, x)
    BY HalvingSteps
  <1> DEFINE Good == {j \in 0 .. 10 : Reduced(x, f[j], Width(j))}
             first == f[0]
  <1>2. first = [t \in 0 .. Threads - 1 |-> Best(x, t)] /\ Argmax(x) = f[10][0].i
    BY <1>1 DEF Halving
  <1>3. Reduced(x, first, Width(0))
    <2>1. \A t \in 0 .. Threads - 1 : first[t] = Best(x, t)
      BY <1>2
    <2> HIDE DEF first
    <2>2. \A u \in 0 .. Threads - 1 : Chosen(x, first[u])
      BY <2>1, BestOf
    <2>3. ASSUME NEW i \in Ids PROVE \E u \in 0 .. Threads - 1 : x[i] <= first[u].v
      <3>1. i \in Int
        BY DEF Ids
      <3>2. (i % Threads) \in 0 .. Threads - 1
        BY <3>1, ThreadsType, DivMod
      <3>3. x[i] <= first[i % Threads].v
        BY <2>1, <3>2, BestOf
      <3> QED BY <3>2, <3>3
    <2>4. Width(0) = Threads
      BY DEF Width
    <2> QED BY <2>2, <2>3, <2>4 DEF Reduced
  <1>4. 0 \in Good
    BY <1>3
  <1>5. ASSUME NEW j \in 0 .. 10, j < 10, j \in Good PROVE j + 1 \in Good
    <2> DEFINE a == f[j]
               m == j + 1
    <2>1. m \in 1 .. 10 /\ m \in 0 .. 10 /\ m - 1 = j
      BY <1>5
    <2>2. f[m] = Halved(a, Halves[m])
      BY <1>1, <2>1 DEF Halving
    <2>3. a \in [0 .. Threads - 1 -> Entries] /\ Reduced(x, a, Width(m - 1))
      BY <1>1, <1>5, <2>1
    <2> HIDE DEF a, m
    <2>4. Reduced(x, Halved(a, Halves[m]), Width(m))
      BY <2>1, <2>3, HalvedReduced
    <2> QED BY <2>1, <2>2, <2>4 DEF m
  <1>6. Reduced(x, f[10], 1)
    <2> HIDE DEF Good
    <2>1. \A j \in 0 .. 10 : j \in Good
      BY <1>4, <1>5, UpTo
    <2>2. 10 \in Good
      BY <2>1
    <2>3. Width(10) = 1
      BY WidthHalves
    <2> QED BY <2>2, <2>3 DEF Good
  <1> DEFINE e == f[10][0]
  <1>7. Chosen(x, e) /\ \A i \in Ids : x[i] <= e.v
    <2>1. 0 \in 0 .. Threads - 1 /\ \A u \in 0 .. 1 - 1 : u = 0
      BY ThreadsType
    <2> QED BY <1>6, <2>1 DEF Reduced
  <1>8. e.i \in Ids /\ e.v = x[e.i]
    <2>1. 0 \in Ids
      BY SamplerAssumption DEF Ids
    <2>2. x[0] <= e.v /\ x[0] \in Int /\ MinusMax < x[0]
      BY <1>7, <2>1, RowType
    <2> HIDE DEF e
    <2>3. e # Start
      BY <2>2, StartType
    <2> QED BY <1>7, <2>3 DEF Chosen
  <1> QED BY <1>2, <1>7, <1>8
-----------------------------------------------------------------------------
(* The penalties.                                                           *)

Pair == [id : Ids, n : Nat]
PairLists == Seq(Pair)

\* The places of the window, up to the i-th, with the token t.
UsesTo(t, i) == {m \in WindowStart + 1 .. WindowStart + i : penalized[m] = t}

\* The pairs count the tokens of the first i places of the window.
Counted(pairs, i) ==
  /\ \A j \in DOMAIN pairs : UsesTo(pairs[j].id, i) # {} /\ pairs[j].n = Cardinality(UsesTo(pairs[j].id, i))
  /\ \A j \in DOMAIN pairs, m \in DOMAIN pairs : pairs[j].id = pairs[m].id => j = m
  /\ \A t \in Ids : UsesTo(t, i) # {} => Listed(pairs, t)

\* The window of the penalties is the end of the context, and at most as long as it may be.
LEMMA WindowType ==
  ASSUME penalized \in Seq(Int)
  PROVE  /\ WindowStart \in Nat /\ Len(penalized) \in Nat /\ Len(penalized) - WindowStart \in 0 .. PenaltyWindow
         /\ PenaltyWindow \in Nat
  BY SamplerAssumption DEF WindowStart, Larger

\* A place more has one more token.
LEMMA UsesNext ==
  ASSUME penalized \in Seq(Int), NEW i \in Nat, NEW t
  PROVE  /\ IsFiniteSet(UsesTo(t, i)) /\ Cardinality(UsesTo(t, i)) \in 0 .. i
         /\ penalized[WindowStart + (i + 1)] # t => UsesTo(t, i + 1) = UsesTo(t, i)
         /\ penalized[WindowStart + (i + 1)] = t =>
              UsesTo(t, i + 1) # {} /\ Cardinality(UsesTo(t, i + 1)) = Cardinality(UsesTo(t, i)) + 1
  <1> DEFINE s == WindowStart
             here == s + (i + 1)
             U == UsesTo(t, i)
  <1>1. s \in Nat
    BY WindowType
  <1>2. U = {m \in s + 1 .. s + i : penalized[m] = t}
    BY DEF UsesTo
  <1>3. UsesTo(t, i + 1) = U \cup {m \in {here} : penalized[m] = t}
    <2>1. s + 1 .. s + (i + 1) = (s + 1 .. s + i) \cup {here}
      <3> HIDE DEF s
      <3> QED BY <1>1
    <2>2. UsesTo(t, i + 1) = {m \in s + 1 .. s + (i + 1) : penalized[m] = t}
      BY DEF UsesTo
    <2> HIDE DEF s, U, here
    <2> QED BY <1>2, <2>1, <2>2
  <1> HIDE DEF s, U
  <1>4. IsFiniteSet(s + 1 .. s + i) /\ Cardinality(s + 1 .. s + i) = i
    <2>1. s + 1 \in Int /\ s + i \in Int
      BY <1>1
    <2> QED BY <1>1, <2>1, FS_Interval
  <1>5. IsFiniteSet(U) /\ Cardinality(U) \in Nat /\ Cardinality(U) <= i
    <2>1. U \in SUBSET (s + 1 .. s + i)
      BY <1>2
    <2> QED BY <1>4, <2>1, FS_Subset, FS_CardinalityType
  <1>6. here \notin U
    BY <1>1, <1>2
  <1> HIDE DEF here
  <1>7. ASSUME penalized[here] # t PROVE UsesTo(t, i + 1) = U
    BY <1>3, <1>7
  <1>8. ASSUME penalized[here] = t
        PROVE  UsesTo(t, i + 1) # {} /\ Cardinality(UsesTo(t, i + 1)) = Cardinality(U) + 1
    <2>1. UsesTo(t, i + 1) = U \cup {here}
      BY <1>3, <1>8
    <2>2. Cardinality(U \cup {here}) = Cardinality(U) + 1
      BY <1>5, <1>6, FS_AddElement
    <2> QED BY <2>1, <2>2
  <1> QED BY <1>5, <1>7, <1>8 DEF U, here, s

\* What counting a token leaves.
LEMMA CountType ==
  ASSUME NEW pairs \in PairLists, NEW t
  PROVE  Count(pairs, t) \in PairLists
  <1> DEFINE listed == \E j \in DOMAIN pairs : pairs[j].id = t
             One(j) == IF pairs[j].id = t THEN [id |-> t, n |-> pairs[j].n + 1] ELSE pairs[j]
  <1>1. DOMAIN pairs = 1 .. Len(pairs) /\ Len(pairs) \in Nat /\ \A j \in 1 .. Len(pairs) : pairs[j] \in Pair
    BY DEF PairLists
  <1>2. CASE t \notin Ids
    BY <1>2 DEF Count
  <1>3. CASE t \in Ids /\ listed
    <2>1. Count(pairs, t) = [j \in DOMAIN pairs |-> One(j)]
      BY <1>3 DEF Count
    <2>2. \A j \in 1 .. Len(pairs) : One(j) \in Pair
      BY <1>1, <1>3 DEF Pair
    <2> HIDE DEF One
    <2> QED BY <1>1, <2>1, <2>2 DEF PairLists
  <1>4. CASE t \in Ids /\ ~listed
    <2>1. Count(pairs, t) = Append(pairs, [id |-> t, n |-> 1])
      BY <1>4 DEF Count
    <2>2. [id |-> t, n |-> 1] \in Pair
      BY <1>4 DEF Pair
    <2> QED BY <2>1, <2>2 DEF PairLists
  <1> QED BY <1>2, <1>3, <1>4

\* A token counted.
LEMMA CountStep ==
  ASSUME penalized \in Seq(Int), NEW i \in Nat, NEW pairs \in PairLists, Counted(pairs, i)
  PROVE  Counted(Count(pairs, penalized[WindowStart + (i + 1)]), i + 1)
  <1> DEFINE t == penalized[WindowStart + (i + 1)]
             new == Count(pairs, t)
             len == Len(pairs)
             One(j) == IF pairs[j].id = t THEN [id |-> t, n |-> pairs[j].n + 1] ELSE pairs[j]
  <1>1. DOMAIN pairs = 1 .. len /\ len \in Nat /\ \A j \in 1 .. len : pairs[j] \in Pair /\ pairs[j].id \in Ids /\ pairs[j].n \in Nat
    <2>1. DOMAIN pairs = 1 .. len /\ len \in Nat /\ \A j \in 1 .. len : pairs[j] \in Pair
      BY DEF PairLists
    <2>2. \A q \in Pair : q.id \in Ids /\ q.n \in Nat
      BY DEF Pair
    <2> QED BY <2>1, <2>2
  <1>2. /\ \A u : u # t => UsesTo(u, i + 1) = UsesTo(u, i)
        /\ UsesTo(t, i + 1) # {} /\ Cardinality(UsesTo(t, i + 1)) = Cardinality(UsesTo(t, i)) + 1
    BY UsesNext
  <1> HIDE DEF t, len
  <1>3. CASE t \notin Ids
    <2>1. new = pairs
      BY <1>3 DEF Count
    <2>2. \A u \in Ids : UsesTo(u, i + 1) = UsesTo(u, i)
      BY <1>2, <1>3
    <2>3. \A j \in 1 .. len : pairs[j].id \in Ids
      BY <1>1
    <2> HIDE DEF new
    <2>4. Counted(new, i + 1)
      BY <1>1, <2>1, <2>2, <2>3 DEF Counted
    <2> QED BY <2>4 DEF new, t
  <1>4. CASE t \in Ids /\ \E j \in DOMAIN pairs : pairs[j].id = t
    <2>1. new = [j \in 1 .. len |-> One(j)]
      BY <1>1, <1>4 DEF Count
    <2>2. /\ DOMAIN new = 1 .. len
          /\ \A j \in 1 .. len : new[j].id = pairs[j].id /\ new[j].n = IF pairs[j].id = t THEN pairs[j].n + 1 ELSE pairs[j].n
      BY <2>1
    <2> HIDE DEF new
    <2>3. \A j \in 1 .. len : UsesTo(new[j].id, i + 1) # {} /\ new[j].n = Cardinality(UsesTo(new[j].id, i + 1))
      <3> TAKE j \in 1 .. len
      <3>1. UsesTo(pairs[j].id, i) # {} /\ pairs[j].n = Cardinality(UsesTo(pairs[j].id, i))
        BY <1>1 DEF Counted
      <3>2. CASE pairs[j].id = t
        BY <1>2, <2>2, <3>1, <3>2
      <3>3. CASE pairs[j].id # t
        BY <1>2, <2>2, <3>1, <3>3
      <3> QED BY <3>2, <3>3
    <2>4. \A j \in 1 .. len, m \in 1 .. len : new[j].id = new[m].id => j = m
      BY <1>1, <2>2 DEF Counted
    <2>5. ASSUME NEW u \in Ids, UsesTo(u, i + 1) # {} PROVE \E j \in 1 .. len : new[j].id = u
      <3>1. CASE u = t
        BY <1>1, <1>4, <2>2, <3>1
      <3>2. CASE u # t
        <4>1. Listed(pairs, u)
          BY <1>2, <2>5, <3>2 DEF Counted
        <4> QED BY <1>1, <2>2, <4>1 DEF Listed
      <3> QED BY <3>1, <3>2
    <2>6. Counted(new, i + 1)
      BY <2>2, <2>3, <2>4, <2>5 DEF Counted, Listed
    <2> QED BY <2>6 DEF new, t
  <1>5. CASE t \in Ids /\ ~ \E j \in DOMAIN pairs : pairs[j].id = t
    <2> DEFINE e == [id |-> t, n |-> 1]
    <2>1. new = Append(pairs, e)
      BY <1>5 DEF Count
    <2>2. DOMAIN new = 1 .. len + 1 /\ new[len + 1] = e /\ \A j \in 1 .. len : new[j] = pairs[j]
      <3>1. pairs \in Seq(Pair)
        BY DEF PairLists
      <3> QED BY <1>1, <2>1, <3>1 DEF len
    <2>2a. e.id = t /\ e.n = 1
      OBVIOUS
    <2> HIDE DEF new, e
    <2>3. UsesTo(t, i) = {}
      BY <1>5 DEF Counted, Listed
    <2>4. Cardinality(UsesTo(t, i + 1)) = 1
      BY <1>2, <2>3, FS_EmptySet
    <2>5. \A j \in 1 .. len + 1 : j \in 1 .. len \/ j = len + 1
      BY <1>1
    <2>6. \A j \in 1 .. len : pairs[j].id # t
      BY <1>1, <1>5
    <2>7. \A j \in 1 .. len + 1 : UsesTo(new[j].id, i + 1) # {} /\ new[j].n = Cardinality(UsesTo(new[j].id, i + 1))
      <3> TAKE j \in 1 .. len + 1
      <3>1. CASE j \in 1 .. len
        <4>1. new[j] = pairs[j] /\ pairs[j].id # t
          BY <2>2, <2>6, <3>1
        <4>2. UsesTo(pairs[j].id, i) # {} /\ pairs[j].n = Cardinality(UsesTo(pairs[j].id, i))
          BY <1>1, <3>1 DEF Counted
        <4> QED BY <1>2, <4>1, <4>2
      <3>2. CASE j = len + 1
        BY <1>2, <2>2, <2>2a, <2>4, <3>2
      <3> QED BY <2>5, <3>1, <3>2
    <2>8. ASSUME NEW j \in 1 .. len + 1, NEW m \in 1 .. len + 1, new[j].id = new[m].id PROVE j = m
      <3>1. CASE j \in 1 .. len /\ m \in 1 .. len
        BY <1>1, <2>2, <2>8, <3>1 DEF Counted
      <3>2. CASE j \in 1 .. len /\ m = len + 1
        BY <2>2, <2>2a, <2>6, <2>8, <3>2
      <3>3. CASE j = len + 1 /\ m \in 1 .. len
        BY <2>2, <2>2a, <2>6, <2>8, <3>3
      <3> QED BY <2>5, <3>1, <3>2, <3>3
    <2>9. ASSUME NEW u \in Ids, UsesTo(u, i + 1) # {} PROVE \E j \in 1 .. len + 1 : new[j].id = u
      <3>0. len + 1 \in 1 .. len + 1 /\ \A j \in 1 .. len : j \in 1 .. len + 1
        BY <1>1
      <3>1. CASE u = t
        BY <2>2, <2>2a, <3>0, <3>1
      <3>2. CASE u # t
        <4>1. Listed(pairs, u)
          BY <1>2, <2>9, <3>2 DEF Counted
        <4>2. PICK j \in 1 .. len : pairs[j].id = u
          BY <1>1, <4>1 DEF Listed
        <4> QED BY <2>2, <3>0, <4>2
      <3> QED BY <3>1, <3>2
    <2>10. Counted(new, i + 1)
      BY <2>2, <2>7, <2>8, <2>9 DEF Counted, Listed
    <2> QED BY <2>10 DEF new, t
  <1> QED BY <1>3, <1>4, <1>5


\* f[i] is the pairs of the first i places of the window.
Counting(f) ==
  /\ f[0] = <<>>
  /\ \A i \in 1 .. Len(penalized) - WindowStart : f[i] = Count(f[i - 1], penalized[WindowStart + i])
  /\ Counts = f[Len(penalized) - WindowStart]

\* The tokens of the window are counted one by one.
LEMMA CountingSteps ==
  ASSUME penalized \in Seq(Int)
  PROVE  \E f \in [0 .. Len(penalized) - WindowStart -> PairLists] : Counting(f)
  <1> DEFINE n == Len(penalized) - WindowStart
             D == PairLists
             One(a, i) == Count(a, penalized[WindowStart + i])
             st == [y \in D \X (1 .. n) |-> One(y[1], y[2])]
             Value(g, i) == IF i = 0 THEN <<>> ELSE One(g[i - 1], i)
             Is(g) == g = [i \in 0 .. n |-> Value(g, i)]
  <1>1. n \in Nat /\ <<>> \in D /\ \A a \in D, i \in 1 .. n : One(a, i) \in D
    <2>1. ASSUME NEW a \in D, NEW i \in 1 .. n PROVE One(a, i) \in D
      BY <2>1, CountType
    <2>2. <<>> \in D
      BY DEF PairLists
    <2> HIDE DEF One
    <2> QED BY <2>1, <2>2, WindowType
  <1>2. Counts = (CHOOSE g : Is(g))[n]
    BY DEF Counts
  <1> HIDE DEF n, D, One
  <1>3. st \in [D \X (1 .. n) -> D] /\ \A a \in D, i \in 1 .. n : st[<<a, i>>] = One(a, i)
    BY <1>1
  <1> HIDE DEF st
  <1>4. PICK f \in [0 .. n -> D] : Stepwise(f, st, <<>>, n)
    BY <1>1, <1>3, StepsExist
  <1>5. f[0] = <<>> /\ \A i \in 1 .. n : f[i] = One(f[i - 1], i)
    <2>0. \A i \in 1 .. n : i - 1 \in 0 .. n
      BY <1>1
    <2>1. \A i \in 1 .. n : f[i - 1] \in D /\ f[i] = st[<<f[i - 1], i>>]
      BY <1>4, <2>0 DEF Stepwise
    <2> QED BY <1>3, <1>4, <2>1 DEF Stepwise
  <1>6. Is(f)
    <2>1. \A i \in 0 .. n : f[i] = Value(f, i)
      BY <1>1, <1>5
    <2> HIDE DEF Value
    <2> QED BY <1>4, <2>1
  <1> DEFINE it == CHOOSE g : Is(g)
  <1>7. Is(it)
    <2> HIDE DEF Is
    <2> QED BY <1>6
  <1> HIDE DEF it
  <1>8. \A i \in 0 .. n : it[i] = Value(it, i)
    <2>1. it = [i \in 0 .. n |-> Value(it, i)]
      BY <1>7
    <2> HIDE DEF Value
    <2> QED BY <2>1
  <1>9. it[n] = f[n]
    <2> DEFINE Good == {j \in 0 .. n : it[j] = f[j]}
    <2>1. 0 \in Good
      BY <1>1, <1>5, <1>8
    <2>2. ASSUME NEW m \in 0 .. n, m < n, m \in Good PROVE m + 1 \in Good
      <3>1. m + 1 \in 1 .. n /\ m + 1 \in 0 .. n /\ (m + 1) - 1 = m /\ m + 1 # 0
        BY <1>1, <2>2
      <3>2. it[m + 1] = One(it[m], m + 1) /\ f[m + 1] = One(f[m], m + 1) /\ it[m] = f[m]
        BY <1>5, <1>8, <2>2, <3>1
      <3> QED BY <3>1, <3>2
    <2> HIDE DEF Good
    <2>3. \A m \in 0 .. n : m \in Good
      BY <1>1, <2>1, <2>2, UpTo
    <2>4. n \in Good
      BY <1>1, <2>3
    <2> QED BY <2>4 DEF Good
  <1>10. Counts = f[n]
    BY <1>2, <1>9 DEF it
  <1> QED BY <1>4, <1>5, <1>10 DEF n, D, One, Counting


\* Every token of the window is penalized once, by its count.
LEMMA WindowIsRepetition ==
  ASSUME penalized \in Seq(Int), NEW x, NEW c
  PROVE  WindowPenalty(x, c) = RepetitionPenalty(x, c)
  <1> DEFINE n == Len(penalized) - WindowStart
  <1>1. PICK f \in [0 .. n -> PairLists] : Counting(f)
    BY CountingSteps
  <1> DEFINE Good == {i \in 0 .. n : Counted(f[i], i)}
  <1>2. n \in Nat /\ f[0] = <<>> /\ Counts = f[n]
    BY <1>1, WindowType DEF Counting
  <1>3. 0 \in Good
    <2>1. \A t : UsesTo(t, 0) = {}
      BY WindowType DEF UsesTo
    <2>2. Counted(<<>>, 0)
      BY <2>1 DEF Counted
    <2> QED BY <1>2, <2>2
  <1>4. ASSUME NEW i \in 0 .. n, i < n, i \in Good PROVE i + 1 \in Good
    <2> DEFINE now == f[i]
    <2>1. i + 1 \in 1 .. n /\ i + 1 \in 0 .. n /\ (i + 1) - 1 = i /\ i \in Nat
      BY <1>2, <1>4
    <2>2. f[i + 1] = Count(now, penalized[WindowStart + (i + 1)])
      BY <1>1, <2>1 DEF Counting
    <2>3. now \in PairLists /\ Counted(now, i)
      BY <1>1, <1>4
    <2> HIDE DEF now
    <2>4. Counted(Count(now, penalized[WindowStart + (i + 1)]), i + 1)
      BY <2>1, <2>3, CountStep
    <2> QED BY <2>1, <2>2, <2>4
  <1>5. Counted(Counts, n) /\ Counts \in PairLists
    <2> HIDE DEF Good
    <2>1. \A i \in 0 .. n : i \in Good
      BY <1>2, <1>3, <1>4, UpTo
    <2>2. n \in 0 .. n
      BY <1>2
    <2> QED BY <1>1, <1>2, <2>1, <2>2 DEF Good
  <1>6. \A t : UsesTo(t, n) = Uses(t)
    <2>1. WindowStart + n = Len(penalized)
      BY WindowType
    <2> QED BY <2>1 DEF UsesTo, Uses
  <1> HIDE DEF n
  <1>7. ASSUME NEW t \in Ids
        PROVE  (IF Listed(Counts, t) THEN Penalty(x[t], CountOf(Counts, t), c) ELSE x[t])
                 = (IF Uses(t) = {} THEN x[t] ELSE Penalty(x[t], Cardinality(Uses(t)), c))
    <2>1. CASE Listed(Counts, t)
      <3> DEFINE j == CHOOSE i \in DOMAIN Counts : Counts[i].id = t
      <3>1. j \in DOMAIN Counts /\ Counts[j].id = t
        BY <2>1 DEF Listed
      <3>2. CountOf(Counts, t) = Counts[j].n
        BY DEF CountOf
      <3> HIDE DEF j
      <3>3. Uses(t) # {} /\ Counts[j].n = Cardinality(Uses(t))
        BY <1>5, <1>6, <3>1 DEF Counted
      <3> QED BY <2>1, <3>2, <3>3
    <2>2. CASE ~Listed(Counts, t)
      <3>1. Uses(t) = {}
        BY <1>5, <1>6, <2>2 DEF Counted
      <3> QED BY <2>2, <3>1
    <2> QED BY <2>1, <2>2
  <1> QED BY <1>7 DEF WindowPenalty, RepetitionPenalty
-----------------------------------------------------------------------------
(* The calls.                                                               *)

Configuration == Configs \cup {Greedy}

\* The numbers of a configuration; what is copied is what is drawn from.
LEMMA ConfigType ==
  ASSUME NEW c \in Configuration
  PROVE  /\ ConfigAssumption(c) /\ c.inv \in Nat /\ c.topP \in Int /\ DrawK(c) \in Nat \ {0} /\ CopyK(c) = DrawK(c)
  <1>1. ConfigAssumption(c)
    BY SamplerAssumption DEF Configuration
  <1>2. c.inv \in Nat /\ c.topP \in Int /\ c.topK \in Int
    BY <1>1 DEF ConfigAssumption
  <1> QED BY <1>1, <1>2, SamplerAssumption DEF DrawK, CopyK

\* A second growth of the scratch finds it large enough.
LEMMA ScratchStays ==
  ASSUME NEW size, NEW k
  PROVE  EnsureScratch(EnsureScratch(size, k), k) = EnsureScratch(size, k)
  BY DEF EnsureScratch, Larger

\* A row the forward leaves, and its penalized logits, are above those of no token.
LEMMA PenalizedHigh ==
  ASSUME penalized \in Seq(Int), NEW x \in Logits, NEW c \in Configuration
  PROVE  x \in HighRows /\ RepetitionPenalty(x, c) \in HighRows
         /\ (penalized = <<>> => RepetitionPenalty(x, c) = x)
  <1> DEFINE y == RepetitionPenalty(x, c)
             One(t) == IF Uses(t) = {} THEN x[t] ELSE Penalty(x[t], Cardinality(Uses(t)), c)
  <1>1. x \in [Ids -> Int] /\ \A t \in Ids : Above(x[t])
    BY SamplerAssumption
  <1>2. x \in HighRows
    BY <1>1 DEF HighRows, Above
  <1>3. \A t : Cardinality(Uses(t)) \in 0 .. PenaltyWindow
    <2> TAKE t
    <2> DEFINE n == Len(penalized) - WindowStart
    <2>1. n \in Nat /\ n <= PenaltyWindow /\ PenaltyWindow \in Nat /\ WindowStart + n = Len(penalized)
      BY WindowType
    <2>2. UsesTo(t, n) = Uses(t)
      BY <2>1 DEF UsesTo, Uses
    <2> HIDE DEF n
    <2>3. Cardinality(UsesTo(t, n)) \in 0 .. n
      BY <2>1, UsesNext
    <2> QED BY <2>1, <2>2, <2>3
  <1>4. y = [t \in Ids |-> One(t)]
    BY DEF RepetitionPenalty
  <1>5. ASSUME NEW t \in Ids PROVE Above(One(t))
    <2>1. ConfigAssumption(c)
      BY ConfigType
    <2>2. Above(Penalty(x[t], Cardinality(Uses(t)), c))
      BY <1>3, <2>1 DEF ConfigAssumption
    <2> QED BY <1>1, <2>2
  <1>6. y \in HighRows
    <2> HIDE DEF One, y
    <2>1. \A t \in Ids : One(t) \in Int /\ MinusMax + 12 < One(t)
      BY <1>5 DEF Above
    <2> QED BY <1>4, <2>1 DEF HighRows
  <1>7. ASSUME penalized = <<>> PROVE y = x
    <2>1. \A t : Uses(t) = {}
      <3>1. Len(penalized) = 0 /\ WindowStart \in Nat
        BY <1>7, WindowType
      <3> QED BY <3>1 DEF Uses
    <2>2. \A t \in Ids : One(t) = x[t]
      BY <2>1
    <2> HIDE DEF One, y
    <2> QED BY <1>1, <1>4, <2>2
  <1> QED BY <1>2, <1>6, <1>7

\* What the sampler works on is the row with its penalties.
Expected(x, c) == IF Penalizes(c) THEN RepetitionPenalty(x, c) ELSE x

\* The sampler works on the row the configuration asks for, penalized or not.
LEMMA WorkingIsAsked ==
  ASSUME penalized \in Seq(Int), NEW x \in Logits, NEW c \in Configuration, NEW size
  PROVE  Working(x, c, size) = Expected(x, c) /\ Expected(x, c) \in HighRows
  <1>1. CASE ~Penalizes(c)
    BY <1>1, PenalizedHigh DEF Working, Expected
  <1>2. CASE Penalizes(c) /\ penalized = <<>>
    BY <1>2, PenalizedHigh DEF Working, Expected
  <1>3. CASE Penalizes(c) /\ penalized # <<>>
    <2>1. EnsureScratch(EnsureScratch(size, CopyK(c)), DrawK(c)) = EnsureScratch(size, CopyK(c))
      BY ConfigType, ScratchStays
    <2>2. Working(x, c, size) = WindowPenalty(x, c)
      BY <1>3, <2>1 DEF Working
    <2> QED BY <1>3, <2>2, PenalizedHigh, WindowIsRepetition DEF Expected
  <1> QED BY <1>1, <1>2, <1>3

\* The outcome of a call is what it was asked for.
LEMMA OutcomeAsked ==
  ASSUME penalized \in Seq(Int), NEW x \in Logits, NEW c \in Configuration, NEW r \in 0 .. Draws - 1, NEW size,
         NEW o \in Outcomes(x, c, r, size)
  PROVE  IsAsked(x, c, r, o)
  <1> DEFINE y == Expected(x, c)
             k == DrawK(c)
             list == TopK(y, k)
  <1>1. Working(x, c, size) = y /\ y \in HighRows
    BY WorkingIsAsked
  <1>2. k \in Nat \ {0} /\ c.inv \in Nat /\ c.topP \in Int
    BY ConfigType
  <1>3. CASE c.inv = 0
    <2>1. o.token = Argmax(y)
      BY <1>1, <1>3 DEF Outcomes
    <2> HIDE DEF y
    <2>2. o.token \in Ids /\ \A t \in Ids : y[t] <= y[o.token]
      BY <1>1, <2>1, ArgmaxRight
    <2> QED BY <1>3, <2>2 DEF IsAsked, y, Expected
  <1>4. CASE c.inv # 0
    <2>1. PICK t \in Drawn(list, c, r) : o = [list |-> list, token |-> t]
      BY <1>1, <1>4 DEF Outcomes
    <2> HIDE DEF y, k
    <2>2. Top(y, list, k, Ids)
      BY <1>1, <1>2, TopKTop
    <2>3. o.list = list /\ o.token = t
      BY <2>1
    <2> HIDE DEF list
    <2>4. AreLargest(y, list, Smaller(k, Vocab))
      BY <1>1, <1>2, <2>2, TopLargest
    <2>5. ASSUME k <= MaxWarpK PROVE t = FallsOn(list, Smaller(k, Vocab), c, r)
      <3>1. Len(list) = k
        BY <1>2, <2>2, ListsType DEF Top
      <3>2. ~(k > MaxWarpK)
        BY <1>2, <2>5, SamplerAssumption
      <3>3. t = SampleTopK(list, c, r)
        BY <2>1, <3>1, <3>2 DEF Drawn
      <3>4. c.inv \in Nat \ {0}
        BY <1>2, <1>4
      <3> QED BY <1>1, <1>2, <2>2, <3>3, <3>4, DrawFalls
    <2>6. c.topK > 0 => k = c.topK
      <3>1. c.topK \in Int
        BY ConfigType DEF ConfigAssumption
      <3> QED BY <3>1 DEF k, DrawK
    <2> QED BY <1>4, <2>3, <2>4, <2>5, <2>6 DEF IsAsked, y, Expected
  <1> QED BY <1>3, <1>4
-----------------------------------------------------------------------------
(* The invariant.                                                           *)

SamplerInv == penalized \in Seq(Int) /\ SamplesWhatIsAsked

\* A call that leaves the context is judged with it.
LEMMA AskedNow ==
  ASSUME penalized' = penalized,
         \A b \in DOMAIN sampled'.rows :
            IsAsked(sampled'.rows[b], sampled'.c, sampled'.draws[b], sampled'.results[b])
  PROVE  SamplesWhatIsAsked'
  BY DEF SamplesWhatIsAsked, IsAsked, RepetitionPenalty, Uses, WindowStart

\* A call of a row.
LEMMA SampleAsked ==
  ASSUME SamplerInv, NEW x \in Logits, NEW c \in Configuration, NEW r \in 0 .. Draws - 1, Sample(x, c, r)
  PROVE  SamplerInv'
  <1>1. PICK o \in Outcomes(x, c, r, scratch) : sampled' = [rows |-> <<x>>, c |-> c, draws |-> <<r>>, results |-> <<o>>]
    BY DEF Sample
  <1>2. penalized' = penalized /\ penalized \in Seq(Int)
    BY DEF Sample, SamplerInv
  <1>3. IsAsked(x, c, r, o)
    BY <1>2, OutcomeAsked
  <1>4. ASSUME NEW b \in DOMAIN sampled'.rows
        PROVE  IsAsked(sampled'.rows[b], sampled'.c, sampled'.draws[b], sampled'.results[b])
    <2>1. b = 1
      BY <1>1
    <2> QED BY <1>1, <1>3, <2>1
  <1> QED BY <1>2, <1>4, AskedNow DEF SamplerInv

\* A call of two rows: what the first one leaves in the scratch does not change the second.
LEMMA BatchAsked ==
  ASSUME SamplerInv, NEW x \in Logits, NEW y \in Logits, NEW c \in Configuration,
         NEW r \in 0 .. Draws - 1, NEW q \in 0 .. Draws - 1, SampleBatch(x, y, c, r, q)
  PROVE  SamplerInv'
  <1>1. PICK o \in Outcomes(x, c, r, scratch), p \in Outcomes(y, c, q, Scratched(c)) :
          sampled' = [rows |-> <<x, y>>, c |-> c, draws |-> <<r, q>>, results |-> <<o, p>>]
    BY DEF SampleBatch
  <1>2. penalized' = penalized /\ penalized \in Seq(Int)
    BY DEF SampleBatch, SamplerInv
  <1>3. IsAsked(x, c, r, o) /\ IsAsked(y, c, q, p)
    BY <1>2, OutcomeAsked
  <1>4. ASSUME NEW b \in DOMAIN sampled'.rows
        PROVE  IsAsked(sampled'.rows[b], sampled'.c, sampled'.draws[b], sampled'.results[b])
    <2>1. b = 1 \/ b = 2
      BY <1>1
    <2>2. CASE b = 1
      BY <1>1, <1>3, <2>2
    <2>3. CASE b = 2
      BY <1>1, <1>3, <2>3
    <2> QED BY <2>1, <2>2, <2>3
  <1> QED BY <1>2, <1>4, AskedNow DEF SamplerInv

\* Nothing is judged when nothing was drawn since the context changed.
LEMMA NothingAsked ==
  ASSUME sampled' = NoSample
  PROVE  SamplesWhatIsAsked'
  BY DEF SamplesWhatIsAsked, NoSample

(* The token of every row is the one the configuration asks for: a largest  *)
(* logit, or the one the draw falls on among the top_k largest, for every   *)
(* top_k from 1 to MaxWarpK (beyond it the list of the largest), whatever   *)
(* the vocabulary, the context, the threads and the warps, and whatever the *)
(* calls before it have left in the scratch.  Draws with top_k 0 are not    *)
(* judged: the code draws from DefaultK tokens, and its own comment says    *)
(* that 0 disables the limit.                                               *)
THEOREM SampledAsAsked == SamplerSpec => []SamplesWhatIsAsked
  <1>1. SamplerInit => SamplerInv
    <2>1. <<>> \in Seq(Int)
      OBVIOUS
    <2> QED BY <2>1 DEF SamplerInit, SamplerInv, SamplesWhatIsAsked, NoSample
  <1>2. SamplerInv /\ [SamplerNext]_sampler => SamplerInv'
    <2> SUFFICES ASSUME SamplerInv, [SamplerNext]_sampler PROVE SamplerInv'
      OBVIOUS
    <2>0. \A c \in Configs \cup {Greedy} : c \in Configuration
      BY DEF Configuration
    <2>1. ASSUME NEW t \in Fed, AddContext(t) PROVE SamplerInv'
      <3>1. t \in Int
        BY SamplerAssumption
      <3>2. penalized' \in Seq(Int)
        BY <2>1, <3>1 DEF AddContext, SamplerInv
      <3> QED BY <2>1, <3>2, NothingAsked DEF AddContext, SamplerInv
    <2>2. CASE ClearContext
      <3>1. penalized' \in Seq(Int)
        BY <2>2 DEF ClearContext
      <3> QED BY <2>2, <3>1, NothingAsked DEF ClearContext, SamplerInv
    <2>3. ASSUME NEW x \in Logits, NEW c \in Configs, NEW r \in 0 .. Draws - 1, Sample(x, c, r) PROVE SamplerInv'
      BY <2>0, <2>3, SampleAsked
    <2>4. ASSUME NEW x \in Logits, NEW y \in Logits, NEW c \in Configs, NEW r \in 0 .. Draws - 1, SampleBatch(x, y, c, r, 0)
          PROVE  SamplerInv'
      <3>1. 0 \in 0 .. Draws - 1
        BY SamplerAssumption
      <3> QED BY <2>0, <2>4, <3>1, BatchAsked
    <2>5. ASSUME NEW x \in Logits, SampleGreedy(x) PROVE SamplerInv'
      <3>1. 0 \in 0 .. Draws - 1
        BY SamplerAssumption
      <3> QED BY <2>0, <2>5, <3>1, SampleAsked DEF SampleGreedy
    <2>6. CASE UNCHANGED sampler
      <3>1. penalized' = penalized /\ sampled' = sampled
        BY <2>6 DEF sampler
      <3>2. \A b \in DOMAIN sampled'.rows : IsAsked(sampled'.rows[b], sampled'.c, sampled'.draws[b], sampled'.results[b])
        BY <3>1 DEF SamplerInv, SamplesWhatIsAsked
      <3> QED BY <3>1, <3>2, AskedNow DEF SamplerInv
    <2> QED BY <2>1, <2>2, <2>3, <2>4, <2>5, <2>6 DEF SamplerNext
  <1>3. SamplerInv => SamplesWhatIsAsked
    BY DEF SamplerInv
  <1> QED BY <1>1, <1>2, <1>3, PTL DEF SamplerSpec
=============================================================================
