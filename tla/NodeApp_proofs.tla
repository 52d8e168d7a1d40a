--------------------------- MODULE NodeApp_proofs ---------------------------
(***************************************************************************)
(* Proofs about the native part of the Node application (src/nodeapp):     *)
(* JsonTable, for any keys and any hash of them, and NodeBackend, for any  *)
(* number of back ends and lines.                                          *)
(***************************************************************************)
EXTENDS NodeBackend, JsonTable, SequenceLemmas

-----------------------------------------------------------------------------
(* The hash table.                                                          *)

Orders == 1 .. 29

(* Tables with given keys and values.                                       *)
Pairs(Keys, Values) == [key : Keys, serial : Nat, value : Values]
Buckets(Keys) == {NoBucket} \cup [used : {TRUE}, first : Keys, last : Keys]
IsTable(t, Keys, Values) ==
  t \in [order : Orders, pairs : Seq(Pairs(Keys, Values)),
         buckets : [0 .. Primes[t.order] - 1 -> Buckets(Keys)]]
Hashed(Keys) == \A k \in Keys : HashOf(k) \in Nat

(* SoundTable in terms of places on the list: the pairs of a bucket are     *)
(* those from place a to place b.                                           *)
Unique(t) == \A i, j \in DOMAIN t.pairs : t.pairs[i].key = t.pairs[j].key => i = j
Inside(t, x) == {i \in DOMAIN t.pairs : BucketOf(t, t.pairs[i].key) = x}
Run(t, x, a, b) ==
  /\ a <= b
  /\ Inside(t, x) = a .. b
  /\ t.buckets[x] = Bucket(t.pairs[a].key, t.pairs[b].key)
InRuns(t) ==
  /\ Unique(t)
  /\ \A x \in DOMAIN t.buckets :
        \/ Inside(t, x) = {} /\ t.buckets[x] = NoBucket
        \/ \E a, b \in DOMAIN t.pairs : Run(t, x, a, b)

(* There are 29 numbers of buckets, and none of them is 0.                  *)
LEMMA PrimesArePositive ==
    DOMAIN Primes = Orders /\ \A o \in Orders : Primes[o] \in Nat /\ Primes[o] > 0
  BY DEF Primes, Orders

(* What a table consists of.                                                *)
LEMMA TableParts ==
  ASSUME NEW Keys, NEW Values, NEW t, IsTable(t, Keys, Values)
  PROVE  /\ t.order \in Orders
         /\ t.pairs \in Seq(Pairs(Keys, Values)) /\ Len(t.pairs) \in Nat
         /\ DOMAIN t.pairs = 1 .. Len(t.pairs)
         /\ t.buckets \in [0 .. Primes[t.order] - 1 -> Buckets(Keys)]
         /\ \A i \in DOMAIN t.pairs : t.pairs[i] \in Pairs(Keys, Values) /\ t.pairs[i].key \in Keys
  <1>1. /\ t.order \in Orders /\ t.pairs \in Seq(Pairs(Keys, Values))
        /\ t.buckets \in [0 .. Primes[t.order] - 1 -> Buckets(Keys)]
    BY DEF IsTable
  <1>2. Len(t.pairs) \in Nat /\ DOMAIN t.pairs = 1 .. Len(t.pairs)
    BY <1>1
  <1>3. \A i \in DOMAIN t.pairs : t.pairs[i] \in Pairs(Keys, Values)
    BY <1>1
  <1> QED BY <1>1, <1>2, <1>3 DEF Pairs

(* A key leads to a bucket.                                                 *)
LEMMA KeyHasBucket ==
  ASSUME NEW Keys, NEW Values, NEW t, IsTable(t, Keys, Values), Hashed(Keys), NEW k \in Keys
  PROVE  BucketOf(t, k) \in DOMAIN t.buckets
  <1>1. t.order \in Orders /\ DOMAIN t.buckets = 0 .. Primes[t.order] - 1
    BY TableParts
  <1>2. Primes[t.order] \in Nat /\ Primes[t.order] > 0 /\ HashOf(k) \in Nat
    BY <1>1, PrimesArePositive DEF Hashed
  <1>3. HashOf(k) % Primes[t.order] \in 0 .. Primes[t.order] - 1
    BY <1>2
  <1> QED BY <1>1, <1>3 DEF BucketOf

(* A pair is found by its key.                                              *)
LEMMA PlaceOfKey ==
  ASSUME NEW Keys, NEW Values, NEW t, IsTable(t, Keys, Values), Unique(t), NEW i \in DOMAIN t.pairs
  PROVE  Place(t, t.pairs[i].key) = i
  <1>1. DOMAIN t.pairs = 1 .. Len(t.pairs) /\ Len(t.pairs) \in Nat
    BY TableParts
  <1>2. {j \in 1 .. Len(t.pairs) : t.pairs[j].key = t.pairs[i].key} = {i}
    BY <1>1 DEF Unique
  <1>3. Min({i}) = i /\ {i} # {}
    BY <1>1 DEF Min
  <1> QED BY <1>2, <1>3 DEF Place, SelectInSeq

(* What Place gives is 0 or a place.                                        *)
LEMMA PlaceIsPlace ==
  ASSUME NEW t, Len(t.pairs) \in Nat, NEW k
  PROVE  /\ Place(t, k) \in Nat
         /\ Place(t, k) # 0 => Place(t, k) \in 1 .. Len(t.pairs) /\ t.pairs[Place(t, k)].key = k
  <1> DEFINE at == {j \in 1 .. Len(t.pairs) : t.pairs[j].key = k}
  <1>1. Place(t, k) = IF at # {} THEN Min(at) ELSE 0
    BY DEF Place, SelectInSeq
  <1>2. at \in SUBSET Nat
    OBVIOUS
  <1>3. ASSUME at # {} PROVE Min(at) \in at
    <2> HIDE DEF at
    <2>1. \E m \in at : \A n \in at : m <= n
      BY <1>2, <1>3, LeastNatural
    <2> QED BY <2>1 DEF Min
  <1>4. CASE at = {}
    BY <1>1, <1>4
  <1>5. CASE at # {}
    <2>1. Place(t, k) \in at
      BY <1>1, <1>3, <1>5
    <2> QED BY <2>1
  <1> QED BY <1>4, <1>5

(* A bucket is empty, or it has a first and a last pair.                    *)
LEMMA BucketParts ==
  ASSUME NEW Keys, NEW b \in Buckets(Keys)
  PROVE  /\ b.used \in BOOLEAN
         /\ b.used <=> b # NoBucket
         /\ b.used => b.first \in Keys /\ b.last \in Keys /\ b = Bucket(b.first, b.last)
  <1>1. CASE b = NoBucket
    BY <1>1 DEF NoBucket
  <1>2. CASE b \in [used : {TRUE}, first : Keys, last : Keys]
    <2>1. b.used = TRUE /\ b.first \in Keys /\ b.last \in Keys
      BY <1>2
    <2>2. b = [used |-> b.used, first |-> b.first, last |-> b.last]
      BY <1>2
    <2>3. b # NoBucket
      <3>1. NoBucket.used = FALSE
        BY DEF NoBucket
      <3> QED BY <2>1, <3>1
    <2> QED BY <2>1, <2>2, <2>3 DEF Bucket
  <1> QED BY <1>1, <1>2 DEF Buckets

(* The two ways to say that a table is sound.                               *)
LEMMA SoundIsInRuns ==
  ASSUME NEW Keys, NEW Values, NEW t, IsTable(t, Keys, Values), Hashed(Keys)
  PROVE  SoundTable(t) <=> InRuns(t)
  <1> DEFINE keys == [i \in DOMAIN t.pairs |-> t.pairs[i].key]
  <1>1. IsInjective(keys) <=> Unique(t)
    BY DEF IsInjective, Unique
  <1>2. DOMAIN t.pairs = 1 .. Len(t.pairs) /\ Len(t.pairs) \in Nat
    BY TableParts
  <1>3. SUFFICES ASSUME Unique(t), NEW x \in DOMAIN t.buckets
                 PROVE  (IF Inside(t, x) = {} THEN ~t.buckets[x].used
                         ELSE /\ t.buckets[x].used
                              /\ Inside(t, x) = Place(t, t.buckets[x].first) .. Place(t, t.buckets[x].last))
                        <=> \/ Inside(t, x) = {} /\ t.buckets[x] = NoBucket
                            \/ \E a, b \in DOMAIN t.pairs : Run(t, x, a, b)
    BY <1>1 DEF SoundTable, InRuns, Inside
  <1>4. /\ t.buckets[x] \in Buckets(Keys)
        /\ t.buckets[x].used \in BOOLEAN
        /\ t.buckets[x].used <=> t.buckets[x] # NoBucket
        /\ t.buckets[x].used => t.buckets[x] = Bucket(t.buckets[x].first, t.buckets[x].last)
    <2>1. t.buckets[x] \in Buckets(Keys)
      BY TableParts
    <2> QED BY <2>1, BucketParts
  <1>5. ASSUME Inside(t, x) = {}, NEW a \in DOMAIN t.pairs, NEW b \in DOMAIN t.pairs, Run(t, x, a, b) PROVE FALSE
    BY <1>2, <1>5 DEF Run
  <1>6. ASSUME Inside(t, x) # {}, t.buckets[x].used,
               Inside(t, x) = Place(t, t.buckets[x].first) .. Place(t, t.buckets[x].last)
        PROVE  \E a, b \in DOMAIN t.pairs : Run(t, x, a, b)
    <2> DEFINE a == Place(t, t.buckets[x].first)
               b == Place(t, t.buckets[x].last)
    <2>1. Inside(t, x) \subseteq DOMAIN t.pairs
      BY DEF Inside
    <2>2. \A k : Place(t, k) \in Nat /\ (Place(t, k) # 0 => t.pairs[Place(t, k)].key = k)
      BY <1>2, PlaceIsPlace
    <2>3. a \in Nat /\ b \in Nat
      BY <2>2
    <2> HIDE DEF a, b
    <2>4. a <= b /\ a \in a .. b /\ b \in a .. b
      BY <1>6, <2>3 DEF a, b
    <2>5. a \in DOMAIN t.pairs /\ b \in DOMAIN t.pairs
      BY <1>6, <2>1, <2>4 DEF a, b
    <2>6. t.pairs[a].key = t.buckets[x].first /\ t.pairs[b].key = t.buckets[x].last
      BY <1>2, <2>2, <2>5 DEF a, b
    <2>7. Run(t, x, a, b)
      BY <1>4, <1>6, <2>4, <2>6 DEF Run, a, b
    <2> QED BY <2>5, <2>7
  <1>7. ASSUME NEW a \in DOMAIN t.pairs, NEW b \in DOMAIN t.pairs, Run(t, x, a, b)
        PROVE  t.buckets[x].used /\ Inside(t, x) = Place(t, t.buckets[x].first) .. Place(t, t.buckets[x].last)
    <2>1. Place(t, t.pairs[a].key) = a /\ Place(t, t.pairs[b].key) = b
      BY <1>3, PlaceOfKey
    <2> QED BY <1>7, <2>1 DEF Run, Bucket
  <1> QED BY <1>4, <1>5, <1>6, <1>7

(* hashtable_find_pair finds a key exactly when a pair has it.              *)
LEMMA FindsKey ==
  ASSUME NEW Keys, NEW Values, NEW t, IsTable(t, Keys, Values), Hashed(Keys), InRuns(t),
         NEW k \in Keys
  PROVE  /\ FindPair(t, k) # 0 => FindPair(t, k) \in DOMAIN t.pairs /\ t.pairs[FindPair(t, k)].key = k
         /\ \A i \in DOMAIN t.pairs : t.pairs[i].key = k => FindPair(t, k) = i
  <1> DEFINE x == BucketOf(t, k)
             bucket == t.buckets[x]
             segment == IF bucket.used THEN Place(t, bucket.first) .. Place(t, bucket.last) ELSE {}
             found == {i \in segment : t.pairs[i].key = k}
  <1>1. x \in DOMAIN t.buckets
    BY KeyHasBucket
  <1>2. DOMAIN t.pairs = 1 .. Len(t.pairs) /\ Len(t.pairs) \in Nat
    BY TableParts
  <1>3. segment = Inside(t, x)
    <2> HIDE DEF x
    <2>1. CASE Inside(t, x) = {} /\ bucket = NoBucket
      BY <2>1 DEF NoBucket
    <2>2. CASE \E a, b \in DOMAIN t.pairs : Run(t, x, a, b)
      <3>1. PICK a \in DOMAIN t.pairs, b \in DOMAIN t.pairs : Run(t, x, a, b)
        BY <2>2
      <3>2. Place(t, t.pairs[a].key) = a /\ Place(t, t.pairs[b].key) = b
        BY PlaceOfKey DEF InRuns
      <3>3. bucket.used /\ bucket.first = t.pairs[a].key /\ bucket.last = t.pairs[b].key
        BY <3>1 DEF Run, Bucket
      <3>4. Inside(t, x) = a .. b
        BY <3>1 DEF Run
      <3> QED BY <3>2, <3>3, <3>4
    <2> QED BY <1>1, <2>1, <2>2 DEF InRuns
  <1>4. FindPair(t, k) = IF found = {} THEN 0 ELSE CHOOSE i \in found : TRUE
    BY DEF FindPair
  <1>5. found = {i \in DOMAIN t.pairs : t.pairs[i].key = k}
    <2> HIDE DEF segment
    <2> QED BY <1>3 DEF Inside
  <1> HIDE DEF found
  <1>6. found # {} => (CHOOSE i \in found : TRUE) \in found
    OBVIOUS
  <1>7. 0 \notin DOMAIN t.pairs
    BY <1>2
  <1>8. ASSUME FindPair(t, k) # 0 PROVE FindPair(t, k) \in DOMAIN t.pairs /\ t.pairs[FindPair(t, k)].key = k
    BY <1>4, <1>5, <1>6, <1>8
  <1>9. ASSUME NEW i \in DOMAIN t.pairs, t.pairs[i].key = k PROVE FindPair(t, k) = i
    <2>1. i \in found
      BY <1>5, <1>9
    <2>2. FindPair(t, k) \in found
      BY <1>4, <1>6, <2>1
    <2>3. FindPair(t, k) \in DOMAIN t.pairs /\ t.pairs[FindPair(t, k)].key = t.pairs[i].key
      BY <1>5, <1>9, <2>2
    <2> QED BY <2>3 DEF InRuns, Unique
  <1> QED BY <1>8, <1>9

(* A run, by the buckets that the pairs at its places and at no others have. *)
LEMMA RunPlaces ==
  ASSUME NEW t, NEW x, NEW n \in Nat, DOMAIN t.pairs = 1 .. n,
         NEW a \in 1 .. n, NEW b \in 1 .. n
  PROVE  Inside(t, x) = a .. b <=> \A i \in 1 .. n : BucketOf(t, t.pairs[i].key) = x <=> a <= i /\ i <= b
  BY DEF Inside

(* Two runs have no place in common.                                        *)
LEMMA RunsAreApart ==
  ASSUME NEW t, NEW x, NEW y, x # y, NEW n \in Nat, DOMAIN t.pairs = 1 .. n,
         NEW a \in 1 .. n, NEW b \in 1 .. n, Run(t, x, a, b),
         NEW c \in 1 .. n, NEW d \in 1 .. n, Run(t, y, c, d)
  PROVE  d < a \/ c > b
  <1> SUFFICES ASSUME a <= d, c <= b PROVE FALSE
    OBVIOUS
  <1>1. a <= b /\ c <= d /\ Inside(t, x) = a .. b /\ Inside(t, y) = c .. d
    BY DEF Run
  <1> DEFINE i == IF a <= c THEN c ELSE a
  <1>2. i \in a .. b /\ i \in c .. d
    BY <1>1
  <1>3. i \in Inside(t, x) /\ i \in Inside(t, y)
    BY <1>1, <1>2
  <1> HIDE DEF i
  <1> QED BY <1>3 DEF Inside

(* One pair more, in a table with as many buckets.                          *)
Adds(t, pair, u, Keys, Values) ==
  /\ IsTable(u, Keys, Values) /\ InRuns(u) /\ u.order = t.order
  /\ Len(u.pairs) = Len(t.pairs) + 1
  /\ ToSet(u.pairs) = ToSet(t.pairs) \cup {pair}

(* A bucket with another first pair.                                        *)
LEMMA BucketFront ==
  ASSUME NEW f, NEW g, NEW l
  PROVE  [Bucket(f, l) EXCEPT !.first = g] = Bucket(g, l)
  <1> DEFINE S == {f, g, l}
             B == [used : {TRUE}, first : S, last : S]
             r == Bucket(f, l)
  <1>1. r \in B /\ r.used = TRUE /\ r.last = l
    BY DEF Bucket
  <1> HIDE DEF r
  <1>2. /\ [r EXCEPT !.first = g] \in B
        /\ [r EXCEPT !.first = g].first = g
        /\ [r EXCEPT !.first = g].used = TRUE
        /\ [r EXCEPT !.first = g].last = l
    BY <1>1
  <1>3. \A b \in B : b = [used |-> b.used, first |-> b.first, last |-> b.last]
    OBVIOUS
  <1>4. [r EXCEPT !.first = g] = [used |-> TRUE, first |-> g, last |-> l]
    BY <1>2, <1>3
  <1> QED BY <1>4 DEF r, Bucket

(* insert_to_bucket, in front of a run: the runs behind move up by a place. *)
LEMMA InsertInFront ==
  ASSUME NEW Keys, NEW Values, NEW t, IsTable(t, Keys, Values), Hashed(Keys), InRuns(t),
         NEW pair \in Pairs(Keys, Values), \A i \in DOMAIN t.pairs : t.pairs[i].key # pair.key,
         t.buckets[BucketOf(t, pair.key)].used
  PROVE  Adds(t, pair, InsertToBucket(t, pair), Keys, Values)
  <1> DEFINE x == BucketOf(t, pair.key)
             n == Len(t.pairs)
             P == Pairs(Keys, Values)
             u == InsertToBucket(t, pair)
  <1>1. /\ t.order \in Orders /\ t.pairs \in Seq(P) /\ n \in Nat /\ DOMAIN t.pairs = 1 .. n
        /\ t.buckets \in [0 .. Primes[t.order] - 1 -> Buckets(Keys)]
        /\ \A i \in 1 .. n : t.pairs[i] \in P /\ t.pairs[i].key \in Keys
    BY TableParts
  <1>2. pair.key \in Keys
    BY DEF Pairs
  <1>3. x \in DOMAIN t.buckets
    BY <1>2, KeyHasBucket
  <1>4. t.buckets[x] # NoBucket
    BY DEF NoBucket
  <1>5. PICK a \in DOMAIN t.pairs, b \in DOMAIN t.pairs : Run(t, x, a, b)
    BY <1>3, <1>4 DEF InRuns
  <1>6. /\ a <= b /\ a \in 1 .. n /\ b \in 1 .. n /\ Inside(t, x) = a .. b
        /\ t.buckets[x] = Bucket(t.pairs[a].key, t.pairs[b].key)
    BY <1>1, <1>5 DEF Run
  <1>7. Place(t, t.buckets[x].first) = a
    <2>1. Place(t, t.pairs[a].key) = a
      BY PlaceOfKey DEF InRuns
    <2>2. t.buckets[x].first = t.pairs[a].key
      BY <1>6 DEF Bucket
    <2> QED BY <2>1, <2>2
  <1> DEFINE q == InsertAt(t.pairs, a, pair)
             buckets == [t.buckets EXCEPT ![x] = Bucket(pair.key, t.pairs[b].key)]
  <1>8. u = [order |-> t.order, pairs |-> q, buckets |-> buckets]
    <2>1. [t.buckets EXCEPT ![x].first = pair.key] = buckets
      <3>1. [t.buckets[x] EXCEPT !.first = pair.key] = Bucket(pair.key, t.pairs[b].key)
        BY <1>6, BucketFront
      <3> QED BY <3>1
    <2>2. t = [order |-> t.order, pairs |-> t.pairs, buckets |-> t.buckets]
      BY DEF IsTable
    <2>3. u = [t EXCEPT !.pairs = q, !.buckets = [t.buckets EXCEPT ![x].first = pair.key]]
      BY <1>7 DEF InsertToBucket
    <2> QED BY <2>1, <2>2, <2>3
  <1>9. /\ q \in Seq(P) /\ Len(q) = n + 1 /\ DOMAIN q = 1 .. n + 1
        /\ \A j \in 1 .. n + 1 : q[j] = IF j < a THEN t.pairs[j] ELSE IF j = a THEN pair ELSE t.pairs[j - 1]
    <2> HIDE DEF P
    <2>1. t.pairs \in Seq(P) /\ a \in 1 .. Len(t.pairs) /\ pair \in P
      BY <1>1, <1>6 DEF P
    <2>2. Inserted(t.pairs, a, pair, q, P)
      BY <2>1, InsertAtPlaces
    <2> HIDE DEF q
    <2> QED BY <1>1, <2>2 DEF Inserted
  <1>10. /\ buckets \in [0 .. Primes[t.order] - 1 -> Buckets(Keys)]
         /\ buckets[x] = Bucket(pair.key, t.pairs[b].key)
         /\ \A y \in DOMAIN t.buckets : y # x => buckets[y] = t.buckets[y]
    <2>1. Bucket(pair.key, t.pairs[b].key) \in Buckets(Keys)
      BY <1>1, <1>2, <1>6 DEF Bucket, Buckets
    <2> QED BY <1>1, <1>3, <2>1
  <1> HIDE DEF u, q, buckets
  <1>11. u.order = t.order /\ u.pairs = q /\ u.buckets = buckets
    BY <1>8
  <1>12. \A k : BucketOf(u, k) = BucketOf(t, k)
    BY <1>11 DEF BucketOf
  <1>13. IsTable(u, Keys, Values)
    BY <1>1, <1>8, <1>9, <1>10 DEF IsTable
  <1>14. Unique(u)
    <2> SUFFICES ASSUME NEW i \in 1 .. n + 1, NEW j \in 1 .. n + 1, q[i].key = q[j].key PROVE i = j
      BY <1>9, <1>11 DEF Unique
    <2>1. \A m \in 1 .. n : t.pairs[m].key # pair.key
      BY <1>1
    <2>2. \A l, m \in 1 .. n : t.pairs[l].key = t.pairs[m].key => l = m
      BY <1>1 DEF InRuns, Unique
    <2>6. ASSUME NEW m \in 1 .. n + 1, m # a PROVE q[m].key # pair.key
      <3>1. CASE m < a
        <4>1. m \in 1 .. n /\ q[m] = t.pairs[m]
          BY <1>1, <1>6, <1>9, <3>1
        <4> QED BY <2>1, <4>1
      <3>2. CASE m > a
        <4>1. m - 1 \in 1 .. n /\ q[m] = t.pairs[m - 1]
          BY <1>1, <1>6, <1>9, <3>2
        <4> QED BY <2>1, <4>1
      <3> QED BY <1>6, <2>6, <3>1, <3>2
    <2>7. q[a] = pair
      BY <1>1, <1>6, <1>9
    <2>3. CASE i = a
      BY <2>3, <2>6, <2>7
    <2>4. CASE j = a
      BY <2>4, <2>6, <2>7
    <2>5. CASE i # a /\ j # a
      <3> DEFINE l == IF i < a THEN i ELSE i - 1
                 m == IF j < a THEN j ELSE j - 1
      <3>1. l \in 1 .. n /\ m \in 1 .. n /\ q[i] = t.pairs[l] /\ q[j] = t.pairs[m]
        BY SMTT(30), <1>1, <1>6, <1>9, <2>5
      <3>2. l = m
        <4> HIDE DEF l, m
        <4> QED BY <2>2, <3>1
      <3> QED BY <1>6, <2>5, <3>2
    <2> QED BY <2>3, <2>4, <2>5
  <1>15. \A j \in 1 .. n + 1 :
            /\ j < a => j \in 1 .. n /\ BucketOf(u, q[j].key) = BucketOf(t, t.pairs[j].key)
            /\ j = a => BucketOf(u, q[j].key) = x
            /\ j > a => j - 1 \in 1 .. n /\ BucketOf(u, q[j].key) = BucketOf(t, t.pairs[j - 1].key)
    BY <1>1, <1>6, <1>9, <1>12
  <1>16. ASSUME NEW y \in DOMAIN t.buckets
         PROVE  \/ Inside(u, y) = {} /\ u.buckets[y] = NoBucket
                \/ \E c, d \in DOMAIN u.pairs : Run(u, y, c, d)
    <2>1. CASE y = x
      <3>1. \A i \in 1 .. n : BucketOf(t, t.pairs[i].key) = x <=> a <= i /\ i <= b
        BY <1>1, <1>6, RunPlaces
      <3>2. \A j \in 1 .. n + 1 : BucketOf(u, q[j].key) = x <=> a <= j /\ j <= b + 1
        BY <1>6, <1>15, <3>1
      <3>3. Inside(u, x) = a .. b + 1
        BY <1>1, <1>6, <1>9, <1>11, <3>2 DEF Inside
      <3>4. q[a].key = pair.key /\ q[b + 1].key = t.pairs[b].key
        BY <1>1, <1>6, <1>9
      <3>5. a \in 1 .. n + 1 /\ b + 1 \in 1 .. n + 1 /\ a <= b + 1
        BY <1>1, <1>6
      <3>6. Run(u, x, a, b + 1)
        BY <1>10, <1>11, <3>3, <3>4, <3>5 DEF Run
      <3> QED BY <1>9, <1>11, <2>1, <3>5, <3>6
    <2>2. CASE y # x /\ Inside(t, y) = {} /\ t.buckets[y] = NoBucket
      <3>1. \A i \in 1 .. n : BucketOf(t, t.pairs[i].key) # y
        BY <1>1, <2>2 DEF Inside
      <3>2. \A j \in 1 .. n + 1 : BucketOf(u, q[j].key) # y
        BY <1>1, <1>6, <1>15, <2>2, <3>1
      <3>3. Inside(u, y) = {}
        BY <1>9, <1>11, <3>2 DEF Inside
      <3> QED BY <1>10, <1>11, <2>2, <3>3
    <2>3. CASE y # x /\ \E c, d \in DOMAIN t.pairs : Run(t, y, c, d)
      <3>1. PICK c \in 1 .. n, d \in 1 .. n : Run(t, y, c, d)
        BY <1>1, <2>3
      <3>2. d < a \/ c > b
        BY <1>1, <1>5, <1>6, <2>3, <3>1, RunsAreApart
      <3>3. c <= d /\ t.buckets[y] = Bucket(t.pairs[c].key, t.pairs[d].key)
        BY <3>1 DEF Run
      <3>4. \A i \in 1 .. n : BucketOf(t, t.pairs[i].key) = y <=> c <= i /\ i <= d
        <4>1. Inside(t, y) = c .. d
          BY <3>1 DEF Run
        <4> QED BY <1>1, <4>1, RunPlaces
      <3>5. CASE d < a
        <4>1. \A j \in 1 .. n + 1 : BucketOf(u, q[j].key) = y <=> c <= j /\ j <= d
          BY <1>1, <1>6, <1>15, <2>3, <3>4, <3>5
        <4>2. Inside(u, y) = c .. d
          BY <1>1, <1>9, <1>11, <3>5, <4>1 DEF Inside
        <4>3. q[c] = t.pairs[c] /\ q[d] = t.pairs[d]
          BY <1>1, <1>6, <1>9, <3>3, <3>5
        <4>4. c \in 1 .. n + 1 /\ d \in 1 .. n + 1
          BY <1>1
        <4>5. Run(u, y, c, d)
          BY <1>10, <1>11, <2>3, <3>3, <4>2, <4>3 DEF Run
        <4> QED BY <1>9, <1>11, <4>4, <4>5
      <3>6. CASE c > b
        <4>1. \A j \in 1 .. n + 1 : BucketOf(u, q[j].key) = y <=> c + 1 <= j /\ j <= d + 1
          <5> SUFFICES ASSUME NEW j \in 1 .. n + 1
                       PROVE  BucketOf(u, q[j].key) = y <=> c + 1 <= j /\ j <= d + 1
            OBVIOUS
          <5>1. CASE j < a
            BY <1>1, <1>6, <1>15, <3>4, <3>6, <5>1
          <5>2. CASE j = a
            BY <1>1, <1>6, <1>15, <2>3, <3>6, <5>2
          <5>3. CASE j > a
            BY <1>1, <1>6, <1>15, <3>4, <3>6, <5>3
          <5> QED BY <1>1, <5>1, <5>2, <5>3
        <4>2. Inside(u, y) = c + 1 .. d + 1
          BY <1>1, <1>9, <1>11, <3>6, <4>1 DEF Inside
        <4>3. q[c + 1] = t.pairs[c] /\ q[d + 1] = t.pairs[d]
          <5>1. /\ c + 1 \in 1 .. n + 1 /\ c + 1 > a /\ (c + 1) - 1 = c
                /\ d + 1 \in 1 .. n + 1 /\ d + 1 > a /\ (d + 1) - 1 = d
            BY <1>1, <1>6, <3>3, <3>6
          <5> QED BY <1>6, <1>9, <5>1
        <4>4. c + 1 \in 1 .. n + 1 /\ d + 1 \in 1 .. n + 1 /\ c + 1 <= d + 1
          BY <1>1, <3>3
        <4>5. Run(u, y, c + 1, d + 1)
          BY <1>10, <1>11, <2>3, <3>3, <4>2, <4>3, <4>4 DEF Run
        <4> QED BY <1>9, <1>11, <4>4, <4>5
      <3> QED BY <3>2, <3>5, <3>6
    <2> QED BY <2>1, <2>2, <2>3 DEF InRuns
  <1>17. InRuns(u)
    <2>1. DOMAIN u.buckets = DOMAIN t.buckets
      BY <1>1, <1>10, <1>11
    <2> QED BY <1>14, <1>16, <2>1 DEF InRuns
  <1>18. ToSet(q) = ToSet(t.pairs) \cup {pair}
    <2>1. ASSUME NEW j \in 1 .. n + 1 PROVE q[j] \in ToSet(t.pairs) \cup {pair}
      <3>1. CASE j < a
        BY <1>1, <1>6, <1>9, <3>1 DEF ToSet
      <3>2. CASE j = a
        BY <1>9, <3>2
      <3>3. CASE j > a
        <4>1. j - 1 \in 1 .. n /\ q[j] = t.pairs[j - 1]
          BY <1>1, <1>6, <1>9, <3>3
        <4> QED BY <1>1, <4>1 DEF ToSet
      <3> QED BY <1>6, <3>1, <3>2, <3>3
    <2>2. ASSUME NEW i \in 1 .. n PROVE t.pairs[i] \in ToSet(q)
      <3> DEFINE j == IF i < a THEN i ELSE i + 1
      <3>1. j \in 1 .. n + 1 /\ q[j] = t.pairs[i]
        BY <1>1, <1>6, <1>9
      <3> HIDE DEF j
      <3> QED BY <1>9, <3>1 DEF ToSet
    <2>3. pair \in ToSet(q)
      <3>1. a \in 1 .. n + 1 /\ q[a] = pair
        BY <1>1, <1>6, <1>9
      <3> QED BY <1>9, <3>1 DEF ToSet
    <2>4. ToSet(q) = {q[j] : j \in 1 .. n + 1} /\ ToSet(t.pairs) = {t.pairs[i] : i \in 1 .. n}
      BY <1>1, <1>9 DEF ToSet
    <2> QED BY <2>1, <2>2, <2>3, <2>4
  <1> QED BY <1>9, <1>11, <1>13, <1>17, <1>18 DEF u, Adds

(* insert_to_bucket, to the end of the list: the bucket was empty.          *)
LEMMA InsertAtTheEnd ==
  ASSUME NEW Keys, NEW Values, NEW t, IsTable(t, Keys, Values), Hashed(Keys), InRuns(t),
         NEW pair \in Pairs(Keys, Values), \A i \in DOMAIN t.pairs : t.pairs[i].key # pair.key,
         ~t.buckets[BucketOf(t, pair.key)].used
  PROVE  Adds(t, pair, InsertToBucket(t, pair), Keys, Values)
  <1> DEFINE x == BucketOf(t, pair.key)
             n == Len(t.pairs)
             P == Pairs(Keys, Values)
             u == InsertToBucket(t, pair)
  <1>1. /\ t.order \in Orders /\ t.pairs \in Seq(P) /\ n \in Nat /\ DOMAIN t.pairs = 1 .. n
        /\ t.buckets \in [0 .. Primes[t.order] - 1 -> Buckets(Keys)]
        /\ \A i \in 1 .. n : t.pairs[i] \in P /\ t.pairs[i].key \in Keys
    BY TableParts
  <1>2. pair.key \in Keys
    BY DEF Pairs
  <1>3. x \in DOMAIN t.buckets
    BY <1>2, KeyHasBucket
  <1>4. \A i \in 1 .. n : BucketOf(t, t.pairs[i].key) # x
    <2>1. ASSUME NEW a \in DOMAIN t.pairs, NEW b \in DOMAIN t.pairs, Run(t, x, a, b) PROVE FALSE
      <3>1. t.buckets[x].used = TRUE
        BY <2>1 DEF Run, Bucket
      <3> QED BY <3>1
    <2>2. Inside(t, x) = {}
      BY <1>3, <2>1 DEF InRuns
    <2> QED BY <1>1, <2>2 DEF Inside
  <1> DEFINE q == Append(t.pairs, pair)
             buckets == [t.buckets EXCEPT ![x] = Bucket(pair.key, pair.key)]
  <1>8. u = [order |-> t.order, pairs |-> q, buckets |-> buckets]
    <2>2. t = [order |-> t.order, pairs |-> t.pairs, buckets |-> t.buckets]
      BY DEF IsTable
    <2>3. u = [t EXCEPT !.pairs = q, !.buckets = buckets]
      BY DEF InsertToBucket
    <2> QED BY <2>2, <2>3
  <1>9. /\ q \in Seq(P) /\ Len(q) = n + 1 /\ DOMAIN q = 1 .. n + 1
        /\ q[n + 1] = pair
        /\ \A j \in 1 .. n : q[j] = t.pairs[j]
    <2> HIDE DEF P
    <2>1. t.pairs \in Seq(P) /\ pair \in P
      BY <1>1 DEF P
    <2> QED BY <1>1, <2>1, AppendProperties
  <1>10. /\ buckets \in [0 .. Primes[t.order] - 1 -> Buckets(Keys)]
         /\ buckets[x] = Bucket(pair.key, pair.key)
         /\ \A y \in DOMAIN t.buckets : y # x => buckets[y] = t.buckets[y]
    <2>1. Bucket(pair.key, pair.key) \in Buckets(Keys)
      BY <1>2 DEF Bucket, Buckets
    <2> QED BY <1>1, <1>3, <2>1
  <1> HIDE DEF u, q, buckets
  <1>11. u.order = t.order /\ u.pairs = q /\ u.buckets = buckets
    BY <1>8
  <1>12. \A k : BucketOf(u, k) = BucketOf(t, k)
    BY <1>11 DEF BucketOf
  <1>13. IsTable(u, Keys, Values)
    BY <1>1, <1>8, <1>9, <1>10 DEF IsTable
  <1>14. Unique(u)
    <2> SUFFICES ASSUME NEW i \in 1 .. n + 1, NEW j \in 1 .. n + 1, q[i].key = q[j].key PROVE i = j
      BY <1>9, <1>11 DEF Unique
    <2>1. \A m \in 1 .. n : q[m].key # pair.key
      BY <1>1, <1>9
    <2>2. \A l, m \in 1 .. n : q[l].key = q[m].key => l = m
      BY <1>1, <1>9 DEF InRuns, Unique
    <2>3. \A m \in 1 .. n + 1 : m \in 1 .. n \/ m = n + 1
      BY <1>1
    <2> QED BY <1>9, <2>1, <2>2, <2>3
  <1>15. /\ BucketOf(u, q[n + 1].key) = x
         /\ \A j \in 1 .. n : BucketOf(u, q[j].key) = BucketOf(t, t.pairs[j].key)
    BY <1>9, <1>12
  <1>16. ASSUME NEW y \in DOMAIN t.buckets
         PROVE  \/ Inside(u, y) = {} /\ u.buckets[y] = NoBucket
                \/ \E c, d \in DOMAIN u.pairs : Run(u, y, c, d)
    <2>1. CASE y = x
      <3>1. Inside(u, x) = n + 1 .. n + 1
        BY <1>1, <1>4, <1>9, <1>11, <1>15 DEF Inside
      <3>2. n + 1 \in DOMAIN u.pairs /\ n + 1 <= n + 1
        BY <1>1, <1>9, <1>11
      <3>3. Run(u, x, n + 1, n + 1)
        BY <1>9, <1>10, <1>11, <3>1, <3>2 DEF Run
      <3> QED BY <2>1, <3>2, <3>3
    <2>2. CASE y # x
      <3>1. Inside(u, y) = Inside(t, y)
        BY <1>1, <1>9, <1>11, <1>15, <2>2 DEF Inside
      <3>2. u.buckets[y] = t.buckets[y]
        BY <1>10, <1>11, <2>2
      <3>3. ASSUME NEW c \in DOMAIN t.pairs, NEW d \in DOMAIN t.pairs, Run(t, y, c, d)
            PROVE  \E e, f \in DOMAIN u.pairs : Run(u, y, e, f)
        <4>1. u.pairs[c] = t.pairs[c] /\ u.pairs[d] = t.pairs[d]
          BY <1>1, <1>9, <1>11
        <4>2. c \in DOMAIN u.pairs /\ d \in DOMAIN u.pairs
          BY <1>1, <1>9, <1>11
        <4>3. Run(u, y, c, d)
          BY <3>1, <3>2, <3>3, <4>1 DEF Run
        <4> QED BY <4>2, <4>3
      <3> QED BY <3>1, <3>2, <3>3 DEF InRuns
    <2> QED BY <2>1, <2>2
  <1>17. InRuns(u)
    <2>1. DOMAIN u.buckets = DOMAIN t.buckets
      BY <1>1, <1>10, <1>11
    <2> QED BY <1>14, <1>16, <2>1 DEF InRuns
  <1>18. ToSet(q) = ToSet(t.pairs) \cup {pair}
    <2>1. \A m \in 1 .. n + 1 : m \in 1 .. n \/ m = n + 1
      BY <1>1
    <2>2. n + 1 \in 1 .. n + 1 /\ 1 .. n \subseteq 1 .. n + 1
      BY <1>1
    <2>3. ToSet(q) = {q[j] : j \in 1 .. n + 1} /\ ToSet(t.pairs) = {t.pairs[i] : i \in 1 .. n}
      BY <1>1, <1>9 DEF ToSet
    <2> QED BY <1>9, <2>1, <2>2, <2>3
  <1> QED BY <1>9, <1>11, <1>13, <1>17, <1>18 DEF u, Adds

(* insert_to_bucket adds a pair whose key is not there.                     *)
LEMMA InsertKeepsRuns ==
  ASSUME NEW Keys, NEW Values, NEW t, IsTable(t, Keys, Values), Hashed(Keys), InRuns(t),
         NEW pair \in Pairs(Keys, Values), \A i \in DOMAIN t.pairs : t.pairs[i].key # pair.key
  PROVE  Adds(t, pair, InsertToBucket(t, pair), Keys, Values)
  <1>1. CASE t.buckets[BucketOf(t, pair.key)].used
    BY <1>1, InsertInFront
  <1>2. CASE ~t.buckets[BucketOf(t, pair.key)].used
    BY <1>2, InsertAtTheEnd
  <1> QED BY <1>1, <1>2

(* A table as it is made has nothing in it.                                 *)
LEMMA TableOfIsEmpty ==
  ASSUME NEW Keys, NEW Values, NEW o \in Orders
  PROVE  IsTable(TableOf(o), Keys, Values) /\ InRuns(TableOf(o)) /\ TableOf(o).pairs = <<>>
         /\ TableOf(o).order = o
  <1> DEFINE t == TableOf(o)
  <1>1. /\ t = [order |-> o, pairs |-> <<>>, buckets |-> [i \in 0 .. (Primes[o] - 1) |-> NoBucket]]
        /\ t.order = o /\ t.pairs = <<>> /\ t.buckets = [i \in 0 .. (Primes[o] - 1) |-> NoBucket]
    BY DEF TableOf
  <1> HIDE DEF t
  <1>2. NoBucket \in Buckets(Keys) /\ <<>> \in Seq(Pairs(Keys, Values))
    BY DEF Buckets
  <1>3. IsTable(t, Keys, Values)
    <2>1. t.buckets \in [0 .. Primes[t.order] - 1 -> Buckets(Keys)]
      BY <1>1, <1>2
    <2> QED BY <1>1, <1>2, <2>1 DEF IsTable
  <1>4. DOMAIN t.pairs = {}
    BY <1>1
  <1>5. InRuns(t)
    <2>1. Unique(t)
      BY <1>4 DEF Unique
    <2>2. \A x : Inside(t, x) = {}
      BY <1>4 DEF Inside
    <2>3. \A x \in DOMAIN t.buckets : t.buckets[x] = NoBucket
      BY <1>1
    <2> QED BY <2>1, <2>2, <2>3 DEF InRuns
  <1> QED BY <1>1, <1>3, <1>5 DEF t

(* hashtable_do_del: the bucket shrinks, and the runs behind move down.     *)
Drops(t, i, u, Keys, Values) ==
  /\ IsTable(u, Keys, Values) /\ InRuns(u) /\ u.order = t.order
  /\ Len(u.pairs) = Len(t.pairs) - 1
  /\ ToSet(u.pairs) = ToSet(t.pairs) \ {t.pairs[i]}
Dropped(t, i) ==
  LET x == BucketOf(t, t.pairs[i].key)
  IN [t EXCEPT !.pairs = RemoveAt(t.pairs, i),
               !.buckets[x] = ShrunkBucket(t, t.buckets[x], i)]

(* What is left of a bucket, from place a to place b, without place i.      *)
Shrinks(t, x, i, a, b, Keys) ==
  /\ ShrunkBucket(t, t.buckets[x], i) \in Buckets(Keys)
  /\ a = b => ShrunkBucket(t, t.buckets[x], i) = NoBucket
  /\ a # b => ShrunkBucket(t, t.buckets[x], i) =
                Bucket(t.pairs[IF a = i THEN i + 1 ELSE a].key,
                       t.pairs[IF b = i THEN i - 1 ELSE b].key)

(* The bucket of a pair that goes.                                          *)
LEMMA BucketShrinks ==
  ASSUME NEW Keys, NEW Values, NEW t, IsTable(t, Keys, Values), InRuns(t),
         NEW i \in DOMAIN t.pairs, NEW x,
         NEW a \in DOMAIN t.pairs, NEW b \in DOMAIN t.pairs, Run(t, x, a, b), a <= i, i <= b
  PROVE  Shrinks(t, x, i, a, b, Keys)
  <1> DEFINE n == Len(t.pairs)
             bucket == t.buckets[x]
             key == t.pairs[i].key
  <1>1. n \in Nat /\ DOMAIN t.pairs = 1 .. n /\ \A j \in 1 .. n : t.pairs[j].key \in Keys
    BY TableParts
  <1>2. a <= b /\ bucket = Bucket(t.pairs[a].key, t.pairs[b].key)
    BY DEF Run
  <1>3. bucket.first = t.pairs[a].key /\ bucket.last = t.pairs[b].key
    BY <1>2 DEF Bucket
  <1>4. (bucket.first = key <=> a = i) /\ (bucket.last = key <=> b = i)
    BY <1>3 DEF InRuns, Unique
  <1>5. \A j, k \in 1 .. n : Bucket(t.pairs[j].key, t.pairs[k].key) \in Buckets(Keys)
    BY <1>1 DEF Bucket, Buckets
  <1>6. NoBucket \in Buckets(Keys)
    BY DEF Buckets
  <1> HIDE DEF bucket
  <1>7. CASE a = i /\ b = i
    <2>1. ShrunkBucket(t, bucket, i) = NoBucket
      BY <1>4, <1>7 DEF ShrunkBucket
    <2> QED BY <1>6, <1>7, <2>1 DEF bucket, Shrinks
  <1>8. CASE a = i /\ b # i
    <2>1. ShrunkBucket(t, bucket, i) = Bucket(t.pairs[i + 1].key, bucket.last)
      BY <1>4, <1>8 DEF ShrunkBucket
    <2>2. i + 1 \in 1 .. n /\ b \in 1 .. n /\ a # b
      BY <1>1, <1>2, <1>8
    <2> QED BY <1>3, <1>5, <1>8, <2>1, <2>2 DEF bucket, Shrinks
  <1>9. CASE a # i /\ b = i
    <2>1. ShrunkBucket(t, bucket, i) = Bucket(bucket.first, t.pairs[i - 1].key)
      BY <1>4, <1>9 DEF ShrunkBucket
    <2>2. i - 1 \in 1 .. n /\ a \in 1 .. n /\ a # b
      BY <1>1, <1>2, <1>9
    <2> QED BY <1>3, <1>5, <1>9, <2>1, <2>2 DEF bucket, Shrinks
  <1>10. CASE a # i /\ b # i
    <2>1. ShrunkBucket(t, bucket, i) = bucket
      BY <1>4, <1>10 DEF ShrunkBucket
    <2>2. a \in 1 .. n /\ b \in 1 .. n /\ a # b
      BY <1>1, <1>2, <1>10
    <2> QED BY <1>2, <1>5, <1>10, <2>1, <2>2 DEF bucket, Shrinks
  <1> QED BY <1>7, <1>8, <1>9, <1>10

(* A pair that goes leaves the others, each in its bucket's run.            *)
LEMMA DropKeepsRuns ==
  ASSUME NEW Keys, NEW Values, NEW t, IsTable(t, Keys, Values), Hashed(Keys), InRuns(t),
         NEW i \in DOMAIN t.pairs
  PROVE  Drops(t, i, Dropped(t, i), Keys, Values)
  <1> DEFINE x == BucketOf(t, t.pairs[i].key)
             n == Len(t.pairs)
             P == Pairs(Keys, Values)
             u == Dropped(t, i)
  <1>1. /\ t.order \in Orders /\ t.pairs \in Seq(P) /\ n \in Nat /\ DOMAIN t.pairs = 1 .. n
        /\ t.buckets \in [0 .. Primes[t.order] - 1 -> Buckets(Keys)]
        /\ \A j \in 1 .. n : t.pairs[j] \in P /\ t.pairs[j].key \in Keys
        /\ i \in 1 .. n
    BY TableParts
  <1>3. x \in DOMAIN t.buckets
    BY <1>1, KeyHasBucket
  <1>4. i \in Inside(t, x)
    BY DEF Inside
  <1>5. PICK a \in DOMAIN t.pairs, b \in DOMAIN t.pairs : Run(t, x, a, b)
    <2> HIDE DEF x
    <2> QED BY <1>3, <1>4 DEF InRuns
  <1>6. a <= b /\ a \in 1 .. n /\ b \in 1 .. n /\ Inside(t, x) = a .. b /\ a <= i /\ i <= b
    BY <1>1, <1>4, <1>5 DEF Run
  <1> DEFINE q == RemoveAt(t.pairs, i)
             shrunk == ShrunkBucket(t, t.buckets[x], i)
             buckets == [t.buckets EXCEPT ![x] = shrunk]
  <1>7. /\ shrunk \in Buckets(Keys)
        /\ a = b => shrunk = NoBucket
        /\ a # b => shrunk = Bucket(t.pairs[IF a = i THEN i + 1 ELSE a].key,
                                    t.pairs[IF b = i THEN i - 1 ELSE b].key)
    <2> HIDE DEF x
    <2>1. Run(t, x, a, b) /\ a <= i /\ i <= b
      BY <1>5, <1>6
    <2>2. \A c, d \in DOMAIN t.pairs : Run(t, x, c, d) /\ c <= i /\ i <= d => Shrinks(t, x, i, c, d, Keys)
      BY BucketShrinks
    <2> QED BY <2>1, <2>2 DEF Shrinks
  <1>8. u = [order |-> t.order, pairs |-> q, buckets |-> buckets]
    <2>2. t = [order |-> t.order, pairs |-> t.pairs, buckets |-> t.buckets]
      BY DEF IsTable
    <2>3. u = [t EXCEPT !.pairs = q, !.buckets = buckets]
      BY DEF Dropped
    <2> QED BY <2>2, <2>3
  <1>9. /\ q \in Seq(P) /\ Len(q) = n - 1 /\ DOMAIN q = 1 .. n - 1
        /\ \A j \in 1 .. n - 1 : q[j] = IF j < i THEN t.pairs[j] ELSE t.pairs[j + 1]
    <2> HIDE DEF P
    <2>1. t.pairs \in Seq(P) /\ i \in 1 .. Len(t.pairs)
      BY <1>1 DEF P
    <2>2. Removed(t.pairs, i, q, P)
      BY <2>1, RemoveAtPlaces
    <2> HIDE DEF q
    <2>3. n - 1 \in Nat
      BY <1>1
    <2> QED BY <1>1, <2>2, <2>3 DEF Removed
  <1> HIDE DEF shrunk
  <1>10. /\ buckets \in [0 .. Primes[t.order] - 1 -> Buckets(Keys)]
         /\ buckets[x] = shrunk
         /\ \A y \in DOMAIN t.buckets : y # x => buckets[y] = t.buckets[y]
    BY <1>1, <1>3, <1>7
  <1> HIDE DEF u, q, buckets
  <1>11. u.order = t.order /\ u.pairs = q /\ u.buckets = buckets
    BY <1>8
  <1>12. \A k : BucketOf(u, k) = BucketOf(t, k)
    BY <1>11 DEF BucketOf
  <1>13. IsTable(u, Keys, Values)
    BY <1>1, <1>8, <1>9, <1>10 DEF IsTable
  <1>14. \A l, m \in 1 .. n : t.pairs[l].key = t.pairs[m].key => l = m
    BY <1>1 DEF InRuns, Unique
  <1>15. Unique(u)
    <2> SUFFICES ASSUME NEW k \in 1 .. n - 1, NEW j \in 1 .. n - 1, q[k].key = q[j].key PROVE k = j
      BY <1>9, <1>11 DEF Unique
    <2> DEFINE l == IF k < i THEN k ELSE k + 1
               m == IF j < i THEN j ELSE j + 1
    <2>1. l \in 1 .. n /\ m \in 1 .. n /\ q[k] = t.pairs[l] /\ q[j] = t.pairs[m]
      BY <1>1, <1>9
    <2>2. l = m
      <3> HIDE DEF l, m
      <3> QED BY <1>14, <2>1
    <2> QED BY <1>1, <2>2
  <1>16. \A j \in 1 .. n - 1 :
            /\ j < i => j \in 1 .. n /\ BucketOf(u, q[j].key) = BucketOf(t, t.pairs[j].key)
            /\ j >= i => j + 1 \in 1 .. n /\ BucketOf(u, q[j].key) = BucketOf(t, t.pairs[j + 1].key)
    <2> HIDE DEF x
    <2> SUFFICES ASSUME NEW j \in 1 .. n - 1
                 PROVE  /\ j < i => j \in 1 .. n /\ BucketOf(u, q[j].key) = BucketOf(t, t.pairs[j].key)
                        /\ j >= i => j + 1 \in 1 .. n /\ BucketOf(u, q[j].key) = BucketOf(t, t.pairs[j + 1].key)
      OBVIOUS
    <2>1. CASE j < i
      BY <1>1, <1>9, <1>12, <2>1
    <2>2. CASE j >= i
      BY <1>1, <1>9, <1>12, <2>2
    <2> QED BY <1>1, <2>1, <2>2
  <1>17. \A j \in 1 .. n : BucketOf(t, t.pairs[j].key) = x <=> a <= j /\ j <= b
    <2> HIDE DEF x
    <2> QED BY <1>1, <1>6, RunPlaces
  <1> HIDE DEF x
  <1>18. DOMAIN u.pairs = 1 .. n - 1 /\ u.pairs = q /\ n - 1 \in Nat
    BY <1>1, <1>9, <1>11
  <1>19. ASSUME NEW y, NEW c \in 1 .. n - 1, NEW d \in 1 .. n - 1,
                \A j \in 1 .. n - 1 : BucketOf(u, q[j].key) = y <=> c <= j /\ j <= d
         PROVE  Inside(u, y) = c .. d
    <2>1. Inside(u, y) = {j \in 1 .. n - 1 : BucketOf(u, q[j].key) = y}
      BY <1>18 DEF Inside
    <2>2. \A j \in 1 .. n - 1 : j \in c .. d <=> c <= j /\ j <= d
      BY <1>1
    <2>3. c .. d \subseteq 1 .. n - 1
      BY <1>1
    <2> HIDE DEF n
    <2> QED BY <1>19, <2>1, <2>2, <2>3
  <1>20. ASSUME NEW y \in DOMAIN t.buckets
         PROVE  \/ Inside(u, y) = {} /\ u.buckets[y] = NoBucket
                \/ \E c, d \in DOMAIN u.pairs : Run(u, y, c, d)
    <2>1. CASE y = x /\ a = b
      <3>1. \A j \in 1 .. n - 1 : BucketOf(u, q[j].key) # x
        BY <1>1, <1>6, <1>16, <1>17, <2>1
      <3>2. Inside(u, x) = {}
        BY <1>9, <1>11, <3>1 DEF Inside
      <3> QED BY <1>7, <1>10, <1>11, <2>1, <3>2
    <2>2. CASE y = x /\ a # b
      <3>1. \A j \in 1 .. n - 1 : BucketOf(u, q[j].key) = x <=> a <= j /\ j <= b - 1
        <4> SUFFICES ASSUME NEW j \in 1 .. n - 1
                     PROVE  BucketOf(u, q[j].key) = x <=> a <= j /\ j <= b - 1
          OBVIOUS
        <4>1. CASE j < i
          BY <1>1, <1>6, <1>16, <1>17, <4>1
        <4>2. CASE j >= i
          BY <1>1, <1>6, <1>16, <1>17, <4>2
        <4> QED BY <1>1, <4>1, <4>2
      <3>2. a \in 1 .. n - 1 /\ b - 1 \in 1 .. n - 1 /\ a <= b - 1
        BY <1>1, <1>6, <2>2
      <3>3. Inside(u, x) = a .. b - 1
        BY <1>19, <3>1, <3>2
      <3>4. q[a] = t.pairs[IF a = i THEN i + 1 ELSE a]
        BY <1>1, <1>6, <1>9, <3>2
      <3>5. q[b - 1] = t.pairs[IF b = i THEN i - 1 ELSE b]
        <4>1. CASE b = i
          BY <1>1, <1>6, <1>9, <3>2, <4>1
        <4>2. CASE b # i
          <5>1. b - 1 >= i /\ (b - 1) + 1 = b
            BY <1>1, <1>6, <4>2
          <5> QED BY <1>1, <1>9, <3>2, <4>2, <5>1
        <4> QED BY <4>1, <4>2
      <3>6. u.buckets[x] = Bucket(u.pairs[a].key, u.pairs[b - 1].key)
        BY <1>7, <1>10, <1>11, <2>2, <3>4, <3>5
      <3>7. Run(u, x, a, b - 1)
        BY <3>2, <3>3, <3>6 DEF Run
      <3> QED BY <1>9, <1>11, <2>2, <3>2, <3>7
    <2>3. CASE y # x /\ Inside(t, y) = {} /\ t.buckets[y] = NoBucket
      <3>1. \A j \in 1 .. n : BucketOf(t, t.pairs[j].key) # y
        BY <1>1, <2>3 DEF Inside
      <3>2. \A j \in 1 .. n - 1 : BucketOf(u, q[j].key) # y
        BY <1>1, <1>16, <3>1
      <3>3. Inside(u, y) = {}
        BY <1>9, <1>11, <3>2 DEF Inside
      <3> QED BY <1>10, <1>11, <2>3, <3>3
    <2>4. CASE y # x /\ \E c, d \in DOMAIN t.pairs : Run(t, y, c, d)
      <3>1. PICK c \in 1 .. n, d \in 1 .. n : Run(t, y, c, d)
        BY <1>1, <2>4
      <3>2. d < a \/ c > b
        BY <1>1, <1>5, <1>6, <2>4, <3>1, RunsAreApart
      <3>3. c <= d /\ t.buckets[y] = Bucket(t.pairs[c].key, t.pairs[d].key)
        BY <3>1 DEF Run
      <3>4. \A j \in 1 .. n : BucketOf(t, t.pairs[j].key) = y <=> c <= j /\ j <= d
        <4>1. Inside(t, y) = c .. d
          BY <3>1 DEF Run
        <4> QED BY <1>1, <4>1, RunPlaces
      <3>5. CASE d < a
        <4>1. \A j \in 1 .. n - 1 : BucketOf(u, q[j].key) = y <=> c <= j /\ j <= d
          BY <1>1, <1>6, <1>16, <3>4, <3>5
        <4>2. c \in 1 .. n - 1 /\ d \in 1 .. n - 1 /\ c < i /\ d < i
          BY <1>1, <1>6, <3>3, <3>5
        <4>3. Inside(u, y) = c .. d
          BY <1>19, <4>1, <4>2
        <4>4. q[c] = t.pairs[c] /\ q[d] = t.pairs[d]
          BY <1>9, <4>2
        <4>5. Run(u, y, c, d)
          BY <1>10, <1>11, <2>4, <3>3, <4>3, <4>4 DEF Run
        <4> QED BY <1>9, <1>11, <4>2, <4>5
      <3>6. CASE c > b
        <4>1. \A j \in 1 .. n - 1 : BucketOf(u, q[j].key) = y <=> c - 1 <= j /\ j <= d - 1
          BY <1>1, <1>6, <1>16, <3>3, <3>4, <3>6
        <4>2. /\ c - 1 \in 1 .. n - 1 /\ d - 1 \in 1 .. n - 1 /\ c - 1 <= d - 1
              /\ c - 1 >= i /\ d - 1 >= i /\ (c - 1) + 1 = c /\ (d - 1) + 1 = d
          BY <1>1, <1>6, <3>3, <3>6
        <4>3. Inside(u, y) = c - 1 .. d - 1
          BY <1>19, <4>1, <4>2
        <4>4. q[c - 1] = t.pairs[c] /\ q[d - 1] = t.pairs[d]
          BY <1>1, <1>9, <4>2
        <4>5. Run(u, y, c - 1, d - 1)
          BY <1>10, <1>11, <2>4, <3>3, <4>2, <4>3, <4>4 DEF Run
        <4> QED BY <1>9, <1>11, <4>2, <4>5
      <3> QED BY <3>2, <3>5, <3>6
    <2> QED BY <2>1, <2>2, <2>3, <2>4 DEF InRuns
  <1>21. InRuns(u)
    <2>1. DOMAIN u.buckets = DOMAIN t.buckets
      BY <1>1, <1>10, <1>11
    <2> QED BY <1>15, <1>20, <2>1 DEF InRuns
  <1>22. ToSet(q) = ToSet(t.pairs) \ {t.pairs[i]}
    <2>1. \A l \in 1 .. n : t.pairs[l] = t.pairs[i] => l = i
      BY <1>1, <1>14
    <2>2. ASSUME NEW j \in 1 .. n - 1 PROVE \E l \in 1 .. n : l # i /\ q[j] = t.pairs[l]
      <3>1. CASE j < i
        BY <1>1, <1>9, <3>1
      <3>2. CASE j >= i
        <4>1. j + 1 \in 1 .. n /\ j + 1 # i /\ q[j] = t.pairs[j + 1]
          BY <1>1, <1>9, <3>2
        <4> QED BY <4>1
      <3> QED BY <1>1, <3>1, <3>2
    <2>3. ASSUME NEW l \in 1 .. n, l # i PROVE \E j \in 1 .. n - 1 : q[j] = t.pairs[l]
      <3>1. CASE l < i
        <4>1. l \in 1 .. n - 1 /\ q[l] = t.pairs[l]
          BY <1>1, <1>9, <3>1
        <4> QED BY <4>1
      <3>2. CASE l > i
        <4>1. l - 1 \in 1 .. n - 1 /\ l - 1 >= i /\ (l - 1) + 1 = l
          BY <1>1, <3>2
        <4>2. q[l - 1] = t.pairs[l]
          BY <1>1, <1>9, <4>1
        <4> QED BY <4>1, <4>2
      <3> QED BY <1>1, <2>3, <3>1, <3>2
    <2>4. ToSet(q) = {q[j] : j \in 1 .. n - 1} /\ ToSet(t.pairs) = {t.pairs[l] : l \in 1 .. n}
      BY <1>1, <1>9 DEF ToSet
    <2> HIDE DEF n
    <2> QED BY <2>1, <2>2, <2>3, <2>4
  <1> QED BY <1>9, <1>11, <1>13, <1>21, <1>22 DEF u, Drops

(* The pair of a key that is there gets another value, and nothing else     *)
(* changes.                                                                 *)
Revalued(t, i, v) == [t EXCEPT !.pairs[i].value = v]
Revalues(t, i, v, u, Keys, Values) ==
  /\ IsTable(u, Keys, Values) /\ InRuns(u) /\ u.order = t.order
  /\ Len(u.pairs) = Len(t.pairs)
  /\ ToSet(u.pairs) = (ToSet(t.pairs) \ {t.pairs[i]}) \cup {[t.pairs[i] EXCEPT !.value = v]}

(* It does so.                                                              *)
LEMMA RevaluedKeepsRuns ==
  ASSUME NEW Keys, NEW Values, NEW t, IsTable(t, Keys, Values), InRuns(t),
         NEW i \in DOMAIN t.pairs, NEW v \in Values
  PROVE  Revalues(t, i, v, Revalued(t, i, v), Keys, Values)
  <1> DEFINE n == Len(t.pairs)
             P == Pairs(Keys, Values)
             u == Revalued(t, i, v)
             r == [t.pairs[i] EXCEPT !.value = v]
             q == [t.pairs EXCEPT ![i] = r]
  <1>1. /\ t.order \in Orders /\ t.pairs \in Seq(P) /\ n \in Nat /\ DOMAIN t.pairs = 1 .. n
        /\ t.buckets \in [0 .. Primes[t.order] - 1 -> Buckets(Keys)]
        /\ \A j \in 1 .. n : t.pairs[j] \in P
        /\ i \in 1 .. n
    BY TableParts
  <1>2. r \in P /\ r.key = t.pairs[i].key
    BY <1>1 DEF Pairs
  <1>3. u = [order |-> t.order, pairs |-> q, buckets |-> t.buckets]
    <2>1. t = [order |-> t.order, pairs |-> t.pairs, buckets |-> t.buckets]
      BY DEF IsTable
    <2>2. u = [t EXCEPT !.pairs = q]
      BY DEF Revalued
    <2> QED BY <2>1, <2>2
  <1> HIDE DEF r
  <1>4. /\ q \in Seq(P) /\ Len(q) = n /\ DOMAIN q = 1 .. n
        /\ q[i] = r /\ \A j \in 1 .. n : j # i => q[j] = t.pairs[j]
    <2> HIDE DEF P
    <2> QED BY <1>1, <1>2
  <1> HIDE DEF u, q
  <1>5. u.order = t.order /\ u.pairs = q /\ u.buckets = t.buckets
    BY <1>3
  <1>6. \A j \in 1 .. n : q[j].key = t.pairs[j].key
    BY <1>2, <1>4
  <1>7. IsTable(u, Keys, Values)
    BY <1>1, <1>3, <1>4, <1>5 DEF IsTable
  <1>8. Unique(u)
    BY <1>1, <1>4, <1>5, <1>6 DEF InRuns, Unique
  <1>9. \A k : BucketOf(u, k) = BucketOf(t, k)
    BY <1>5 DEF BucketOf
  <1>10. \A x : Inside(u, x) = Inside(t, x)
    <2>1. \A j \in 1 .. n : BucketOf(u, q[j].key) = BucketOf(t, t.pairs[j].key)
      BY <1>6, <1>9
    <2> QED BY <1>1, <1>4, <1>5, <2>1 DEF Inside
  <1>11. \A x : \A a, b \in DOMAIN t.pairs : Run(t, x, a, b) => Run(u, x, a, b)
    BY <1>1, <1>5, <1>6, <1>10 DEF Run
  <1>12. InRuns(u)
    <2>1. DOMAIN u.pairs = DOMAIN t.pairs
      BY <1>1, <1>4, <1>5
    <2> QED BY <1>5, <1>8, <1>10, <1>11, <2>1 DEF InRuns
  <1>13. ToSet(q) = (ToSet(t.pairs) \ {t.pairs[i]}) \cup {r}
    <2>1. \A j \in 1 .. n : t.pairs[j] = t.pairs[i] => j = i
      BY <1>1 DEF InRuns, Unique
    <2>2. ToSet(q) = {q[j] : j \in 1 .. n} /\ ToSet(t.pairs) = {t.pairs[j] : j \in 1 .. n}
      BY <1>1, <1>4 DEF ToSet
    <2> QED BY <1>1, <1>4, <2>1, <2>2
  <1> QED BY <1>4, <1>5, <1>7, <1>12, <1>13 DEF u, r, Revalues

-----------------------------------------------------------------------------
(* Rehashing.                                                               *)

(* f[n] is the table with more buckets when n pairs have moved.             *)
Moves(f, t) ==
  f = [n \in 0 .. Len(t.pairs) |->
         IF n = 0 THEN TableOf(t.order + 1) ELSE InsertToBucket(f[n - 1], t.pairs[n])]

(* There is such a function.                                                *)
LEMMA MovesExists ==
  ASSUME NEW t, Len(t.pairs) \in Nat
  PROVE  \E f : Moves(f, t)
  <1> DEFINE N == Len(t.pairs)
             Start == TableOf(t.order + 1)
             Upto(f, n) == f = [i \in 0 .. n |-> IF i = 0 THEN Start ELSE InsertToBucket(f[i - 1], t.pairs[i])]
             T == {n \in Nat : \E f : Upto(f, n)}
  <1>1. 0 \in T
    <2> DEFINE f == [i \in 0 .. 0 |-> Start]
    <2>1. \A i \in 0 .. 0 : i = 0
      OBVIOUS
    <2> HIDE DEF Start
    <2>2. Upto(f, 0)
      BY <2>1
    <2> QED BY <2>2
  <1>2. ASSUME NEW n \in T PROVE n + 1 \in T
    <2>1. n \in Nat
      OBVIOUS
    <2>2. PICK f : Upto(f, n)
      OBVIOUS
    <2> HIDE DEF Start
    <2> DEFINE last == InsertToBucket(f[n], t.pairs[n + 1])
               g == [i \in 0 .. n + 1 |-> IF i = n + 1 THEN last ELSE f[i]]
    <2>3. \A i \in 0 .. n : f[i] = IF i = 0 THEN Start ELSE InsertToBucket(f[i - 1], t.pairs[i])
      BY <2>2
    <2>4. ASSUME NEW i \in 0 .. n + 1
          PROVE  g[i] = IF i = 0 THEN Start ELSE InsertToBucket(g[i - 1], t.pairs[i])
      <3>1. CASE i = n + 1
        <4>1. i # 0 /\ i - 1 = n /\ n \in 0 .. n + 1 /\ n # n + 1
          <5>1. n + 1 # 0 /\ (n + 1) - 1 = n /\ n \in 0 .. n + 1 /\ n # n + 1
            BY <2>1
          <5> QED BY <3>1, <5>1
        <4>2. g[i] = last /\ g[i - 1] = f[n]
          BY <2>1, <3>1, <4>1
        <4> QED BY <3>1, <4>1, <4>2
      <3>2. CASE i # n + 1
        <4>1. i \in 0 .. n /\ g[i] = f[i]
          BY <2>1, <3>2
        <4>2. i # 0 => i - 1 \in 0 .. n + 1 /\ i - 1 # n + 1
          BY <2>1
        <4>3. i # 0 => g[i - 1] = f[i - 1]
          BY <4>2
        <4> HIDE DEF g
        <4> QED BY <2>3, <4>1, <4>3
      <3> QED BY <3>1, <3>2
    <2>5. g = [i \in 0 .. n + 1 |-> IF i = 0 THEN Start ELSE InsertToBucket(g[i - 1], t.pairs[i])]
      <3>1. g = [i \in 0 .. n + 1 |-> g[i]]
        OBVIOUS
      <3> HIDE DEF g
      <3> QED BY <2>4, <3>1
    <2> HIDE DEF g
    <2>6. \E h : Upto(h, n + 1)
      <3>1. Upto(g, n + 1)
        BY <2>5
      <3> QED BY <3>1
    <2>7. n + 1 \in Nat
      BY <2>1
    <2> HIDE DEF Upto
    <2> QED BY <2>6, <2>7
  <1>3. T = Nat
    <2>1. T \in SUBSET Nat
      OBVIOUS
    <2> HIDE DEF T
    <2> QED BY <1>1, <1>2, <2>1, Induct
  <1>4. PICK f : Upto(f, N)
    BY <1>3
  <1> QED BY <1>4 DEF Moves

(* Rehashing leaves the pairs what they are.                                *)
LEMMA RehashKeepsRuns ==
  ASSUME NEW Keys, NEW Values, NEW t, IsTable(t, Keys, Values), Hashed(Keys), InRuns(t),
         t.order + 1 \in Orders
  PROVE  /\ IsTable(Rehash(t), Keys, Values) /\ InRuns(Rehash(t))
         /\ Rehash(t).order = t.order + 1
         /\ Len(Rehash(t).pairs) = Len(t.pairs)
         /\ ToSet(Rehash(t).pairs) = ToSet(t.pairs)
  <1> DEFINE N == Len(t.pairs)
             P == Pairs(Keys, Values)
  <1>1. N \in Nat /\ DOMAIN t.pairs = 1 .. N /\ \A i \in 1 .. N : t.pairs[i] \in P
    BY TableParts
  <1> DEFINE f == CHOOSE f : Moves(f, t)
  <1>2. Moves(f, t)
    <2>1. \E g : Moves(g, t)
      BY <1>1, MovesExists
    <2> QED BY <2>1
  <1>3. Rehash(t) = f[N]
    BY DEF Rehash, Moves
  <1> HIDE DEF f
  <1>4. \A n \in 0 .. N : f[n] = IF n = 0 THEN TableOf(t.order + 1) ELSE InsertToBucket(f[n - 1], t.pairs[n])
    BY <1>2 DEF Moves
  <1> DEFINE Moved(u, n) ==
               /\ IsTable(u, Keys, Values) /\ InRuns(u) /\ u.order = t.order + 1
               /\ Len(u.pairs) = n
               /\ ToSet(u.pairs) = {t.pairs[i] : i \in 1 .. n}
             T == {n \in Nat : n <= N => Moved(f[n], n)}
  <1>5. 0 \in T
    <2>1. f[0] = TableOf(t.order + 1)
      BY <1>1, <1>4
    <2>2. ToSet(<<>>) = {}
      BY DEF ToSet
    <2>3. {t.pairs[i] : i \in 1 .. 0} = {}
      OBVIOUS
    <2>4. /\ IsTable(f[0], Keys, Values) /\ InRuns(f[0]) /\ f[0].pairs = <<>>
          /\ f[0].order = t.order + 1
      BY <2>1, TableOfIsEmpty
    <2>5. Moved(f[0], 0)
      BY <2>2, <2>3, <2>4
    <2> QED BY <2>5
  <1>6. ASSUME NEW n \in T PROVE n + 1 \in T
    <2>1. n \in Nat /\ (n <= N => Moved(f[n], n))
      OBVIOUS
    <2>2. SUFFICES ASSUME n + 1 <= N PROVE Moved(f[n + 1], n + 1)
      <3> HIDE DEF Moved
      <3> QED BY <2>1
    <2>3. Moved(f[n], n)
      <3> HIDE DEF Moved
      <3> QED BY <1>1, <2>1, <2>2
    <2> DEFINE u == f[n]
               pair == t.pairs[n + 1]
    <2>4. f[n + 1] = InsertToBucket(u, pair)
      <3>1. n + 1 \in 0 .. N /\ n + 1 # 0 /\ (n + 1) - 1 = n
        BY <1>1, <2>1, <2>2
      <3> QED BY <1>4, <3>1
    <2>5. pair \in P
      BY <1>1, <2>1, <2>2
    <2>6. \A i \in 1 .. n : t.pairs[i].key # pair.key
      BY <1>1, <2>1, <2>2 DEF InRuns, Unique
    <2> HIDE DEF u, pair
    <2>7. IsTable(u, Keys, Values) /\ InRuns(u) /\ u.order = t.order + 1 /\ Len(u.pairs) = n
          /\ ToSet(u.pairs) = {t.pairs[i] : i \in 1 .. n}
      BY <2>3 DEF u
    <2>8. ASSUME NEW j \in DOMAIN u.pairs PROVE u.pairs[j].key # pair.key
      <3>1. u.pairs[j] \in {t.pairs[i] : i \in 1 .. n}
        BY <2>7 DEF ToSet
      <3> QED BY <2>6, <3>1
    <2>9. Adds(u, pair, InsertToBucket(u, pair), Keys, Values)
      BY <2>5, <2>7, <2>8, InsertKeepsRuns
    <2>10. {t.pairs[i] : i \in 1 .. n + 1} = {t.pairs[i] : i \in 1 .. n} \cup {pair}
      <3>1. \A i : i \in 1 .. n + 1 <=> i \in 1 .. n \/ i = n + 1
        BY <2>1
      <3> QED BY <3>1 DEF pair
    <2> QED BY <2>4, <2>7, <2>9, <2>10 DEF Adds
  <1>7. T = Nat
    <2>1. T \in SUBSET Nat
      OBVIOUS
    <2> HIDE DEF T
    <2> QED BY <1>5, <1>6, <2>1, Induct
  <1>8. Moved(f[N], N)
    <2> HIDE DEF Moved
    <2> QED BY <1>1, <1>7
  <1>9. ToSet(t.pairs) = {t.pairs[i] : i \in 1 .. N}
    BY <1>1 DEF ToSet
  <1> QED BY <1>3, <1>8, <1>9

-----------------------------------------------------------------------------
(* What the table promises: its pairs are a finite map.                     *)

(* A sound table with the pairs of a set.                                   *)
Holds(t, pairs, Keys, Values) ==
  IsTable(t, Keys, Values) /\ SoundTable(t) /\ ToSet(t.pairs) = pairs

(* There is a number of buckets for one pair more (hashtable.c:59-64).      *)
HasRoom(t) == Len(t.pairs) >= Primes[t.order] => t.order + 1 \in Orders

(* A pair that goes in where another may have its key.                      *)
PairsWith(pairs, pair) ==
  IF \E p \in pairs : p.key = pair.key
  THEN {IF p.key = pair.key THEN [p EXCEPT !.value = pair.value] ELSE p : p \in pairs}
  ELSE pairs \cup {pair}

(* No two pairs of a table have the same key.                               *)
LEMMA KeysAreUnique ==
  ASSUME NEW Keys, NEW Values, NEW t, IsTable(t, Keys, Values), Unique(t),
         NEW i \in DOMAIN t.pairs, NEW p \in ToSet(t.pairs), p.key = t.pairs[i].key
  PROVE  p = t.pairs[i]
  BY DEF Unique, ToSet

(* A table as hashtable_init makes it, or as hashtable_clear leaves it, is  *)
(* sound and holds nothing (hashtable.c:208-234, 306-320).                  *)
THEOREM EmptyTable ==
  ASSUME NEW Keys, NEW Values, Hashed(Keys), NEW t, IsTable(t, Keys, Values)
  PROVE  Holds(NewTable, {}, Keys, Values) /\ Holds(TableClear(t), {}, Keys, Values)
  <1>1. 1 \in Orders /\ t.order \in Orders
    BY TableParts DEF Orders
  <1>2. ASSUME NEW o \in Orders PROVE Holds(TableOf(o), {}, Keys, Values)
    <2>1. /\ IsTable(TableOf(o), Keys, Values) /\ InRuns(TableOf(o)) /\ TableOf(o).pairs = <<>>
      BY TableOfIsEmpty
    <2>2. SoundTable(TableOf(o))
      BY <2>1, SoundIsInRuns
    <2>3. ToSet(<<>>) = {}
      BY DEF ToSet
    <2> QED BY <2>1, <2>2, <2>3 DEF Holds
  <1> QED BY <1>1, <1>2 DEF NewTable, TableClear

(* In a sound table hashtable_find_pair finds the pair that has the key,    *)
(* and none when there is none (hashtable.c:72-95).                         *)
THEOREM TableFinds ==
  ASSUME NEW Keys, NEW Values, Hashed(Keys), NEW t, NEW pairs, Holds(t, pairs, Keys, Values),
         NEW k \in Keys
  PROVE  /\ FindPair(t, k) = 0 <=> \A p \in pairs : p.key # k
         /\ \A p \in pairs : p.key = k =>
               FindPair(t, k) \in DOMAIN t.pairs /\ t.pairs[FindPair(t, k)] = p
  <1>1. IsTable(t, Keys, Values) /\ InRuns(t) /\ ToSet(t.pairs) = pairs
    BY SoundIsInRuns DEF Holds
  <1>2. /\ FindPair(t, k) # 0 => FindPair(t, k) \in DOMAIN t.pairs /\ t.pairs[FindPair(t, k)].key = k
        /\ \A i \in DOMAIN t.pairs : t.pairs[i].key = k => FindPair(t, k) = i
    BY <1>1, FindsKey
  <1>3. 0 \notin DOMAIN t.pairs
    BY <1>1, TableParts
  <1>4. pairs = {t.pairs[i] : i \in DOMAIN t.pairs}
    BY <1>1 DEF ToSet
  <1> QED BY <1>2, <1>3, <1>4

(* hashtable_set leaves a sound table, rehashed or not, that has the value  *)
(* at the key and is otherwise as it was: a key that was there keeps its    *)
(* pair, one that was not gets the new pair (hashtable.c:242-282).          *)
THEOREM TableSets ==
  ASSUME NEW Keys, NEW Values, Hashed(Keys), NEW t, NEW pairs, Holds(t, pairs, Keys, Values),
         HasRoom(t), NEW pair \in Pairs(Keys, Values)
  PROVE  Holds(TableSet(t, pair), PairsWith(pairs, pair), Keys, Values)
  <1>1. IsTable(t, Keys, Values) /\ InRuns(t) /\ ToSet(t.pairs) = pairs
    BY SoundIsInRuns DEF Holds
  <1> DEFINE r == Roomy(t)
             i == FindPair(r, pair.key)
  <1>2. IsTable(r, Keys, Values) /\ InRuns(r) /\ ToSet(r.pairs) = pairs
    <2>1. CASE Len(t.pairs) >= Primes[t.order]
      <3>1. r = Rehash(t) /\ t.order + 1 \in Orders
        BY <2>1 DEF Roomy, HasRoom
      <3> HIDE DEF r
      <3> QED BY <1>1, <3>1, RehashKeepsRuns
    <2>2. CASE ~(Len(t.pairs) >= Primes[t.order])
      BY <1>1, <2>2 DEF Roomy
    <2> QED BY <2>1, <2>2
  <1>3. pair.key \in Keys /\ pair.value \in Values
    BY DEF Pairs
  <1>4. TableSet(t, pair) = IF i # 0 THEN Revalued(r, i, pair.value) ELSE InsertToBucket(r, pair)
    BY DEF TableSet, Revalued
  <1> HIDE DEF r
  <1>5. /\ i # 0 => i \in DOMAIN r.pairs /\ r.pairs[i].key = pair.key
        /\ \A j \in DOMAIN r.pairs : r.pairs[j].key = pair.key => i = j
    BY <1>2, <1>3, FindsKey
  <1>6. pairs = {r.pairs[j] : j \in DOMAIN r.pairs}
    BY <1>2 DEF ToSet
  <1> HIDE DEF i
  <1>7. CASE i # 0
    <2> DEFINE u == Revalued(r, i, pair.value)
               old == r.pairs[i]
    <2>1. i \in DOMAIN r.pairs /\ old.key = pair.key
      BY <1>5, <1>7
    <2>2. Revalues(r, i, pair.value, u, Keys, Values)
      BY <1>2, <1>3, <2>1, RevaluedKeepsRuns
    <2> HIDE DEF u
    <2>3. /\ IsTable(u, Keys, Values) /\ InRuns(u)
          /\ ToSet(u.pairs) = (pairs \ {old}) \cup {[old EXCEPT !.value = pair.value]}
      BY <1>2, <2>2 DEF Revalues
    <2>4. old \in pairs /\ \A p \in pairs : p.key = pair.key => p = old
      BY <1>2, <1>6, <2>1, KeysAreUnique DEF InRuns
    <2> HIDE DEF old
    <2>5. PairsWith(pairs, pair) = (pairs \ {old}) \cup {[old EXCEPT !.value = pair.value]}
      <3>1. \E p \in pairs : p.key = pair.key
        BY <2>1, <2>4
      <3> DEFINE new == [old EXCEPT !.value = pair.value]
                 After(p) == IF p.key = pair.key THEN [p EXCEPT !.value = pair.value] ELSE p
      <3>2. PairsWith(pairs, pair) = {After(p) : p \in pairs}
        BY <3>1 DEF PairsWith
      <3>3. \A p \in pairs : After(p) = IF p = old THEN new ELSE p
        BY <2>1, <2>4
      <3> HIDE DEF new, After
      <3>4. {After(p) : p \in pairs} = (pairs \ {old}) \cup {new}
        BY <2>4, <3>3
      <3> QED BY <3>2, <3>4 DEF new
    <2>6. SoundTable(u)
      BY <2>3, SoundIsInRuns
    <2> QED BY <1>4, <1>7, <2>3, <2>5, <2>6 DEF Holds, u
  <1>8. CASE i = 0
    <2> DEFINE u == InsertToBucket(r, pair)
    <2>1. 0 \notin DOMAIN r.pairs
      BY <1>2, TableParts
    <2>2. \A j \in DOMAIN r.pairs : r.pairs[j].key # pair.key
      BY <1>5, <1>8, <2>1
    <2>3. Adds(r, pair, u, Keys, Values)
      BY <1>2, <2>2, InsertKeepsRuns
    <2> HIDE DEF u
    <2>4. IsTable(u, Keys, Values) /\ InRuns(u) /\ ToSet(u.pairs) = pairs \cup {pair}
      BY <1>2, <2>3 DEF Adds
    <2>5. PairsWith(pairs, pair) = pairs \cup {pair}
      BY <1>6, <2>2 DEF PairsWith
    <2>6. SoundTable(u)
      BY <2>4, SoundIsInRuns
    <2> QED BY <1>4, <1>8, <2>4, <2>5, <2>6 DEF Holds, u
  <1> QED BY <1>7, <1>8

(* hashtable_del leaves a sound table without the key, and otherwise as it  *)
(* was (hashtable.c:98-132, 300-304).                                       *)
THEOREM TableDeletes ==
  ASSUME NEW Keys, NEW Values, Hashed(Keys), NEW t, NEW pairs, Holds(t, pairs, Keys, Values),
         NEW k \in Keys
  PROVE  Holds(TableDel(t, k), {p \in pairs : p.key # k}, Keys, Values)
  <1>1. IsTable(t, Keys, Values) /\ InRuns(t) /\ ToSet(t.pairs) = pairs
    BY SoundIsInRuns DEF Holds
  <1> DEFINE i == FindPair(t, k)
             u == TableDel(t, k)
  <1>2. /\ i # 0 => i \in DOMAIN t.pairs /\ t.pairs[i].key = k
        /\ \A j \in DOMAIN t.pairs : t.pairs[j].key = k => i = j
    BY <1>1, FindsKey
  <1>3. pairs = {t.pairs[j] : j \in DOMAIN t.pairs}
    BY <1>1 DEF ToSet
  <1>4. CASE i = 0
    <2>1. TableDel(t, k) = t
      BY <1>4 DEF TableDel
    <2>2. 0 \notin DOMAIN t.pairs
      BY <1>1, TableParts
    <2>3. \A p \in pairs : p.key # k
      BY <1>2, <1>3, <1>4, <2>2
    <2>4. {p \in pairs : p.key # k} = pairs
      BY <2>3
    <2> QED BY <2>1, <2>4
  <1>5. CASE i # 0
    <2>1. i \in DOMAIN t.pairs /\ t.pairs[i].key = k
      BY <1>2, <1>5
    <2>2. u = Dropped(t, i)
      BY <1>5, <2>1 DEF TableDel, Dropped
    <2> HIDE DEF u, i
    <2>3. Drops(t, i, u, Keys, Values)
      BY <1>1, <2>1, <2>2, DropKeepsRuns
    <2>4. IsTable(u, Keys, Values) /\ InRuns(u) /\ ToSet(u.pairs) = pairs \ {t.pairs[i]}
      BY <1>1, <2>3 DEF Drops
    <2>5. \A p \in pairs : p.key = k <=> p = t.pairs[i]
      BY <1>1, <2>1, KeysAreUnique DEF InRuns
    <2>6. pairs \ {t.pairs[i]} = {p \in pairs : p.key # k}
      BY <2>5
    <2>7. SoundTable(u)
      BY <2>4, SoundIsInRuns
    <2>8. Holds(u, {p \in pairs : p.key # k}, Keys, Values)
      BY <2>4, <2>6, <2>7 DEF Holds
    <2> QED BY <2>8 DEF u
  <1> QED BY <1>4, <1>5

-----------------------------------------------------------------------------
(* The back ends: the inductive invariant.                                 *)

USE BoundsAssumption

(* What a back end writes, and the closures on the main thread.            *)
Octet == [at : Nat, is : {"text", "newline", "nul"}]
Closure == [kind : {"init", "alert"}] \union [kind : {"line"}, line : Seq(Octet)]

(* The launcher and its back ends.                                         *)
LauncherTypes ==
  /\ platform \in {"mac", "win"} /\ launcher \in Steps
  /\ shutDown \in BOOLEAN /\ developer \in BOOLEAN
  /\ backend \in Seq({"running", "silent", "dead"})
  /\ status \in Seq({"none", "restart", "failed"}) /\ DOMAIN status = DOMAIN backend
  /\ \A n \in DOMAIN backend : backend[n] = "dead" <=> status[n] # "none"
  /\ Launched <= MaxLaunches /\ (launcher = "piped" => Launched < MaxLaunches)
  /\ killed \subseteq DOMAIN backend

(* What goes through the pipe and the buffer to the main thread.           *)
OutputTypes ==
  /\ output \in [open : BOOLEAN, held : BOOLEAN, unread : Seq(Octet)]
  /\ buffer \in Seq(Octet) /\ written \in Seq(Octet)
  /\ queue \in Seq(Closure) /\ handled \in Seq(Seq(Octet))

FileTypes ==
  /\ app \in {"running", "gone", "undefined"}
  /\ pid \in 0 .. Launched /\ stdin \in 0 .. Launched + 1

(* Where the launcher can be on each system, and whom it has named.        *)
PlaceInv ==
  /\ launcher \in {"queued", "reaped", "sleeping"} => platform = "mac"
  /\ launcher = "cleaning" => platform = "win"
  /\ launcher \notin {"top", "piped", "done"} => Launched > 0
  /\ launcher \notin {"top", "piped", "forked", "done"} => pid = Launched
  /\ launcher = "done" => platform = "mac" \/ shutDown

(* No back end is left where the next is launched.                         *)
AliveInv ==
  /\ Alive \subseteq {Launched}
  /\ launcher = "piped" => Alive = {}
  /\ platform = "mac" /\ launcher \in {"top", "reaped", "judging", "sleeping", "done"} => Alive = {}
  /\ platform = "win" /\ ~shutDown /\ launcher \in {"top", "judging"} => Alive = {}

(* Unless the main thread closed it, the output is open while it is read,  *)
(* and read to its end when the launcher goes on; nothing is added then.   *)
Open == {"piped", "forked", "named", "queued", "connected", "reading", "splitting"}
Past == {"ended", "cleaning", "reaped", "judging", "sleeping", "top", "done"}
OutputInv ==
  /\ closing = "not called" \/ shutDown
  /\ platform = "mac" \/ ~shutDown =>
       /\ launcher \in Open => output.open
       /\ launcher \in Past => output.unread = <<>> /\ \A n \in Alive : backend[n] = "silent"

(* The lines, from the back ends to the main thread.                       *)
Waiting == [i \in DOMAIN queue |-> Text(queue[i])]
Whole(line) == \A i \in DOMAIN line : Ends(line[i]) = (i = Len(line))
AllWhole(lines) == \A k \in DOMAIN lines : Whole(lines[k])

(* What is kept, k, of what was written, w.                                *)
NoNul(w) == \A p \in DOMAIN w : w[p].is # "nul"
Written(k, w) == \A i \in DOMAIN k : k[i].at \in DOMAIN w /\ w[k[i].at] = k[i]
InOrder(k) == \A i, j \in DOMAIN k : i < j => k[i].at < k[j].at
CostOfNul(w, p) == \E q \in DOMAIN w : q <= p /\ p < q + ReadSize /\ w[q].is = "nul"
LittleIsLost(k, w) ==
  \A p \in DOMAIN w : (\E i \in DOMAIN k : k[i].at = p) \/ CostOfNul(w, p)
Flows(k, w) ==
  Written(k, w) /\ InOrder(k) /\ (NoNul(w) => k = w) /\ LittleIsLost(k, w)

(* What is in the pipe, u, is the last of what was written.                *)
IsLast(u, w) ==
  /\ Len(u) <= Len(w)
  /\ \A i \in DOMAIN u : u[i].at = Len(w) - Len(u) + i

LinesInv ==
  /\ Flows(Kept, written)
  /\ IsLast(output.unread, written)
  /\ AllWhole(Texts)
  /\ launcher # "splitting" => ~HasLine

(* Where the threads and the back ends are.                                *)
ControlInv == LauncherTypes /\ FileTypes /\ PlaceInv /\ AliveInv

(* Every step keeps where the threads and the back ends are.               *)
LEMMA StepKeepsControl ==
  ASSUME ControlInv, [Next]_vars
  PROVE  ControlInv'
  <1> USE DEF ControlInv, LauncherTypes, FileTypes, PlaceInv, AliveInv, Steps, Launched, Alive,
              Goto, Enqueue, files, nodes
  <1>1. CASE Missing
    BY <1>1 DEF Missing
  <1>2. CASE StopLoop
    BY <1>2 DEF StopLoop
  <1>3. CASE MakePipes
    BY <1>3 DEF MakePipes
  <1>4. CASE Fork
    BY <1>4 DEF Fork
  <1>5. CASE NameProcess
    BY <1>5 DEF NameProcess
  <1>6. CASE QueueInit
    BY <1>6 DEF QueueInit
  <1>7. CASE ConnectInput
    BY <1>7 DEF ConnectInput
  <1>8. CASE ConnectOutput
    BY <1>8 DEF ConnectOutput, CloseWritingEnd
  <1>9. CASE ReadChunk
    BY <1>9 DEF ReadChunk, Overflows
  <1>10. CASE QueueNextLine
    BY <1>10 DEF QueueNextLine, QueueLine
  <1>11. CASE LinesAreQueued
    BY <1>11 DEF LinesAreQueued
  <1>12. CASE ReadEnds
    BY <1>12 DEF ReadEnds
  <1>13. CASE Reap
    BY <1>13 DEF Reap, WaitReturns
  <1>14. CASE CloseFiles
    BY <1>14 DEF CloseFiles
  <1>15. CASE LookBeforeCleaning
    BY <1>15 DEF LookBeforeCleaning
  <1>16. CASE CleanUp
    <2>1. pid = Launched /\ Launched \in DOMAIN backend /\ Alive \subseteq {pid}
      BY <1>16 DEF CleanUp
    <2>2. CASE pid \in Alive
      <3>1. /\ backend' = [backend EXCEPT ![pid] = "dead"] /\ status' = [status EXCEPT ![pid] = "failed"]
            /\ launcher' = "judging" /\ platform = "win"
            /\ UNCHANGED <<platform, app, shutDown, developer, pid, stdin, killed>>
        BY <1>16, <2>2 DEF CleanUp, Terminated
      <3>2. /\ Alive' = {}
            /\ \A n \in DOMAIN backend : backend'[n] = "dead" <=> status'[n] # "none"
        BY <2>1, <3>1
      <3>3. /\ backend' \in Seq({"running", "silent", "dead"}) /\ status' \in Seq({"none", "restart", "failed"})
            /\ DOMAIN backend' = DOMAIN backend /\ DOMAIN status' = DOMAIN status /\ Len(backend') = Len(backend)
        BY <2>1, <3>1
      <3>4. /\ launcher' = "judging" /\ platform = "win" /\ launcher = "cleaning"
            /\ UNCHANGED <<platform, app, shutDown, developer, pid, stdin, killed>>
        BY <1>16, <3>1 DEF CleanUp
      <3> QED BY <2>1, <3>2, <3>3, <3>4
    <2>3. CASE pid \notin Alive
      BY <1>16, <2>1, <2>3 DEF CleanUp, Terminated
    <2> QED BY <2>2, <2>3
  <1>17. CASE JudgeRestart
    BY <1>17 DEF JudgeRestart
  <1>18. CASE SleepEnds
    BY <1>18 DEF SleepEnds
  <1>19. CASE JudgeCrash
    BY <1>19 DEF JudgeCrash, MarkShutDown
  <1>20. CASE JudgeNormal
    BY <1>20 DEF JudgeNormal
  <1>21. CASE HandleLine
    BY <1>21 DEF HandleLine, Dequeue
  <1>22. CASE SendInit
    BY <1>22 DEF SendInit, Dequeue
  <1>23. CASE ShowAlert
    BY <1>23 DEF ShowAlert, Dequeue
  <1>24. CASE Kill
    BY <1>24 DEF Kill
  <1>25. CASE CloseHandles
    BY <1>25 DEF CloseHandles
  <1>26. CASE TerminateProcess
    BY <1>26 DEF TerminateProcess, Terminated
  <1>27. CASE Shutdown
    BY <1>27 DEF Shutdown
  <1>28. ASSUME NEW n \in Alive, WriteOctet(n) PROVE ControlInv'
    BY <1>28 DEF WriteOctet
  <1>29. ASSUME NEW n \in Alive, CloseOutput(n) PROVE ControlInv'
    BY <1>29 DEF CloseOutput
  <1>30. ASSUME NEW n \in Alive, NEW code \in {"restart", "failed"}, Exit(n, code) PROVE ControlInv'
    BY <1>30 DEF Exit
  <1>31. CASE UNCHANGED vars
    BY <1>31 DEF vars
  <1> QED BY <1>1, <1>2, <1>3, <1>4, <1>5, <1>6, <1>7, <1>8, <1>9, <1>10, <1>11, <1>12, <1>13, <1>14, <1>15, <1>16, <1>17, <1>18, <1>19, <1>20, <1>21, <1>22, <1>23, <1>24, <1>25, <1>26, <1>27, <1>28, <1>29, <1>30, <1>31
             DEF Next, LauncherStep, MainStep, BackendStep

-----------------------------------------------------------------------------
(* The output: what goes through the pipe, the buffer and the queue.        *)

(* The line that is split off ends where the first one does.               *)
LEMMA LineEndIsFirst ==
  ASSUME buffer \in Seq(Octet), HasLine
  PROVE  /\ LineEnd \in DOMAIN buffer /\ Ends(buffer[LineEnd])
         /\ \A j \in 1 .. LineEnd - 1 : ~Ends(buffer[j])
  <1> DEFINE T == {i \in DOMAIN buffer : Ends(buffer[i])}
  <1>1. T \in SUBSET Nat /\ T # {}
    BY DEF HasLine
  <1>2. PICK m \in T : \A k \in T : m <= k
    BY <1>1, LeastNatural
  <1>3. \A j \in 1 .. m - 1 : ~Ends(buffer[j])
    <2> SUFFICES ASSUME NEW j \in 1 .. m - 1, Ends(buffer[j]) PROVE FALSE
      OBVIOUS
    <2>1. j \in DOMAIN buffer /\ j < m /\ j \in Nat /\ m \in Nat
      OBVIOUS
    <2> QED BY <1>2, <2>1
  <1>4. m \in DOMAIN buffer /\ Ends(buffer[m])
    OBVIOUS
  <1> QED BY <1>3, <1>4 DEF LineEnd

(* The two halves of the buffer that QueueLine makes.                      *)
LEMMA LineIsSplitOff ==
  ASSUME OutputTypes, HasLine
  PROVE  LET line == SubSeq(buffer, 1, LineEnd)
             rest == SubSeq(buffer, LineEnd + 1, Len(buffer))
         IN  /\ line \in Seq(Octet) /\ rest \in Seq(Octet) /\ line \o rest = buffer
             /\ \A i \in DOMAIN line : Ends(line[i]) = (i = Len(line))
  <1>1. /\ LineEnd \in 1 .. Len(buffer) /\ Ends(buffer[LineEnd])
        /\ \A j \in 1 .. LineEnd - 1 : ~Ends(buffer[j])
        /\ buffer \in Seq(Octet) /\ Len(buffer) \in Nat
    BY LineEndIsFirst DEF OutputTypes
  <1> DEFINE m == LineEnd
             line == SubSeq(buffer, 1, m)
             rest == SubSeq(buffer, m + 1, Len(buffer))
  <1> HIDE DEF m
  <1>2. /\ m \in 1 .. Len(buffer) /\ Ends(buffer[m])
        /\ \A j \in 1 .. m - 1 : ~Ends(buffer[j])
    BY <1>1 DEF m
  <1>3. line \in Seq(Octet) /\ rest \in Seq(Octet) /\ line \o rest = buffer
    BY <1>1, <1>2
  <1>4. Len(line) = m /\ \A i \in DOMAIN line : i \in 1 .. m /\ line[i] = buffer[i]
    BY <1>1, <1>2
  <1>5. ASSUME NEW i \in DOMAIN line PROVE Ends(line[i]) = (i = Len(line))
    <2>1. i \in 1 .. m /\ line[i] = buffer[i] /\ Len(line) = m
      BY <1>4
    <2>2. CASE i = m
      <3>1. Ends(line[i]) = TRUE
        BY <1>2, <2>1, <2>2 DEF Ends
      <3> QED BY <2>1, <2>2, <3>1
    <2>3. CASE i # m
      <3>1. i \in 1 .. m - 1 /\ buffer[i] \in Octet
        BY <1>1, <1>2, <2>1, <2>3
      <3>2. Ends(line[i]) = FALSE
        BY <1>2, <2>1, <3>1 DEF Ends
      <3> QED BY <2>1, <2>3, <3>2
    <2> QED BY <2>2, <2>3
  <1> QED BY <1>3, <1>5 DEF m

(* What a read takes from the pipe, what of it is copied, and what stays.  *)
Reads(read, copied) ==
  /\ read \in 1 .. Len(output.unread) /\ read <= ReadSize
  /\ copied \in 0 .. read /\ Copies(output.unread, read, copied)
  /\ buffer' = buffer \o SubSeq(output.unread, 1, copied)
  /\ output' = [output EXCEPT !.unread = SubSeq(output.unread, read + 1, Len(output.unread))]

LEMMA ReadIsPossible ==
  ASSUME OutputTypes, ReadChunk
  PROVE  /\ \E read, copied \in Nat : Reads(read, copied)
         /\ launcher = "reading" /\ launcher' = "splitting"
         /\ app' = IF Overflows(buffer') THEN "undefined" ELSE app
         /\ UNCHANGED <<queue, handled, written>>
  <1>1. PICK read \in DOMAIN output.unread, copied \in 0 .. Len(output.unread) :
          /\ read <= ReadSize /\ Copies(output.unread, read, copied)
          /\ buffer' = buffer \o SubSeq(output.unread, 1, copied)
          /\ output' = [output EXCEPT !.unread = SubSeq(output.unread, read + 1, Len(output.unread))]
    BY DEF ReadChunk
  <1>2. Len(output.unread) \in Nat /\ read \in 1 .. Len(output.unread) /\ copied \in 0 .. read
    <2>1. output.unread \in Seq(Octet)
      BY DEF OutputTypes
    <2>2. copied <= read
      BY <1>1 DEF Copies
    <2> QED BY <2>1, <2>2
  <1>3. Reads(read, copied)
    BY <1>1, <1>2 DEF Reads
  <1>4. read \in Nat /\ copied \in Nat
    BY <1>2
  <1>5. /\ launcher = "reading" /\ launcher' = "splitting"
        /\ app' = IF Overflows(buffer') THEN "undefined" ELSE app
        /\ UNCHANGED <<queue, handled, written>>
    BY DEF ReadChunk, Goto, nodes
  <1> QED BY <1>3, <1>4, <1>5

(* The two parts of the pipe that are kept.                                *)
LEMMA PartsOfPipe ==
  ASSUME NEW u \in Seq(Octet), NEW read \in 1 .. Len(u), NEW copied \in 0 .. read
  PROVE  /\ SubSeq(u, 1, copied) \in Seq(Octet) /\ Len(SubSeq(u, 1, copied)) = copied
         /\ \A i \in 1 .. copied : SubSeq(u, 1, copied)[i] = u[i]
         /\ SubSeq(u, read + 1, Len(u)) \in Seq(Octet)
         /\ Len(SubSeq(u, read + 1, Len(u))) = Len(u) - read
         /\ \A i \in 1 .. Len(u) - read : SubSeq(u, read + 1, Len(u))[i] = u[read + i]
  <1>1. Len(u) \in Nat
    OBVIOUS
  <1>2. /\ SubSeq(u, 1, copied) \in Seq(Octet) /\ Len(SubSeq(u, 1, copied)) = copied
        /\ \A i \in 1 .. copied : SubSeq(u, 1, copied)[i] = u[i]
    BY <1>1
  <1>3. SubSeq(u, read + 1, Len(u)) \in Seq(Octet)
    BY <1>1
  <1>4. Len(SubSeq(u, read + 1, Len(u))) = Len(u) - read
    BY <1>1
  <1>5. \A i \in 1 .. Len(u) - read : SubSeq(u, read + 1, Len(u))[i] = u[read + i]
    BY <1>1
  <1> QED BY <1>2, <1>3, <1>4, <1>5

(* A back end adds one octet to what it has written, and to its pipe.      *)
LEMMA OctetIsWritten ==
  ASSUME OutputTypes, NEW n \in Alive, WriteOctet(n)
  PROVE  \E octet \in Octet :
            /\ octet.at = Len(written) + 1
            /\ written' = Append(written, octet)
            /\ output' = [output EXCEPT !.unread = Append(output.unread, octet)]
            /\ UNCHANGED <<launcher, shutDown, platform, buffer, queue, closing, backend, handled>>
  <1>1. PICK is \in {"text", "newline", "nul"} :
          /\ written' = Append(written, [at |-> Len(written) + 1, is |-> is])
          /\ output' = [output EXCEPT !.unread = Append(output.unread, [at |-> Len(written) + 1, is |-> is])]
    BY DEF WriteOctet
  <1>2. [at |-> Len(written) + 1, is |-> is] \in Octet
    <2>1. Len(written) \in Nat
      BY DEF OutputTypes
    <2> QED BY <2>1 DEF Octet
  <1>3. UNCHANGED <<launcher, shutDown, platform, buffer, queue, closing, backend, handled>>
    BY DEF WriteOctet
  <1> QED BY <1>1, <1>2, <1>3

(* Every step keeps the types of the output.                               *)
LEMMA StepKeepsOutputTypes ==
  ASSUME ControlInv, OutputTypes, [Next]_vars
  PROVE  OutputTypes'
  <1>1. CASE Missing
    BY <1>1 DEF Missing, OutputTypes, Closure, Enqueue, files, nodes
  <1>2. CASE StopLoop
    BY <1>2 DEF StopLoop, OutputTypes, Closure, Enqueue, files, nodes
  <1>3. CASE MakePipes
    BY <1>3 DEF MakePipes, OutputTypes, Closure, Enqueue, files, nodes
  <1>4. CASE Fork
    BY <1>4 DEF Fork, OutputTypes, Closure, Enqueue, files, nodes
  <1>5. CASE NameProcess
    BY <1>5 DEF NameProcess, OutputTypes, Closure, Enqueue, files, nodes
  <1>6. CASE QueueInit
    BY <1>6 DEF QueueInit, OutputTypes, Closure, Enqueue, files, nodes
  <1>7. CASE ConnectInput
    BY <1>7 DEF ConnectInput, OutputTypes, Closure, Enqueue, files, nodes
  <1>8. CASE ConnectOutput
    BY <1>8 DEF ConnectOutput, CloseWritingEnd, OutputTypes, Closure, Enqueue, files, nodes
  <1>9. CASE ReadChunk
    <2>1. UNCHANGED <<queue, written, handled>>
      BY <1>9, ReadIsPossible
    <2>2. PICK read, copied \in Nat : Reads(read, copied)
      BY <1>9, ReadIsPossible
    <2>3. /\ read \in 1 .. Len(output.unread) /\ copied \in 0 .. read
          /\ buffer' = buffer \o SubSeq(output.unread, 1, copied)
          /\ output' = [output EXCEPT !.unread = SubSeq(output.unread, read + 1, Len(output.unread))]
      BY <2>2 DEF Reads
    <2>4. output.unread \in Seq(Octet) /\ buffer \in Seq(Octet)
      BY DEF OutputTypes
    <2>5. /\ SubSeq(output.unread, 1, copied) \in Seq(Octet)
          /\ SubSeq(output.unread, read + 1, Len(output.unread)) \in Seq(Octet)
      BY <2>3, <2>4, PartsOfPipe
    <2>6. buffer' \in Seq(Octet)
      BY <2>3, <2>4, <2>5, ConcatProperties
    <2> QED BY <2>1, <2>3, <2>5, <2>6 DEF OutputTypes
  <1>10. CASE QueueNextLine
    <2>1. /\ HasLine /\ Enqueue([kind |-> "line", line |-> SubSeq(buffer, 1, LineEnd)])
          /\ buffer' = SubSeq(buffer, LineEnd + 1, Len(buffer))
          /\ UNCHANGED <<output, written, handled>>
      BY <1>10 DEF QueueNextLine, QueueLine, nodes
    <2>2. SubSeq(buffer, 1, LineEnd) \in Seq(Octet) /\ buffer' \in Seq(Octet)
      BY <2>1, LineIsSplitOff DEF OutputTypes
    <2> QED BY <2>1, <2>2 DEF OutputTypes, Closure, Enqueue
  <1>11. CASE LinesAreQueued
    BY <1>11 DEF LinesAreQueued, OutputTypes, Closure, Enqueue, files, nodes
  <1>12. CASE ReadEnds
    BY <1>12 DEF ReadEnds, OutputTypes, Closure, Enqueue, files, nodes
  <1>13. CASE Reap
    BY <1>13 DEF Reap, WaitReturns, OutputTypes, Closure, Enqueue, files, nodes
  <1>14. CASE CloseFiles
    BY <1>14 DEF CloseFiles, OutputTypes, Closure, Enqueue, files, nodes
  <1>15. CASE LookBeforeCleaning
    BY <1>15 DEF LookBeforeCleaning, OutputTypes, Closure, Enqueue, files, nodes
  <1>16. CASE CleanUp
    BY <1>16 DEF CleanUp, Terminated, OutputTypes, Closure, Enqueue, files, nodes
  <1>17. CASE JudgeRestart
    BY <1>17 DEF JudgeRestart, OutputTypes, Closure, Enqueue, files, nodes
  <1>18. CASE SleepEnds
    BY <1>18 DEF SleepEnds, OutputTypes, Closure, Enqueue, files, nodes
  <1>19. CASE JudgeCrash
    BY <1>19 DEF JudgeCrash, MarkShutDown, OutputTypes, Closure, Enqueue, files, nodes
  <1>20. CASE JudgeNormal
    BY <1>20 DEF JudgeNormal, OutputTypes, Closure, Enqueue, files, nodes
  <1>21. CASE HandleLine
    <2>1. /\ queue # <<>> /\ Head(queue).kind = "line" /\ queue' = Tail(queue)
          /\ handled' = Append(handled, Head(queue).line)
          /\ UNCHANGED <<output, buffer, written>>
      BY <1>21 DEF HandleLine, Dequeue, Idle, nodes
    <2>2. Tail(queue) \in Seq(Closure) /\ Head(queue) \in Closure
      BY <2>1, HeadTailProperties DEF OutputTypes
    <2>3. Head(queue).line \in Seq(Octet)
      BY <2>1, <2>2 DEF Closure
    <2> QED BY <2>1, <2>2, <2>3 DEF OutputTypes
  <1>22. CASE SendInit
    <2>1. queue # <<>> /\ queue' = Tail(queue) /\ UNCHANGED <<output, buffer, written, handled>>
      BY <1>22 DEF SendInit, Dequeue, Idle, nodes
    <2>2. Tail(queue) \in Seq(Closure)
      BY <2>1, HeadTailProperties DEF OutputTypes
    <2> QED BY <2>1, <2>2 DEF OutputTypes
  <1>23. CASE ShowAlert
    <2>1. queue # <<>> /\ queue' = Tail(queue) /\ UNCHANGED <<output, buffer, written, handled>>
      BY <1>23 DEF ShowAlert, Dequeue, Idle, nodes
    <2>2. Tail(queue) \in Seq(Closure)
      BY <2>1, HeadTailProperties DEF OutputTypes
    <2> QED BY <2>1, <2>2 DEF OutputTypes
  <1>24. CASE Kill
    BY <1>24 DEF Kill, OutputTypes, Closure, Enqueue, files, nodes
  <1>25. CASE CloseHandles
    BY <1>25 DEF CloseHandles, OutputTypes, Closure, Enqueue, files, nodes
  <1>26. CASE TerminateProcess
    BY <1>26 DEF TerminateProcess, Terminated, OutputTypes, Closure, Enqueue, files, nodes
  <1>27. CASE Shutdown
    BY <1>27 DEF Shutdown, OutputTypes, Closure, Enqueue, files, nodes
  <1>28. ASSUME NEW n \in Alive, WriteOctet(n) PROVE OutputTypes'
    <2>1. PICK octet \in Octet :
             /\ written' = Append(written, octet)
             /\ output' = [output EXCEPT !.unread = Append(output.unread, octet)]
             /\ UNCHANGED <<buffer, queue, handled>>
      BY <1>28, OctetIsWritten
    <2>2. written' \in Seq(Octet) /\ Append(output.unread, octet) \in Seq(Octet)
      BY <2>1, AppendProperties DEF OutputTypes
    <2>3. output' \in [open : BOOLEAN, held : BOOLEAN, unread : Seq(Octet)]
      BY <2>1, <2>2 DEF OutputTypes
    <2> QED BY <2>1, <2>2, <2>3 DEF OutputTypes
  <1>29. ASSUME NEW n \in Alive, CloseOutput(n) PROVE OutputTypes'
    BY <1>29 DEF CloseOutput, OutputTypes, Closure, Enqueue, files, nodes
  <1>30. ASSUME NEW n \in Alive, NEW code \in {"restart", "failed"}, Exit(n, code) PROVE OutputTypes'
    BY <1>30 DEF Exit, OutputTypes, Closure, Enqueue, files, nodes
  <1>31. CASE UNCHANGED vars
    BY <1>31 DEF vars, OutputTypes, Closure, Enqueue, files, nodes
  <1> QED
    BY <1>1, <1>2, <1>3, <1>4, <1>5, <1>6, <1>7, <1>8, <1>9, <1>10, <1>11,
         <1>12, <1>13, <1>14, <1>15, <1>16, <1>17, <1>18, <1>19, <1>20,
         <1>21, <1>22, <1>23, <1>24, <1>25, <1>26, <1>27, <1>28, <1>29,
         <1>30, <1>31
    DEF Next, LauncherStep, MainStep, BackendStep

(* Where an alert may be waiting: no more output, and no back end, comes.  *)
MayAlert ==
  \/ launcher = "done"
  \/ launcher = "top" /\ platform = "win" /\ shutDown

(* A step that leaves the queue alone keeps AlertIsLast.                   *)
LEMMA AlertStays ==
  ASSUME AlertIsLast, queue' = queue, MayAlert => MayAlert'
  PROVE  AlertIsLast'
  BY DEF AlertIsLast, MayAlert

(* A step that queues is one where no alert waits.                         *)
LEMMA AlertIsQueued ==
  ASSUME OutputTypes, AlertIsLast, ~MayAlert,
         NEW closure, Enqueue(closure), closure.kind = "alert" => MayAlert'
  PROVE  AlertIsLast'
  <1>1. \A i \in DOMAIN queue : queue[i].kind # "alert"
    BY DEF AlertIsLast, MayAlert
  <1>2. /\ Len(queue') = Len(queue) + 1 /\ Len(queue) \in Nat /\ queue'[Len(queue) + 1] = closure
        /\ DOMAIN queue' = 1 .. Len(queue) + 1 /\ \A i \in 1 .. Len(queue) : queue'[i] = queue[i]
    BY DEF OutputTypes, Enqueue
  <1>3. ASSUME NEW i \in DOMAIN queue', queue'[i].kind = "alert"
        PROVE  i = Len(queue') /\ closure.kind = "alert"
    <2>1. i \notin 1 .. Len(queue)
      BY <1>1, <1>2, <1>3 DEF OutputTypes
    <2> QED BY <1>2, <1>3, <2>1
  <1> QED BY <1>3 DEF AlertIsLast, MayAlert

(* A step that takes the first closure moves the alert up.                 *)
LEMMA AlertWaits ==
  ASSUME OutputTypes, AlertIsLast, queue # <<>>, queue' = Tail(queue), MayAlert => MayAlert'
  PROVE  AlertIsLast'
  <1>1. /\ Len(queue') = Len(queue) - 1 /\ Len(queue) \in Nat /\ DOMAIN queue' = 1 .. Len(queue) - 1
        /\ \A i \in 1 .. Len(queue) - 1 : queue'[i] = queue[i + 1] /\ i + 1 \in DOMAIN queue
    BY DEF OutputTypes
  <1>2. ASSUME NEW i \in DOMAIN queue', queue'[i].kind = "alert"
        PROVE  i = Len(queue') /\ MayAlert'
    <2>1. i \in 1 .. Len(queue) - 1 /\ i + 1 \in DOMAIN queue /\ queue[i + 1].kind = "alert"
      BY <1>1, <1>2
    <2>2. i + 1 = Len(queue) /\ MayAlert
      BY <2>1 DEF AlertIsLast, MayAlert
    <2> QED BY <1>1, <2>1, <2>2
  <1> QED BY <1>2 DEF AlertIsLast, MayAlert

(* Every step keeps the alert the last closure.                            *)
LEMMA StepKeepsAlert ==
  ASSUME ControlInv, OutputTypes, AlertIsLast, [Next]_vars
  PROVE  AlertIsLast'
  <1>0. LauncherTypes
    BY DEF ControlInv
  <1>1. CASE Missing
    <2>1. Enqueue([kind |-> "alert"]) /\ ~MayAlert /\ MayAlert'
      BY <1>0, <1>1 DEF Missing, MayAlert, Goto, LauncherTypes
    <2> QED BY <2>1, AlertIsQueued
  <1>2. CASE StopLoop
    <2>1. queue' = queue /\ (MayAlert => MayAlert')
      BY <1>2 DEF StopLoop, MayAlert, Goto
    <2> QED BY <2>1, AlertStays
  <1>3. CASE MakePipes
    <2>1. queue' = queue /\ (MayAlert => MayAlert')
      BY <1>3 DEF MakePipes, MayAlert, Goto
    <2> QED BY <2>1, AlertStays
  <1>4. CASE Fork
    <2>1. queue' = queue /\ (MayAlert => MayAlert')
      BY <1>4 DEF Fork, MayAlert, Goto
    <2> QED BY <2>1, AlertStays
  <1>5. CASE NameProcess
    <2>1. queue' = queue /\ (MayAlert => MayAlert')
      BY <1>5 DEF NameProcess, MayAlert, Goto
    <2> QED BY <2>1, AlertStays
  <1>6. CASE QueueInit
    <2>1. Enqueue([kind |-> "init"]) /\ ~MayAlert
      BY <1>0, <1>6 DEF QueueInit, MayAlert, Goto, LauncherTypes
    <2> QED BY <2>1, AlertIsQueued
  <1>7. CASE ConnectInput
    <2>1. queue' = queue /\ (MayAlert => MayAlert')
      BY <1>7 DEF ConnectInput, MayAlert, Goto
    <2> QED BY <2>1, AlertStays
  <1>8. CASE ConnectOutput
    <2>1. queue' = queue /\ (MayAlert => MayAlert')
      BY <1>8 DEF ConnectOutput, CloseWritingEnd, MayAlert, Goto
    <2> QED BY <2>1, AlertStays
  <1>9. CASE ReadChunk
    <2>1. queue' = queue /\ (MayAlert => MayAlert')
      BY <1>9 DEF ReadChunk, MayAlert, Goto
    <2> QED BY <2>1, AlertStays
  <1>10. CASE QueueNextLine
    <2>1. Enqueue([kind |-> "line", line |-> SubSeq(buffer, 1, LineEnd)]) /\ ~MayAlert
      BY <1>0, <1>10 DEF QueueNextLine, QueueLine, MayAlert, Goto, LauncherTypes
    <2> QED BY <2>1, AlertIsQueued
  <1>11. CASE LinesAreQueued
    <2>1. queue' = queue /\ (MayAlert => MayAlert')
      BY <1>11 DEF LinesAreQueued, MayAlert, Goto
    <2> QED BY <2>1, AlertStays
  <1>12. CASE ReadEnds
    <2>1. queue' = queue /\ (MayAlert => MayAlert')
      BY <1>12 DEF ReadEnds, MayAlert, Goto
    <2> QED BY <2>1, AlertStays
  <1>13. CASE Reap
    <2>1. queue' = queue /\ (MayAlert => MayAlert')
      BY <1>13 DEF Reap, WaitReturns, MayAlert, Goto
    <2> QED BY <2>1, AlertStays
  <1>14. CASE CloseFiles
    <2>1. queue' = queue /\ (MayAlert => MayAlert')
      BY <1>14 DEF CloseFiles, MayAlert, Goto
    <2> QED BY <2>1, AlertStays
  <1>15. CASE LookBeforeCleaning
    <2>1. queue' = queue /\ (MayAlert => MayAlert')
      BY <1>15 DEF LookBeforeCleaning, MayAlert, Goto
    <2> QED BY <2>1, AlertStays
  <1>16. CASE CleanUp
    <2>1. queue' = queue /\ (MayAlert => MayAlert')
      BY <1>16 DEF CleanUp, Terminated, MayAlert, Goto
    <2> QED BY <2>1, AlertStays
  <1>17. CASE JudgeRestart
    <2>1. queue' = queue /\ (MayAlert => MayAlert')
      BY <1>17 DEF JudgeRestart, MayAlert, Goto
    <2> QED BY <2>1, AlertStays
  <1>18. CASE SleepEnds
    <2>1. queue' = queue /\ (MayAlert => MayAlert')
      BY <1>18 DEF SleepEnds, MayAlert, Goto
    <2> QED BY <2>1, AlertStays
  <1>19. CASE JudgeCrash
    <2>1. Enqueue([kind |-> "alert"]) /\ ~MayAlert /\ MayAlert'
      BY <1>0, <1>19 DEF JudgeCrash, MarkShutDown, MayAlert, Goto, LauncherTypes
    <2> QED BY <2>1, AlertIsQueued
  <1>20. CASE JudgeNormal
    <2>1. queue' = queue /\ (MayAlert => MayAlert')
      BY <1>20 DEF JudgeNormal, MayAlert, Goto
    <2> QED BY <2>1, AlertStays
  <1>21. CASE HandleLine
    <2>1. queue # <<>> /\ queue' = Tail(queue) /\ (MayAlert => MayAlert')
      BY <1>21 DEF HandleLine, Dequeue, Idle, MayAlert
    <2> QED BY <2>1, AlertWaits
  <1>22. CASE SendInit
    <2>1. queue # <<>> /\ queue' = Tail(queue) /\ (MayAlert => MayAlert')
      BY <1>22 DEF SendInit, Dequeue, Idle, MayAlert
    <2> QED BY <2>1, AlertWaits
  <1>23. CASE ShowAlert
    <2>1. queue # <<>> /\ queue' = Tail(queue) /\ (MayAlert => MayAlert')
      BY <1>23 DEF ShowAlert, Dequeue, Idle, MayAlert
    <2> QED BY <2>1, AlertWaits
  <1>24. CASE Kill
    <2>1. queue' = queue /\ (MayAlert => MayAlert')
      BY <1>24 DEF Kill, MayAlert, Goto
    <2> QED BY <2>1, AlertStays
  <1>25. CASE CloseHandles
    <2>1. queue' = queue /\ (MayAlert => MayAlert')
      BY <1>25 DEF CloseHandles, MayAlert, Goto
    <2> QED BY <2>1, AlertStays
  <1>26. CASE TerminateProcess
    <2>1. queue' = queue /\ (MayAlert => MayAlert')
      BY <1>26 DEF TerminateProcess, Terminated, MayAlert, Goto
    <2> QED BY <2>1, AlertStays
  <1>27. CASE Shutdown
    <2>1. queue' = queue /\ (MayAlert => MayAlert')
      BY <1>27 DEF Shutdown, MayAlert, Goto
    <2> QED BY <2>1, AlertStays
  <1>28. ASSUME NEW n \in Alive, WriteOctet(n) PROVE AlertIsLast'
    <2>1. queue' = queue /\ (MayAlert => MayAlert')
      BY <1>28 DEF WriteOctet, MayAlert
    <2> QED BY <2>1, AlertStays
  <1>29. ASSUME NEW n \in Alive, CloseOutput(n) PROVE AlertIsLast'
    <2>1. queue' = queue /\ (MayAlert => MayAlert')
      BY <1>29 DEF CloseOutput, MayAlert
    <2> QED BY <2>1, AlertStays
  <1>30. ASSUME NEW n \in Alive, NEW code \in {"restart", "failed"}, Exit(n, code) PROVE AlertIsLast'
    <2>1. queue' = queue /\ (MayAlert => MayAlert')
      BY <1>30 DEF Exit, MayAlert
    <2> QED BY <2>1, AlertStays
  <1>31. CASE UNCHANGED vars
    BY <1>31 DEF vars, AlertIsLast
  <1> QED
    BY <1>1, <1>2, <1>3, <1>4, <1>5, <1>6, <1>7, <1>8, <1>9, <1>10, <1>11,
         <1>12, <1>13, <1>14, <1>15, <1>16, <1>17, <1>18, <1>19, <1>20,
         <1>21, <1>22, <1>23, <1>24, <1>25, <1>26, <1>27, <1>28, <1>29,
         <1>30, <1>31
    DEF Next, LauncherStep, MainStep, BackendStep

(* Every step keeps the output as the launcher needs it.                   *)
LEMMA StepKeepsOutput ==
  ASSUME ControlInv, OutputTypes, OutputInv, [Next]_vars
  PROVE  OutputInv'
  <1>1. CASE Missing
    BY <1>1 DEF Missing, OutputInv, Open, Past, Alive, Launched, ControlInv, LauncherTypes, PlaceInv, AliveInv, OutputTypes, Goto, nodes
  <1>2. CASE StopLoop
    BY <1>2 DEF StopLoop, OutputInv, Open, Past, Alive, Launched, ControlInv, LauncherTypes, PlaceInv, AliveInv, OutputTypes, Goto, nodes
  <1>3. CASE MakePipes
    BY <1>3 DEF MakePipes, OutputInv, Open, Past, Alive, Launched, ControlInv, LauncherTypes, PlaceInv, AliveInv, OutputTypes, Goto, nodes
  <1>4. CASE Fork
    BY <1>4 DEF Fork, OutputInv, Open, Past, Alive, Launched, ControlInv, LauncherTypes, PlaceInv, AliveInv, OutputTypes, Goto, nodes
  <1>5. CASE NameProcess
    BY <1>5 DEF NameProcess, OutputInv, Open, Past, Alive, Launched, ControlInv, LauncherTypes, PlaceInv, AliveInv, OutputTypes, Goto, nodes
  <1>6. CASE QueueInit
    BY <1>6 DEF QueueInit, OutputInv, Open, Past, Alive, Launched, ControlInv, LauncherTypes, PlaceInv, AliveInv, OutputTypes, Goto, nodes
  <1>7. CASE ConnectInput
    BY <1>7 DEF ConnectInput, OutputInv, Open, Past, Alive, Launched, ControlInv, LauncherTypes, PlaceInv, AliveInv, OutputTypes, Goto, nodes
  <1>8. CASE ConnectOutput
    BY <1>8 DEF ConnectOutput, CloseWritingEnd, OutputInv, Open, Past, Alive, Launched, ControlInv, LauncherTypes, PlaceInv, AliveInv, OutputTypes, Goto, nodes
  <1>9. CASE ReadChunk
    BY <1>9 DEF ReadChunk, OutputInv, Open, Past, Alive, Launched, ControlInv, LauncherTypes, PlaceInv, AliveInv, OutputTypes, Goto, nodes
  <1>10. CASE QueueNextLine
    BY <1>10 DEF QueueNextLine, QueueLine, OutputInv, Open, Past, Alive, Launched, ControlInv, LauncherTypes, PlaceInv, AliveInv, OutputTypes, Goto, nodes
  <1>11. CASE LinesAreQueued
    BY <1>11 DEF LinesAreQueued, OutputInv, Open, Past, Alive, Launched, ControlInv, LauncherTypes, PlaceInv, AliveInv, OutputTypes, Goto, nodes
  <1>12. CASE ReadEnds
    BY <1>12 DEF ReadEnds, OutputInv, Open, Past, Alive, Launched, ControlInv, LauncherTypes, PlaceInv, AliveInv, OutputTypes, Goto, nodes
  <1>13. CASE Reap
    BY <1>13 DEF Reap, WaitReturns, OutputInv, Open, Past, Alive, Launched, ControlInv, LauncherTypes, PlaceInv, AliveInv, OutputTypes, Goto, nodes
  <1>14. CASE CloseFiles
    BY <1>14 DEF CloseFiles, OutputInv, Open, Past, Alive, Launched, ControlInv, LauncherTypes, PlaceInv, AliveInv, OutputTypes, Goto, nodes
  <1>15. CASE LookBeforeCleaning
    BY <1>15 DEF LookBeforeCleaning, OutputInv, Open, Past, Alive, Launched, ControlInv, LauncherTypes, PlaceInv, AliveInv, OutputTypes, Goto, nodes
  <1>16. CASE CleanUp
    BY <1>16 DEF CleanUp, Terminated, OutputInv, Open, Past, Alive, Launched, ControlInv, LauncherTypes, PlaceInv, AliveInv, OutputTypes, Goto, nodes
  <1>17. CASE JudgeRestart
    BY <1>17 DEF JudgeRestart, OutputInv, Open, Past, Alive, Launched, ControlInv, LauncherTypes, PlaceInv, AliveInv, OutputTypes, Goto, nodes
  <1>18. CASE SleepEnds
    BY <1>18 DEF SleepEnds, OutputInv, Open, Past, Alive, Launched, ControlInv, LauncherTypes, PlaceInv, AliveInv, OutputTypes, Goto, nodes
  <1>19. CASE JudgeCrash
    BY <1>19 DEF JudgeCrash, MarkShutDown, OutputInv, Open, Past, Alive, Launched, ControlInv, LauncherTypes, PlaceInv, AliveInv, OutputTypes, Goto, nodes
  <1>20. CASE JudgeNormal
    BY <1>20 DEF JudgeNormal, OutputInv, Open, Past, Alive, Launched, ControlInv, LauncherTypes, PlaceInv, AliveInv, OutputTypes, Goto, nodes
  <1>21. CASE HandleLine
    BY <1>21 DEF HandleLine, Dequeue, Idle, OutputInv, Open, Past, Alive, Launched, ControlInv, LauncherTypes, PlaceInv, AliveInv, OutputTypes, Goto, nodes
  <1>22. CASE SendInit
    BY <1>22 DEF SendInit, Dequeue, Idle, OutputInv, Open, Past, Alive, Launched, ControlInv, LauncherTypes, PlaceInv, AliveInv, OutputTypes, Goto, nodes
  <1>23. CASE ShowAlert
    BY <1>23 DEF ShowAlert, Dequeue, Idle, OutputInv, Open, Past, Alive, Launched, ControlInv, LauncherTypes, PlaceInv, AliveInv, OutputTypes, Goto, nodes
  <1>24. CASE Kill
    BY <1>24 DEF Kill, OutputInv, Open, Past, Alive, Launched, ControlInv, LauncherTypes, PlaceInv, AliveInv, OutputTypes, Goto, nodes
  <1>25. CASE CloseHandles
    BY <1>25 DEF CloseHandles, OutputInv, Open, Past, Alive, Launched, ControlInv, LauncherTypes, PlaceInv, AliveInv, OutputTypes, Goto, nodes
  <1>26. CASE TerminateProcess
    BY <1>26 DEF TerminateProcess, Terminated, OutputInv, Open, Past, Alive, Launched, ControlInv, LauncherTypes, PlaceInv, AliveInv, OutputTypes, Goto, nodes
  <1>27. CASE Shutdown
    BY <1>27 DEF Shutdown, OutputInv, Open, Past, Alive, Launched, ControlInv, LauncherTypes, PlaceInv, AliveInv, OutputTypes, Goto, nodes
  <1>28. ASSUME NEW n \in Alive, WriteOctet(n) PROVE OutputInv'
    BY <1>28 DEF WriteOctet, OutputInv, Open, Past, Alive, Launched, ControlInv, LauncherTypes, PlaceInv, AliveInv, OutputTypes, Goto, nodes
  <1>29. ASSUME NEW n \in Alive, CloseOutput(n) PROVE OutputInv'
    BY <1>29 DEF CloseOutput, OutputInv, Open, Past, Alive, Launched, ControlInv, LauncherTypes, PlaceInv, AliveInv, OutputTypes, Goto, nodes
  <1>30. ASSUME NEW n \in Alive, NEW code \in {"restart", "failed"}, Exit(n, code) PROVE OutputInv'
    BY <1>30 DEF Exit, OutputInv, Open, Past, Alive, Launched, ControlInv, LauncherTypes, PlaceInv, AliveInv, OutputTypes, Goto, nodes
  <1>31. CASE UNCHANGED vars
    BY <1>31 DEF vars, OutputInv, Open, Past, Alive, Launched, ControlInv, LauncherTypes, PlaceInv, AliveInv, OutputTypes, Goto, nodes
  <1> QED
    BY <1>1, <1>2, <1>3, <1>4, <1>5, <1>6, <1>7, <1>8, <1>9, <1>10, <1>11,
         <1>12, <1>13, <1>14, <1>15, <1>16, <1>17, <1>18, <1>19, <1>20,
         <1>21, <1>22, <1>23, <1>24, <1>25, <1>26, <1>27, <1>28, <1>29,
         <1>30, <1>31
    DEF Next, LauncherStep, MainStep, BackendStep

-----------------------------------------------------------------------------
(* The lines: what the main thread has handled, and what waits for it.      *)

(* What waits is a list of sequences of octets, and so is the whole.       *)
LEMMA TextsTypes ==
  ASSUME OutputTypes
  PROVE  /\ Waiting \in Seq(Seq(Octet)) /\ Len(Waiting) = Len(queue)
         /\ Texts = handled \o Waiting /\ Texts \in Seq(Seq(Octet))
         /\ FlattenSeq(Texts) \in Seq(Octet)
  <1>1. \A i \in DOMAIN queue : Text(queue[i]) \in Seq(Octet)
    <2> SUFFICES ASSUME NEW i \in DOMAIN queue PROVE Text(queue[i]) \in Seq(Octet)
      OBVIOUS
    <2>1. queue[i] \in Closure
      BY DEF OutputTypes
    <2> QED BY <2>1 DEF Closure, Text
  <1>2. Waiting \in Seq(Seq(Octet)) /\ Len(Waiting) = Len(queue)
    <2>1. Len(queue) \in Nat /\ DOMAIN queue = 1 .. Len(queue)
      BY DEF OutputTypes
    <2>2. Waiting \in [1 .. Len(queue) -> Seq(Octet)]
      BY <1>1, <2>1 DEF Waiting
    <2> QED BY <2>1, <2>2
  <1>3. Texts = handled \o Waiting
    BY DEF Texts, Waiting
  <1>4. Texts \in Seq(Seq(Octet))
    BY <1>2, <1>3, ConcatProperties DEF OutputTypes
  <1>5. FlattenSeq(Texts) \in Seq(Octet)
    BY <1>4, <<>> \in Seq(Octet), FlattenAppend
  <1> QED BY <1>2, <1>3, <1>4, <1>5

(* AllWhole of two lists together.                                         *)
LEMMA WholeConcat ==
  ASSUME NEW s \in Seq(Seq(Octet)), NEW t \in Seq(Seq(Octet))
  PROVE  AllWhole(s \o t) <=> AllWhole(s) /\ AllWhole(t)
  <1>1. /\ Len(s \o t) = Len(s) + Len(t) /\ Len(s) \in Nat /\ Len(t) \in Nat
        /\ DOMAIN (s \o t) = 1 .. Len(s) + Len(t)
        /\ DOMAIN s = 1 .. Len(s) /\ DOMAIN t = 1 .. Len(t)
        /\ \A i \in 1 .. Len(s) : (s \o t)[i] = s[i]
        /\ \A i \in 1 .. Len(t) : (s \o t)[Len(s) + i] = t[i]
    BY ConcatProperties
  <1>2. ASSUME AllWhole(s \o t) PROVE AllWhole(s) /\ AllWhole(t)
    <2>1. ASSUME NEW i \in DOMAIN s PROVE Whole(s[i])
      <3>1. i \in DOMAIN (s \o t) /\ (s \o t)[i] = s[i]
        BY <1>1
      <3>2. Whole((s \o t)[i])
        BY <1>2, <3>1 DEF AllWhole
      <3> QED BY <3>1, <3>2
    <2>2. ASSUME NEW i \in DOMAIN t PROVE Whole(t[i])
      <3>1. Len(s) + i \in DOMAIN (s \o t) /\ (s \o t)[Len(s) + i] = t[i]
        BY <1>1
      <3>2. Whole((s \o t)[Len(s) + i])
        BY <1>2, <3>1 DEF AllWhole
      <3> QED BY <3>1, <3>2
    <2> QED BY <2>1, <2>2 DEF AllWhole
  <1>3. ASSUME AllWhole(s), AllWhole(t), NEW i \in DOMAIN (s \o t) PROVE Whole((s \o t)[i])
    <2>1. CASE i <= Len(s)
      <3>1. i \in DOMAIN s /\ (s \o t)[i] = s[i]
        BY <1>1, <2>1
      <3> QED BY <1>3, <3>1 DEF AllWhole
    <2>2. CASE ~(i <= Len(s))
      <3> DEFINE j == i - Len(s)
      <3>1. j \in 1 .. Len(t) /\ i = Len(s) + j
        BY <1>1, <2>2
      <3>2. j \in DOMAIN t /\ (s \o t)[i] = t[j]
        BY <1>1, <3>1
      <3> QED BY <1>3, <3>2 DEF AllWhole
    <2> QED BY <2>1, <2>2
  <1> QED BY <1>2, <1>3 DEF AllWhole

(* AllWhole of a list and one line more.                                   *)
LEMMA WholeAppend ==
  ASSUME NEW s \in Seq(Seq(Octet)), NEW line \in Seq(Octet)
  PROVE  AllWhole(Append(s, line)) <=> AllWhole(s) /\ Whole(line)
  <1>1. Append(s, line) = s \o <<line>> /\ <<line>> \in Seq(Seq(Octet))
    BY AppendIsConcat
  <1>2. AllWhole(<<line>>) <=> Whole(line)
    BY DEF AllWhole
  <1> QED BY <1>1, <1>2, WholeConcat

(* A sequence is the function of its members.                              *)
LEMMA SeqIsFunction ==
  ASSUME NEW S, NEW s \in Seq(S)
  PROVE  s = [i \in 1 .. Len(s) |-> s[i]]
  <1>1. s \in [1 .. Len(s) -> S]
    OBVIOUS
  <1> QED BY <1>1

(* A closure more is one text more.                                        *)
LEMMA TextIsQueued ==
  ASSUME OutputTypes, NEW closure \in Closure, Enqueue(closure), handled' = handled
  PROVE  /\ Text(closure) \in Seq(Octet)
         /\ Texts' = Append(Texts, Text(closure))
  <1>1. Text(closure) \in Seq(Octet)
    BY DEF Closure, Text
  <1>2. Waiting' = Append(Waiting, Text(closure))
    <2>1. /\ queue' \in Seq(Closure) /\ Len(queue') = Len(queue) + 1 /\ Len(queue) \in Nat
          /\ DOMAIN queue' = 1 .. Len(queue) + 1 /\ DOMAIN queue = 1 .. Len(queue)
          /\ \A i \in 1 .. Len(queue) : queue'[i] = queue[i]
          /\ queue'[Len(queue) + 1] = closure
      BY DEF OutputTypes, Enqueue
    <2>2. /\ Waiting' = [i \in 1 .. Len(queue) + 1 |-> Text(queue'[i])]
          /\ Waiting = [i \in 1 .. Len(queue) |-> Text(queue[i])]
      BY <2>1 DEF Waiting, Text
    <2> DEFINE more == Append(Waiting, Text(closure))
    <2>3. /\ more \in Seq(Seq(Octet)) /\ DOMAIN more = 1 .. Len(queue) + 1
          /\ \A i \in 1 .. Len(queue) : more[i] = Waiting[i]
          /\ more[Len(queue) + 1] = Text(closure)
      <3>1. Waiting \in Seq(Seq(Octet)) /\ Len(Waiting) = Len(queue)
        BY TextsTypes
      <3> QED BY <1>1, <2>1, <3>1, AppendProperties
    <2> HIDE DEF more
    <2>4. more = [i \in 1 .. Len(queue) + 1 |-> more[i]]
      <3>1. Len(more) = Len(queue) + 1
        BY <1>1, <2>1, TextsTypes, AppendProperties DEF more
      <3> QED BY <2>3, <3>1, SeqIsFunction
    <2>5. ASSUME NEW i \in 1 .. Len(queue) + 1 PROVE more[i] = Text(queue'[i])
      <3>1. CASE i = Len(queue) + 1
        BY <2>1, <2>3, <3>1
      <3>2. CASE i # Len(queue) + 1
        <4>1. i \in 1 .. Len(queue)
          BY <2>1, <3>2
        <4> QED BY <2>1, <2>2, <2>3, <4>1
      <3> QED BY <3>1, <3>2
    <2>6. Waiting' = more
      BY <2>2, <2>4, <2>5
    <2> QED BY <2>6 DEF more
  <1>3. Append(Texts, Text(closure)) = handled \o Append(Waiting, Text(closure))
    <2>1. handled \in Seq(Seq(Octet)) /\ Waiting \in Seq(Seq(Octet)) /\ Texts = handled \o Waiting
      BY TextsTypes DEF OutputTypes
    <2>2. /\ <<Text(closure)>> \in Seq(Seq(Octet)) /\ Texts \in Seq(Seq(Octet))
      BY <1>1, TextsTypes
    <2>3. /\ Append(Texts, Text(closure)) = Texts \o <<Text(closure)>>
          /\ Append(Waiting, Text(closure)) = Waiting \o <<Text(closure)>>
      BY <1>1, <2>1, <2>2, AppendIsConcat
    <2>4. (handled \o Waiting) \o <<Text(closure)>> = handled \o (Waiting \o <<Text(closure)>>)
      BY <2>1, <2>2, ConcatAssociative
    <2> QED BY <2>1, <2>3, <2>4
  <1>4. Texts' = handled' \o Waiting'
    BY DEF Texts, Waiting
  <1> QED BY <1>1, <1>2, <1>3, <1>4

(* The first closure that waits has the text behind what was handled.      *)
LEMMA TextIsFirst ==
  ASSUME OutputTypes, queue # <<>>, queue' = Tail(queue)
  PROVE  /\ Text(Head(queue)) \in Seq(Octet) /\ Waiting' \in Seq(Seq(Octet))
         /\ Texts = Append(handled, Text(Head(queue))) \o Waiting'
  <1>1. /\ queue' \in Seq(Closure) /\ Head(queue) \in Closure /\ Head(queue) = queue[1]
        /\ Len(queue') = Len(queue) - 1 /\ Len(queue) \in Nat /\ Len(queue) # 0
        /\ DOMAIN queue' = 1 .. Len(queue) - 1 /\ DOMAIN queue = 1 .. Len(queue)
        /\ \A i \in 1 .. Len(queue) - 1 : queue'[i] = queue[i + 1]
    BY HeadTailProperties DEF OutputTypes
  <1>2. Text(Head(queue)) \in Seq(Octet)
    BY <1>1 DEF Closure, Text
  <1>3. /\ Waiting' = [i \in 1 .. Len(queue) - 1 |-> Text(queue'[i])]
        /\ Waiting = [i \in 1 .. Len(queue) |-> Text(queue[i])]
    BY <1>1 DEF Waiting, Text
  <1>4. Waiting' \in Seq(Seq(Octet)) /\ Waiting' = Tail(Waiting) /\ Head(Waiting) = Text(Head(queue))
    <2>1. Waiting \in Seq(Seq(Octet)) /\ Len(Waiting) = Len(queue) /\ Waiting # <<>>
      BY <1>1, TextsTypes
    <2>2. /\ Tail(Waiting) \in Seq(Seq(Octet)) /\ Len(Tail(Waiting)) = Len(queue) - 1
          /\ \A i \in 1 .. Len(queue) - 1 : Tail(Waiting)[i] = Waiting[i + 1]
          /\ Head(Waiting) = Waiting[1]
      BY <1>1, <2>1, HeadTailProperties
    <2>3. Tail(Waiting) = [i \in 1 .. Len(queue) - 1 |-> Tail(Waiting)[i]]
      BY <2>2, SeqIsFunction
    <2>4. \A i \in 1 .. Len(queue) - 1 : Waiting[i + 1] = Text(queue[i + 1]) /\ queue'[i] = queue[i + 1]
      BY <1>1, <1>3
    <2>5. \A i \in 1 .. Len(queue) - 1 : Tail(Waiting)[i] = Text(queue'[i])
      BY <2>2, <2>4
    <2>6. Waiting[1] = Text(queue[1])
      BY <1>1, <1>3
    <2> QED BY <1>1, <1>3, <2>2, <2>3, <2>5, <2>6
  <1>5. Waiting = <<Text(Head(queue))>> \o Waiting'
    <2>1. Waiting \in Seq(Seq(Octet)) /\ Waiting # <<>>
      BY <1>1, TextsTypes
    <2>2. Waiting = <<Head(Waiting)>> \o Tail(Waiting)
      BY <2>1, HeadTailProperties
    <2> QED BY <1>4, <2>2
  <1>6. /\ handled \in Seq(Seq(Octet)) /\ <<Text(Head(queue))>> \in Seq(Seq(Octet))
        /\ Append(handled, Text(Head(queue))) = handled \o <<Text(Head(queue))>>
    BY <1>2, AppendIsConcat DEF OutputTypes
  <1>7. Texts = handled \o Waiting
    BY TextsTypes
  <1>8. (handled \o <<Text(Head(queue))>>) \o Waiting' = handled \o (<<Text(Head(queue))>> \o Waiting')
    <2>1. \A a, b, c \in Seq(Seq(Octet)) : (a \o b) \o c = a \o (b \o c)
      BY ConcatAssociative
    <2> QED BY <1>4, <1>6, <2>1
  <1> QED BY <1>2, <1>4, <1>5, <1>6, <1>7, <1>8

(* A place behind the first n, if r of the l places behind those are gone. *)
LEMMA PlaceInRest ==
  ASSUME NEW i \in Nat, NEW n \in Nat, NEW l \in Nat, NEW r \in Nat,
         r <= l, i > n, i <= n + (l - r)
  PROVE  i - n \in 1 .. l - r /\ i = n + (i - n) /\ r + (i - n) \in 1 .. l
  OBVIOUS

(* A read takes a part from the pipe, and what it does not copy is lost.   *)
LEMMA PartIsLost ==
  ASSUME NEW d \in Seq(Octet), NEW u \in Seq(Octet), NEW w \in Seq(Octet),
         NEW read \in 1 .. Len(u), read <= ReadSize, NEW copied \in 0 .. read,
         Copies(u, read, copied), Flows(d \o u, w), IsLast(u, w)
  PROVE  /\ Flows((d \o SubSeq(u, 1, copied)) \o SubSeq(u, read + 1, Len(u)), w)
         /\ IsLast(SubSeq(u, read + 1, Len(u)), w)
  <1> DEFINE k == d \o u
             front == d \o SubSeq(u, 1, copied)
             rest == SubSeq(u, read + 1, Len(u))
             m == front \o rest
             n == Len(d) + copied
             gap == read - copied
  <1>1. /\ k \in Seq(Octet) /\ Len(k) = Len(d) + Len(u) /\ DOMAIN k = 1 .. Len(k)
        /\ \A i \in 1 .. Len(d) : k[i] = d[i]
        /\ \A i \in 1 .. Len(u) : k[Len(d) + i] = u[i]
        /\ Len(d) \in Nat /\ Len(u) \in Nat /\ Len(w) \in Nat
        /\ DOMAIN u = 1 .. Len(u) /\ DOMAIN w = 1 .. Len(w)
    BY ConcatProperties
  <1>2. /\ rest \in Seq(Octet) /\ Len(rest) = Len(u) - read
        /\ \A i \in 1 .. Len(u) - read : rest[i] = u[read + i]
    BY PartsOfPipe
  <1>3. /\ front \in Seq(Octet) /\ Len(front) = n
        /\ \A i \in 1 .. Len(d) : front[i] = d[i]
        /\ \A i \in 1 .. copied : front[Len(d) + i] = u[i]
    <2>1. /\ SubSeq(u, 1, copied) \in Seq(Octet) /\ Len(SubSeq(u, 1, copied)) = copied
          /\ \A i \in 1 .. copied : SubSeq(u, 1, copied)[i] = u[i]
      BY PartsOfPipe
    <2> QED BY <2>1, ConcatProperties
  <1> HIDE DEF rest, front, k
  <1>4. /\ m \in Seq(Octet) /\ Len(m) = n + (Len(u) - read)
        /\ \A i \in 1 .. n : m[i] = front[i]
        /\ \A i \in 1 .. Len(u) - read : m[n + i] = rest[i]
    <2>1. /\ m \in Seq(Octet) /\ Len(m) = Len(front) + Len(rest)
          /\ \A i \in 1 .. Len(front) : m[i] = front[i]
          /\ \A i \in 1 .. Len(rest) : m[Len(front) + i] = rest[i]
      <3>1. front \in Seq(Octet) /\ rest \in Seq(Octet)
        BY <1>2, <1>3
      <3> QED BY <3>1, ConcatProperties
    <2>2. Len(front) = n /\ Len(rest) = Len(u) - read
      BY <1>2, <1>3
    <2> HIDE DEF m, n
    <2> QED BY <2>1, <2>2
  <1> HIDE DEF m
  <1> DEFINE Source(i) == IF i <= n THEN i ELSE i + gap
  <1>5. ASSUME NEW i \in DOMAIN m
        PROVE  i \in Nat /\ Source(i) \in DOMAIN k /\ m[i] = k[Source(i)]
    <2>1. i \in 1 .. n + (Len(u) - read)
      BY <1>4
    <2>2. CASE i <= Len(d)
      <3>1. m[i] = d[i] /\ k[i] = d[i] /\ i \in 1 .. Len(k) /\ Source(i) = i
        BY <1>1, <1>3, <1>4, <2>1, <2>2
      <3> QED BY <1>1, <2>1, <3>1
    <2>3. CASE i > Len(d) /\ i <= n
      <3> DEFINE j == i - Len(d)
      <3>1. j \in 1 .. copied /\ i = Len(d) + j /\ j \in 1 .. Len(u)
        BY <1>1, <2>1, <2>3
      <3>2. m[i] = u[j] /\ k[i] = u[j]
        <4>1. m[i] = front[i]
          BY <1>4, <2>1, <2>3
        <4>2. front[Len(d) + j] = u[j] /\ k[Len(d) + j] = u[j]
          BY <1>1, <1>3, <3>1
        <4> QED BY <3>1, <4>1, <4>2
      <3>3. i \in 1 .. Len(k) /\ Source(i) = i
        BY <1>1, <2>1, <2>3
      <3> QED BY <1>1, <2>1, <3>2, <3>3
    <2>4. CASE i > n
      <3> DEFINE j == i - n
      <3>1. j \in 1 .. Len(u) - read /\ i = n + j /\ read + j \in 1 .. Len(u)
        <4>1. /\ n \in Nat /\ Len(u) \in Nat /\ read \in Nat /\ read <= Len(u)
              /\ i \in Nat /\ i > n /\ i <= n + (Len(u) - read)
          BY <1>1, <2>1, <2>4
        <4> HIDE DEF n
        <4> QED BY ONLY <4>1, PlaceInRest
      <3>2. m[i] = u[read + j]
        BY <1>2, <1>4, <3>1
      <3>3. Source(i) = Len(d) + (read + j) /\ Len(d) + (read + j) \in 1 .. Len(k)
        BY <1>1, <2>1, <2>4, <3>1
      <3>4. k[Len(d) + (read + j)] = u[read + j]
        BY <1>1, <3>1
      <3>5. i \in Nat /\ DOMAIN k = 1 .. Len(k)
        BY <1>1, <2>1
      <3> HIDE DEF j, Source
      <3> QED BY <3>2, <3>3, <3>4, <3>5
    <2> QED BY <1>1, <2>1, <2>2, <2>3, <2>4
  <1>6. \A i, j \in DOMAIN m : i < j => Source(i) < Source(j)
    <2>1. \A i \in DOMAIN m : i \in Nat
      BY <1>5
    <2> QED BY <1>1, <2>1
  <1>7. \A i \in DOMAIN k : k[i].at \in 1 .. Len(w) /\ w[k[i].at] = k[i]
    BY <1>1 DEF Flows, Written, k
  <1>8. Written(m, w)
    <2> HIDE DEF Source
    <2> QED BY <1>1, <1>5, <1>7 DEF Written
  <1>9. InOrder(m)
    <2>1. InOrder(k)
      BY DEF Flows, k
    <2> HIDE DEF Source
    <2> QED BY <1>5, <1>6, <2>1 DEF InOrder
  <1>10. ASSUME copied < read
         PROVE  /\ Len(w) - Len(u) + copied + 1 \in DOMAIN w
                /\ w[Len(w) - Len(u) + copied + 1].is = "nul"
    <2>1. copied + 1 \in 1 .. Len(u) /\ u[copied + 1].is = "nul"
      BY <1>1, <1>10 DEF Copies
    <2>2. u[copied + 1].at = Len(w) - Len(u) + (copied + 1)
      BY <1>1, <2>1 DEF IsLast
    <2>3. Len(d) + (copied + 1) \in DOMAIN k /\ k[Len(d) + (copied + 1)] = u[copied + 1]
      BY <1>1, <2>1
    <2>4. u[copied + 1].at \in 1 .. Len(w) /\ w[u[copied + 1].at] = u[copied + 1]
      BY <1>7, <2>3
    <2>5. Len(w) - Len(u) + (copied + 1) = Len(w) - Len(u) + copied + 1
      BY <1>1
    <2> QED BY <1>1, <2>1, <2>2, <2>4, <2>5
  <1>11. ASSUME NoNul(w) PROVE m = w
    <2>1. copied = read
      BY <1>10, <1>11 DEF NoNul
    <2>2. Len(m) = Len(k) /\ Len(k) \in Nat /\ \A i \in DOMAIN m : m[i] = k[i]
      <3>1. Len(m) = Len(k) /\ Len(k) \in Nat
        BY <1>1, <1>4, <2>1
      <3>2. \A i \in DOMAIN m : i \in Nat
        BY <1>5
      <3>3. \A i \in DOMAIN m : Source(i) = i
        BY <2>1, <3>2
      <3> HIDE DEF Source
      <3> QED BY <1>5, <3>1, <3>3
    <2>3. m = [i \in 1 .. Len(k) |-> m[i]] /\ k = [i \in 1 .. Len(k) |-> k[i]]
      BY <1>1, <1>4, <2>2, SeqIsFunction
    <2>4. m = k
      <3>1. DOMAIN m = 1 .. Len(k)
        BY <1>4, <2>2
      <3> QED BY <2>2, <2>3, <3>1
    <2>5. k = w
      BY <1>11 DEF Flows, k
    <2> QED BY <2>4, <2>5
  <1>12. ASSUME NEW p \in DOMAIN w, NEW i \in DOMAIN k, k[i].at = p
         PROVE  (\E j \in DOMAIN m : m[j].at = p) \/ CostOfNul(w, p)
    <2>1. i \in 1 .. Len(d) + Len(u)
      BY <1>1
    <2>2. CASE i <= n
      <3>1. i \in DOMAIN m /\ Source(i) = i
        BY <1>1, <1>4, <2>1, <2>2
      <3>2. m[i] = k[i]
        BY <1>5, <3>1
      <3> QED BY <1>12, <3>1, <3>2
    <2>3. CASE i > n + gap
      <3> DEFINE j == i - gap
      <3>1. j \in DOMAIN m /\ Source(j) = i
        BY <1>1, <1>4, <2>1, <2>3
      <3>2. m[j] = k[i]
        <4> HIDE DEF j, Source
        <4> QED BY <1>5, <3>1
      <3> QED BY <1>12, <3>1, <3>2
    <2>4. CASE n < i /\ i <= n + gap
      <3> DEFINE x == i - Len(d)
                 q == Len(w) - Len(u) + copied + 1
      <3>1. x \in 1 .. Len(u) /\ copied < x /\ x <= read /\ i = Len(d) + x /\ x \in Nat
        BY <1>1, <2>1, <2>4
      <3>2. k[i] = u[x]
        BY <1>1, <3>1
      <3>3. p = Len(w) - Len(u) + x
        <4>1. u[x].at = Len(w) - Len(u) + x
          BY <1>1, <3>1 DEF IsLast
        <4> QED BY <1>12, <3>2, <4>1
      <3>4. q \in DOMAIN w /\ w[q].is = "nul"
        BY <1>1, <1>10, <3>1
      <3>5. q <= p /\ p < q + ReadSize
        BY <1>1, <3>1, <3>3
      <3> HIDE DEF q
      <3> QED BY <3>4, <3>5 DEF CostOfNul
    <2> QED BY <1>1, <2>1, <2>2, <2>3, <2>4
  <1>13. LittleIsLost(m, w)
    <2>1. LittleIsLost(k, w)
      BY DEF Flows, k
    <2> QED BY <1>12, <2>1 DEF LittleIsLost
  <1>14. IsLast(rest, w)
    <2>1. Len(rest) <= Len(w) /\ Len(u) <= Len(w)
      BY <1>1, <1>2 DEF IsLast
    <2>2. ASSUME NEW i \in DOMAIN rest PROVE rest[i].at = Len(w) - Len(rest) + i
      <3>1. i \in 1 .. Len(u) - read /\ read + i \in 1 .. Len(u) /\ rest[i] = u[read + i]
        BY <1>1, <1>2
      <3>2. u[read + i].at = Len(w) - Len(u) + (read + i)
        BY <1>1, <3>1 DEF IsLast
      <3> QED BY <1>1, <1>2, <3>1, <3>2
    <2> QED BY <2>1, <2>2 DEF IsLast
  <1>15. Flows(m, w)
    BY <1>8, <1>9, <1>11, <1>13 DEF Flows
  <1> QED BY <1>14, <1>15 DEF m, rest, front

(* An octet more is written, and waits in the pipe.                        *)
LEMMA OneIsWritten ==
  ASSUME NEW k \in Seq(Octet), NEW u \in Seq(Octet), NEW w \in Seq(Octet),
         NEW octet \in Octet, octet.at = Len(w) + 1,
         Flows(k, w), IsLast(u, w)
  PROVE  Flows(Append(k, octet), Append(w, octet)) /\ IsLast(Append(u, octet), Append(w, octet))
  <1> DEFINE m == Append(k, octet)
             x == Append(w, octet)
             v == Append(u, octet)
  <1>1. /\ Len(m) = Len(k) + 1 /\ Len(k) \in Nat /\ DOMAIN m = 1 .. Len(k) + 1 /\ DOMAIN k = 1 .. Len(k)
        /\ (\A i \in 1 .. Len(k) : m[i] = k[i]) /\ m[Len(k) + 1] = octet
    BY AppendProperties
  <1>2. /\ Len(x) = Len(w) + 1 /\ Len(w) \in Nat /\ DOMAIN x = 1 .. Len(w) + 1 /\ DOMAIN w = 1 .. Len(w)
        /\ (\A i \in 1 .. Len(w) : x[i] = w[i]) /\ x[Len(w) + 1] = octet
    BY AppendProperties
  <1>3. /\ Len(v) = Len(u) + 1 /\ Len(u) \in Nat /\ DOMAIN v = 1 .. Len(u) + 1 /\ DOMAIN u = 1 .. Len(u)
        /\ (\A i \in 1 .. Len(u) : v[i] = u[i]) /\ v[Len(u) + 1] = octet
    BY AppendProperties
  <1>4. \A i \in 1 .. Len(k) : k[i].at \in 1 .. Len(w) /\ w[k[i].at] = k[i]
    BY <1>1, <1>2 DEF Flows, Written
  <1>5. NoNul(x) => m = x
    <2> SUFFICES ASSUME NoNul(x) PROVE m = x
      OBVIOUS
    <2>1. ASSUME NEW p \in 1 .. Len(w) PROVE w[p].is # "nul"
      <3>1. p \in 1 .. Len(w) + 1 /\ x[p] = w[p]
        BY <1>2
      <3> QED BY <1>2, <3>1 DEF NoNul
    <2>2. k = w
      BY <1>2, <2>1 DEF Flows, NoNul
    <2> QED BY <2>2
  <1> HIDE DEF m, x, v
  <1>6. ASSUME NEW i \in DOMAIN m PROVE m[i].at \in DOMAIN x /\ x[m[i].at] = m[i]
    <2>1. CASE i = Len(k) + 1
      BY <1>1, <1>2, <2>1
    <2>2. CASE i # Len(k) + 1
      <3>1. i \in 1 .. Len(k) /\ m[i] = k[i]
        BY <1>1, <2>2
      <3>2. k[i].at \in 1 .. Len(w) /\ w[k[i].at] = k[i]
        BY <1>4, <3>1
      <3> QED BY <1>2, <3>1, <3>2
    <2> QED BY <2>1, <2>2
  <1>7. ASSUME NEW i \in DOMAIN m, NEW j \in DOMAIN m, i < j PROVE m[i].at < m[j].at
    <2>1. i \in 1 .. Len(k) /\ m[i] = k[i] /\ k[i].at \in 1 .. Len(w)
      <3>1. i \in 1 .. Len(k)
        BY <1>1, <1>7
      <3> QED BY <1>1, <1>4, <3>1
    <2>2. CASE j = Len(k) + 1
      <3>1. m[j].at = Len(w) + 1
        BY <1>1, <2>2
      <3> QED BY <1>2, <2>1, <3>1
    <2>3. CASE j # Len(k) + 1
      <3>1. j \in 1 .. Len(k) /\ m[j] = k[j]
        BY <1>1, <2>3
      <3> QED BY <1>1, <1>7, <2>1, <3>1 DEF Flows, InOrder
    <2> QED BY <2>2, <2>3
  <1>8. ASSUME NEW p \in DOMAIN x PROVE (\E i \in DOMAIN m : m[i].at = p) \/ CostOfNul(x, p)
    <2>1. CASE p = Len(w) + 1
      <3>1. Len(k) + 1 \in DOMAIN m /\ m[Len(k) + 1].at = p
        BY <1>1, <2>1
      <3> QED BY <3>1
    <2>2. CASE p # Len(w) + 1
      <3>1. p \in DOMAIN w
        BY <1>2, <2>2
      <3>2. CASE \E i \in DOMAIN k : k[i].at = p
        <4>1. PICK i \in DOMAIN k : k[i].at = p
          BY <3>2
        <4>2. i \in DOMAIN m /\ m[i] = k[i]
          BY <1>1
        <4> QED BY <4>1, <4>2
      <3>3. CASE CostOfNul(w, p)
        <4>1. PICK q \in DOMAIN w : q <= p /\ p < q + ReadSize /\ w[q].is = "nul"
          BY <3>3 DEF CostOfNul
        <4>2. q \in DOMAIN x /\ x[q] = w[q]
          BY <1>2
        <4> QED BY <4>1, <4>2 DEF CostOfNul
      <3> QED BY <3>1, <3>2, <3>3 DEF Flows, LittleIsLost
    <2> QED BY <2>1, <2>2
  <1>9. IsLast(v, x)
    <2>1. Len(u) <= Len(w) /\ \A i \in 1 .. Len(u) : u[i].at = Len(w) - Len(u) + i
      BY <1>3 DEF IsLast
    <2>2. ASSUME NEW i \in DOMAIN v PROVE v[i].at = Len(x) - Len(v) + i
      <3>1. CASE i = Len(u) + 1
        <4>1. v[i].at = Len(w) + 1
          BY <1>3, <3>1
        <4> QED BY <1>2, <1>3, <3>1, <4>1
      <3>2. CASE i # Len(u) + 1
        <4>1. i \in 1 .. Len(u) /\ v[i] = u[i]
          BY <1>3, <3>2
        <4>2. v[i].at = Len(w) - Len(u) + i
          BY <2>1, <4>1
        <4> QED BY <1>2, <1>3, <4>1, <4>2
      <3> QED BY <3>1, <3>2
    <2>3. Len(v) <= Len(x)
      BY <1>2, <1>3, <2>1
    <2> QED BY <2>2, <2>3 DEF IsLast
  <1>10. Flows(m, x)
    BY <1>5, <1>6, <1>7, <1>8 DEF Flows, Written, InOrder, LittleIsLost
  <1> QED BY <1>9, <1>10 DEF m, x, v

(* What is kept stays the same.                                            *)
LEMMA KeptStays ==
  ASSUME LinesInv, Delivered' = Delivered, written' = written, output'.unread = output.unread,
         AllWhole(Texts)', launcher' # "splitting" => ~HasLine'
  PROVE  LinesInv'
  <1>1. Kept' = Kept
    BY DEF Kept
  <1>2. Flows(Kept, written)' /\ IsLast(output.unread, written)'
    BY <1>1 DEF LinesInv, Flows, Written, InOrder, NoNul, LittleIsLost, CostOfNul, IsLast
  <1> QED BY <1>2 DEF LinesInv

(* Nothing of a line moves.                                                *)
LEMMA LinesStay ==
  ASSUME LinesInv, UNCHANGED <<queue, handled, buffer, written>>,
         output'.unread = output.unread,
         launcher = "splitting" => launcher' = "splitting" \/ ~HasLine
  PROVE  LinesInv'
  <1>1. Texts' = Texts
    BY DEF Texts, Text
  <1>2. Delivered' = Delivered /\ (HasLine <=> HasLine')
    BY <1>1 DEF Delivered, HasLine
  <1>3. AllWhole(Texts)'
    BY <1>1 DEF LinesInv, AllWhole, Whole
  <1> QED BY <1>2, <1>3, KeptStays DEF LinesInv

(* A closure that carries no line is queued.                               *)
LEMMA NoLineIsQueued ==
  ASSUME OutputTypes, LinesInv, NEW closure \in Closure, Text(closure) = <<>>,
         Enqueue(closure), UNCHANGED <<handled, buffer, written>>,
         output'.unread = output.unread, launcher # "splitting"
  PROVE  LinesInv'
  <1>1. Texts' = Append(Texts, <<>>) /\ Texts \in Seq(Seq(Octet)) /\ FlattenSeq(Texts) \in Seq(Octet)
    BY TextIsQueued, TextsTypes
  <1>2. FlattenSeq(Texts)' = FlattenSeq(Texts)
    <2>1. <<>> \in Seq(Octet)
      OBVIOUS
    <2>2. FlattenSeq(Append(Texts, <<>>)) = FlattenSeq(Texts) \o <<>>
      BY <1>1, <2>1, FlattenAppend
    <2>3. FlattenSeq(Texts) \o <<>> = FlattenSeq(Texts)
      BY <1>1, ConcatEmptySeq
    <2> QED BY <1>1, <2>2, <2>3
  <1>3. AllWhole(Texts)'
    <2>1. Whole(<<>>) /\ <<>> \in Seq(Octet)
      BY DEF Whole
    <2>2. AllWhole(Append(Texts, <<>>))
      BY <1>1, <2>1, WholeAppend DEF LinesInv
    <2> QED BY <1>1, <2>2 DEF AllWhole, Whole
  <1>4. Delivered' = Delivered /\ (HasLine <=> HasLine')
    BY <1>2 DEF Delivered, HasLine
  <1> QED BY <1>3, <1>4, KeptStays DEF LinesInv

(* A closure that carries no line is run.                                  *)
LEMMA NoLineIsRun ==
  ASSUME OutputTypes, LinesInv, queue # <<>>, queue' = Tail(queue), Text(Head(queue)) = <<>>,
         UNCHANGED <<launcher, handled, buffer, written>>, output'.unread = output.unread
  PROVE  LinesInv'
  <1>1. /\ Waiting' \in Seq(Seq(Octet)) /\ handled \in Seq(Seq(Octet)) /\ <<>> \in Seq(Octet)
        /\ Texts = Append(handled, <<>>) \o Waiting' /\ Append(handled, <<>>) \in Seq(Seq(Octet))
        /\ Texts' = handled \o Waiting'
    BY TextIsFirst, AppendProperties DEF OutputTypes, Texts, Waiting
  <1>2. FlattenSeq(Texts)' = FlattenSeq(Texts)
    <2>1. \A a, b \in Seq(Seq(Octet)) : FlattenSeq(a \o b) = FlattenSeq(a) \o FlattenSeq(b)
      BY FlattenConcat
    <2>2. /\ FlattenSeq(Texts)' = FlattenSeq(handled) \o FlattenSeq(Waiting')
          /\ FlattenSeq(Texts) = FlattenSeq(Append(handled, <<>>)) \o FlattenSeq(Waiting')
      BY <1>1, <2>1
    <2>3. /\ FlattenSeq(Append(handled, <<>>)) = FlattenSeq(handled) \o <<>>
          /\ FlattenSeq(handled) \in Seq(Octet)
      BY <1>1, FlattenAppend
    <2>4. FlattenSeq(handled) \o <<>> = FlattenSeq(handled)
      BY <2>3, ConcatEmptySeq
    <2> QED BY <2>2, <2>3, <2>4
  <1>3. AllWhole(Texts)'
    <2>1. \A a, b \in Seq(Seq(Octet)) : AllWhole(a \o b) <=> AllWhole(a) /\ AllWhole(b)
      BY WholeConcat
    <2>2. AllWhole(Append(handled, <<>>)) /\ AllWhole(Waiting')
      BY <1>1, <2>1 DEF LinesInv
    <2>3. AllWhole(handled)
      BY <1>1, <2>2, WholeAppend
    <2>4. AllWhole(handled \o Waiting')
      BY <1>1, <2>1, <2>2, <2>3
    <2> QED BY <1>1, <2>4 DEF AllWhole, Whole
  <1>4. Delivered' = Delivered /\ (HasLine <=> HasLine')
    BY <1>2 DEF Delivered, HasLine
  <1> QED BY <1>3, <1>4, KeptStays DEF LinesInv

(* A line is handled: it was delivered when it was queued.                 *)
LEMMA LineIsHandled ==
  ASSUME OutputTypes, LinesInv, queue # <<>>, queue' = Tail(queue), Head(queue).kind = "line",
         handled' = Append(handled, Head(queue).line),
         UNCHANGED <<launcher, buffer, written>>, output'.unread = output.unread
  PROVE  LinesInv'
  <1>1. Texts' = Texts
    <2>1. Text(Head(queue)) = Head(queue).line
      BY DEF Text
    <2>2. Texts = Append(handled, Head(queue).line) \o Waiting'
      BY <2>1, TextIsFirst
    <2> QED BY <2>2 DEF Texts, Waiting
  <1>2. Delivered' = Delivered /\ (HasLine <=> HasLine')
    BY <1>1 DEF Delivered, HasLine
  <1>3. AllWhole(Texts)'
    BY <1>1 DEF LinesInv, AllWhole, Whole
  <1> QED BY <1>2, <1>3, KeptStays DEF LinesInv

(* A line is queued: the rest of the buffer stays behind it.               *)
LEMMA LineIsQueued ==
  ASSUME OutputTypes, LinesInv, QueueNextLine
  PROVE  LinesInv'
  <1> DEFINE line == SubSeq(buffer, 1, LineEnd)
             rest == SubSeq(buffer, LineEnd + 1, Len(buffer))
             closure == [kind |-> "line", line |-> line]
  <1>1. /\ HasLine /\ Enqueue(closure) /\ buffer' = rest /\ launcher' = "splitting"
        /\ UNCHANGED <<output, handled, written>>
    BY DEF QueueNextLine, QueueLine, Goto, nodes
  <1>2. line \in Seq(Octet) /\ rest \in Seq(Octet) /\ line \o rest = buffer /\ Whole(line)
    BY <1>1, LineIsSplitOff DEF Whole
  <1>3. closure \in Closure /\ Text(closure) = line
    BY <1>2 DEF Closure, Text
  <1> HIDE DEF line, rest, closure
  <1>4. Texts' = Append(Texts, line) /\ Texts \in Seq(Seq(Octet)) /\ FlattenSeq(Texts) \in Seq(Octet)
    BY <1>1, <1>3, TextIsQueued, TextsTypes
  <1>5. FlattenSeq(Append(Texts, line)) = FlattenSeq(Texts) \o line
    BY <1>2, <1>4, FlattenAppend
  <1>6. Delivered' = Delivered
    <2>1. \A a, b, c \in Seq(Octet) : (a \o b) \o c = a \o (b \o c)
      BY ConcatAssociative
    <2>2. (FlattenSeq(Texts) \o line) \o rest = FlattenSeq(Texts) \o (line \o rest)
      BY <1>2, <1>4, <2>1
    <2> QED BY <1>1, <1>2, <1>4, <1>5, <2>2 DEF Delivered
  <1>7. AllWhole(Texts)'
    <2>1. AllWhole(Append(Texts, line))
      BY <1>2, <1>4, WholeAppend DEF LinesInv
    <2> QED BY <1>4, <2>1 DEF AllWhole, Whole
  <1> QED BY <1>1, <1>6, <1>7, KeptStays DEF LinesInv

(* Output moves from the pipe to the buffer.                               *)
LEMMA OutputIsRead ==
  ASSUME OutputTypes, LinesInv, ReadChunk
  PROVE  LinesInv'
  <1>1. launcher' = "splitting" /\ UNCHANGED <<queue, handled, written>>
    BY ReadIsPossible
  <1>2. PICK read, copied \in Nat : Reads(read, copied)
    BY ReadIsPossible
  <1> DEFINE u == output.unread
             chunk == SubSeq(u, 1, copied)
             rest == SubSeq(u, read + 1, Len(u))
             f == FlattenSeq(Texts)
  <1>3. /\ read \in 1 .. Len(u) /\ read <= ReadSize /\ copied \in 0 .. read /\ Copies(u, read, copied)
        /\ buffer' = buffer \o chunk
        /\ output' = [output EXCEPT !.unread = rest]
    BY <1>2 DEF Reads
  <1>4. output'.unread = rest
    BY <1>3 DEF OutputTypes
  <1>5. Texts' = Texts
    BY <1>1 DEF Texts, Text
  <1>6. AllWhole(Texts)'
    BY <1>5 DEF LinesInv, AllWhole, Whole
  <1>7. /\ u \in Seq(Octet) /\ buffer \in Seq(Octet) /\ written \in Seq(Octet)
        /\ f \in Seq(Octet)
    BY TextsTypes DEF OutputTypes
  <1>8. chunk \in Seq(Octet)
    BY <1>3, <1>7, PartsOfPipe
  <1>9. Delivered \in Seq(Octet) /\ Delivered = f \o buffer
    BY <1>7, ConcatProperties DEF Delivered
  <1>10. Flows(Delivered \o u, written) /\ IsLast(u, written)
    BY DEF LinesInv, Kept
  <1>11. Flows((Delivered \o chunk) \o rest, written) /\ IsLast(rest, written)
    <2> HIDE DEF u
    <2> QED BY <1>3, <1>7, <1>9, <1>10, PartIsLost
  <1>12. Delivered' = Delivered \o chunk
    <2>1. Delivered' = f \o (buffer \o chunk)
      BY <1>3, <1>5 DEF Delivered
    <2> HIDE DEF chunk, f
    <2> QED BY <1>7, <1>8, <1>9, <2>1, ConcatAssociative
  <1>13. Flows(Kept, written)' /\ IsLast(output.unread, written)'
    <2>1. Kept' = (Delivered \o chunk) \o rest
      BY <1>4, <1>12 DEF Kept
    <2> HIDE DEF chunk, rest
    <2> QED BY <1>1, <1>4, <1>11, <2>1 DEF Flows, Written, InOrder, NoNul, LittleIsLost, CostOfNul, IsLast
  <1> QED BY <1>1, <1>6, <1>13 DEF LinesInv

(* Output is written to the pipe.                                          *)
LEMMA OutputIsWritten ==
  ASSUME OutputTypes, LinesInv, NEW n \in Alive, WriteOctet(n)
  PROVE  LinesInv'
  <1>1. PICK octet \in Octet :
           /\ octet.at = Len(written) + 1
           /\ written' = Append(written, octet)
           /\ output' = [output EXCEPT !.unread = Append(output.unread, octet)]
           /\ UNCHANGED <<launcher, buffer, queue, handled>>
    BY OctetIsWritten
  <1>2. output'.unread = Append(output.unread, octet)
    BY <1>1 DEF OutputTypes
  <1>3. Texts' = Texts
    BY <1>1 DEF Texts, Text
  <1>4. AllWhole(Texts)'
    BY <1>3 DEF LinesInv, AllWhole, Whole
  <1>5. Delivered' = Delivered /\ (HasLine <=> HasLine')
    BY <1>1, <1>3 DEF Delivered, HasLine
  <1>6. /\ Delivered \in Seq(Octet) /\ output.unread \in Seq(Octet) /\ <<octet>> \in Seq(Octet)
        /\ written \in Seq(Octet) /\ Kept \in Seq(Octet)
    BY TextsTypes, ConcatProperties DEF Delivered, Kept, OutputTypes
  <1>7. Kept' = Append(Kept, octet)
    <2>1. /\ Append(output.unread, octet) = output.unread \o <<octet>>
          /\ Append(Kept, octet) = Kept \o <<octet>>
      BY <1>6, AppendIsConcat
    <2>2. (Delivered \o output.unread) \o <<octet>> = Delivered \o (output.unread \o <<octet>>)
      <3>1. \A a, b, c \in Seq(Octet) : (a \o b) \o c = a \o (b \o c)
        BY ConcatAssociative
      <3> QED BY <1>6, <3>1
    <2> QED BY <1>2, <1>5, <2>1, <2>2 DEF Kept
  <1>8. Flows(Append(Kept, octet), Append(written, octet)) /\ IsLast(Append(output.unread, octet), Append(written, octet))
    BY <1>1, <1>6, OneIsWritten DEF LinesInv
  <1>9. Flows(Kept, written)' /\ IsLast(output.unread, written)'
    BY <1>1, <1>2, <1>7, <1>8 DEF Flows, Written, InOrder, NoNul, LittleIsLost, CostOfNul, IsLast
  <1> QED BY <1>1, <1>4, <1>5, <1>9 DEF LinesInv

(* Every step keeps the lines.                                             *)
LEMMA StepKeepsLines ==
  ASSUME ControlInv, OutputTypes, OutputInv, LinesInv, [Next]_vars
  PROVE  LinesInv'
  <1>1. CASE Missing
    <2> DEFINE closure == [kind |-> "alert"]
    <2>1. /\ Enqueue(closure) /\ launcher # "splitting"
          /\ UNCHANGED <<handled, buffer, written, output>>
      BY <1>1 DEF Missing, Goto, nodes
    <2>2. closure \in Closure /\ Text(closure) = <<>>
      BY DEF Closure, Text
    <2> HIDE DEF closure
    <2> QED BY <2>1, <2>2, NoLineIsQueued
  <1>2. CASE StopLoop
    <2>1. UNCHANGED <<queue, handled, buffer, written>> /\ output'.unread = output.unread
      BY <1>2 DEF StopLoop, nodes, OutputTypes
    <2>2. launcher = "splitting" => launcher' = "splitting" \/ ~HasLine
      BY <1>2 DEF StopLoop, Goto
    <2> QED BY <2>1, <2>2, LinesStay
  <1>3. CASE MakePipes
    <2>1. /\ launcher = "top" /\ launcher' = "piped" /\ (platform = "mac" \/ ~shutDown)
          /\ output'.unread = <<>> /\ UNCHANGED <<queue, handled, buffer, written>>
      BY <1>3 DEF MakePipes, Goto, nodes, ControlInv, LauncherTypes
    <2>2. output.unread = <<>>
      BY <2>1 DEF OutputInv, Past
    <2> QED BY <2>1, <2>2, LinesStay
  <1>4. CASE Fork
    <2>1. UNCHANGED <<queue, handled, buffer, written>> /\ output'.unread = output.unread
      BY <1>4 DEF Fork, nodes, OutputTypes
    <2>2. launcher = "splitting" => launcher' = "splitting" \/ ~HasLine
      BY <1>4 DEF Fork, Goto
    <2> QED BY <2>1, <2>2, LinesStay
  <1>5. CASE NameProcess
    <2>1. UNCHANGED <<queue, handled, buffer, written>> /\ output'.unread = output.unread
      BY <1>5 DEF NameProcess, nodes, OutputTypes
    <2>2. launcher = "splitting" => launcher' = "splitting" \/ ~HasLine
      BY <1>5 DEF NameProcess, Goto
    <2> QED BY <2>1, <2>2, LinesStay
  <1>6. CASE QueueInit
    <2> DEFINE closure == [kind |-> "init"]
    <2>1. /\ Enqueue(closure) /\ launcher # "splitting"
          /\ UNCHANGED <<handled, buffer, written, output>>
      BY <1>6 DEF QueueInit, Goto, nodes
    <2>2. closure \in Closure /\ Text(closure) = <<>>
      BY DEF Closure, Text
    <2> HIDE DEF closure
    <2> QED BY <2>1, <2>2, NoLineIsQueued
  <1>7. CASE ConnectInput
    <2>1. UNCHANGED <<queue, handled, buffer, written>> /\ output'.unread = output.unread
      BY <1>7 DEF ConnectInput, nodes, OutputTypes
    <2>2. launcher = "splitting" => launcher' = "splitting" \/ ~HasLine
      BY <1>7 DEF ConnectInput, Goto
    <2> QED BY <2>1, <2>2, LinesStay
  <1>8. CASE ConnectOutput
    <2>1. UNCHANGED <<queue, handled, buffer, written>> /\ output'.unread = output.unread
      BY <1>8 DEF ConnectOutput, CloseWritingEnd, nodes, OutputTypes
    <2>2. launcher = "splitting" => launcher' = "splitting" \/ ~HasLine
      BY <1>8 DEF ConnectOutput, CloseWritingEnd, Goto
    <2> QED BY <2>1, <2>2, LinesStay
  <1>9. CASE ReadChunk
    BY <1>9, OutputIsRead
  <1>10. CASE QueueNextLine
    BY <1>10, LineIsQueued
  <1>11. CASE LinesAreQueued
    <2>1. UNCHANGED <<queue, handled, buffer, written>> /\ output'.unread = output.unread
      BY <1>11 DEF LinesAreQueued, nodes, OutputTypes
    <2>2. launcher = "splitting" => launcher' = "splitting" \/ ~HasLine
      BY <1>11 DEF LinesAreQueued, Goto
    <2> QED BY <2>1, <2>2, LinesStay
  <1>12. CASE ReadEnds
    <2>1. UNCHANGED <<queue, handled, buffer, written>> /\ output'.unread = output.unread
      BY <1>12 DEF ReadEnds, nodes, OutputTypes
    <2>2. launcher = "splitting" => launcher' = "splitting" \/ ~HasLine
      BY <1>12 DEF ReadEnds, Goto
    <2> QED BY <2>1, <2>2, LinesStay
  <1>13. CASE Reap
    <2>1. UNCHANGED <<queue, handled, buffer, written>> /\ output'.unread = output.unread
      BY <1>13 DEF Reap, WaitReturns, nodes, OutputTypes
    <2>2. launcher = "splitting" => launcher' = "splitting" \/ ~HasLine
      BY <1>13 DEF Reap, WaitReturns, Goto
    <2> QED BY <2>1, <2>2, LinesStay
  <1>14. CASE CloseFiles
    <2>1. UNCHANGED <<queue, handled, buffer, written>> /\ output'.unread = output.unread
      BY <1>14 DEF CloseFiles, nodes, OutputTypes
    <2>2. launcher = "splitting" => launcher' = "splitting" \/ ~HasLine
      BY <1>14 DEF CloseFiles, Goto
    <2> QED BY <2>1, <2>2, LinesStay
  <1>15. CASE LookBeforeCleaning
    <2>1. UNCHANGED <<queue, handled, buffer, written>> /\ output'.unread = output.unread
      BY <1>15 DEF LookBeforeCleaning, nodes, OutputTypes
    <2>2. launcher = "splitting" => launcher' = "splitting" \/ ~HasLine
      BY <1>15 DEF LookBeforeCleaning, Goto
    <2> QED BY <2>1, <2>2, LinesStay
  <1>16. CASE CleanUp
    <2>1. UNCHANGED <<queue, handled, buffer, written>> /\ output'.unread = output.unread
      BY <1>16 DEF CleanUp, Terminated, nodes, OutputTypes
    <2>2. launcher = "splitting" => launcher' = "splitting" \/ ~HasLine
      BY <1>16 DEF CleanUp, Terminated, Goto
    <2> QED BY <2>1, <2>2, LinesStay
  <1>17. CASE JudgeRestart
    <2>1. UNCHANGED <<queue, handled, buffer, written>> /\ output'.unread = output.unread
      BY <1>17 DEF JudgeRestart, nodes, OutputTypes
    <2>2. launcher = "splitting" => launcher' = "splitting" \/ ~HasLine
      BY <1>17 DEF JudgeRestart, Goto
    <2> QED BY <2>1, <2>2, LinesStay
  <1>18. CASE SleepEnds
    <2>1. UNCHANGED <<queue, handled, buffer, written>> /\ output'.unread = output.unread
      BY <1>18 DEF SleepEnds, nodes, OutputTypes
    <2>2. launcher = "splitting" => launcher' = "splitting" \/ ~HasLine
      BY <1>18 DEF SleepEnds, Goto
    <2> QED BY <2>1, <2>2, LinesStay
  <1>19. CASE JudgeCrash
    <2> DEFINE closure == [kind |-> "alert"]
    <2>1. /\ Enqueue(closure) /\ launcher # "splitting"
          /\ UNCHANGED <<handled, buffer, written, output>>
      BY <1>19 DEF JudgeCrash, Goto, nodes
    <2>2. closure \in Closure /\ Text(closure) = <<>>
      BY DEF Closure, Text
    <2> HIDE DEF closure
    <2> QED BY <2>1, <2>2, NoLineIsQueued
  <1>20. CASE JudgeNormal
    <2>1. UNCHANGED <<queue, handled, buffer, written>> /\ output'.unread = output.unread
      BY <1>20 DEF JudgeNormal, nodes, OutputTypes
    <2>2. launcher = "splitting" => launcher' = "splitting" \/ ~HasLine
      BY <1>20 DEF JudgeNormal, Goto
    <2> QED BY <2>1, <2>2, LinesStay
  <1>21. CASE HandleLine
    <2>1. /\ queue # <<>> /\ queue' = Tail(queue) /\ Head(queue).kind = "line"
          /\ handled' = Append(handled, Head(queue).line)
          /\ UNCHANGED <<launcher, buffer, written, output>>
      BY <1>21 DEF HandleLine, Dequeue, Idle, nodes
    <2> QED BY <2>1, LineIsHandled
  <1>22. CASE SendInit
    <2>1. /\ queue # <<>> /\ queue' = Tail(queue) /\ Head(queue).kind # "line"
          /\ UNCHANGED <<launcher, handled, buffer, written, output>>
      BY <1>22 DEF SendInit, Dequeue, Idle, nodes
    <2>2. Text(Head(queue)) = <<>>
      BY <2>1 DEF Text
    <2> QED BY <2>1, <2>2, NoLineIsRun
  <1>23. CASE ShowAlert
    <2>1. /\ queue # <<>> /\ queue' = Tail(queue) /\ Head(queue).kind # "line"
          /\ UNCHANGED <<launcher, handled, buffer, written, output>>
      BY <1>23 DEF ShowAlert, Dequeue, Idle, nodes
    <2>2. Text(Head(queue)) = <<>>
      BY <2>1 DEF Text
    <2> QED BY <2>1, <2>2, NoLineIsRun
  <1>24. CASE Kill
    <2>1. UNCHANGED <<queue, handled, buffer, written>> /\ output'.unread = output.unread
      BY <1>24 DEF Kill, nodes, OutputTypes
    <2>2. launcher = "splitting" => launcher' = "splitting" \/ ~HasLine
      BY <1>24 DEF Kill, Goto
    <2> QED BY <2>1, <2>2, LinesStay
  <1>25. CASE CloseHandles
    <2>1. UNCHANGED <<queue, handled, buffer, written>> /\ output'.unread = output.unread
      BY <1>25 DEF CloseHandles, nodes, OutputTypes
    <2>2. launcher = "splitting" => launcher' = "splitting" \/ ~HasLine
      BY <1>25 DEF CloseHandles, Goto
    <2> QED BY <2>1, <2>2, LinesStay
  <1>26. CASE TerminateProcess
    <2>1. UNCHANGED <<queue, handled, buffer, written>> /\ output'.unread = output.unread
      BY <1>26 DEF TerminateProcess, Terminated, nodes, OutputTypes
    <2>2. launcher = "splitting" => launcher' = "splitting" \/ ~HasLine
      BY <1>26 DEF TerminateProcess, Terminated, Goto
    <2> QED BY <2>1, <2>2, LinesStay
  <1>27. CASE Shutdown
    <2>1. UNCHANGED <<queue, handled, buffer, written>> /\ output'.unread = output.unread
      BY <1>27 DEF Shutdown, nodes, OutputTypes
    <2>2. launcher = "splitting" => launcher' = "splitting" \/ ~HasLine
      BY <1>27 DEF Shutdown, Goto
    <2> QED BY <2>1, <2>2, LinesStay
  <1>28. ASSUME NEW n \in Alive, WriteOctet(n) PROVE LinesInv'
    BY <1>28, OutputIsWritten
  <1>29. ASSUME NEW n \in Alive, CloseOutput(n) PROVE LinesInv'
    <2>1. UNCHANGED <<launcher, queue, handled, buffer, written, output>>
      BY <1>29 DEF CloseOutput
    <2> QED BY <2>1, LinesStay
  <1>30. ASSUME NEW n \in Alive, NEW code \in {"restart", "failed"}, Exit(n, code) PROVE LinesInv'
    <2>1. UNCHANGED <<launcher, queue, handled, buffer, written, output>>
      BY <1>30 DEF Exit
    <2> QED BY <2>1, LinesStay
  <1>31. CASE UNCHANGED vars
    <2>1. UNCHANGED <<launcher, queue, handled, buffer, written, output>>
      BY <1>31 DEF vars
    <2> QED BY <2>1, LinesStay
  <1> QED
    BY <1>1, <1>2, <1>3, <1>4, <1>5, <1>6, <1>7, <1>8, <1>9, <1>10, <1>11,
         <1>12, <1>13, <1>14, <1>15, <1>16, <1>17, <1>18, <1>19, <1>20,
         <1>21, <1>22, <1>23, <1>24, <1>25, <1>26, <1>27, <1>28, <1>29,
         <1>30, <1>31
    DEF Next, LauncherStep, MainStep, BackendStep

(* The buffer: while a line is begun, it has no newline.                   *)
LEMMA ReadMayOverflow ==
  ASSUME OutputTypes, LinesInv, ReadChunk, app = "running"
  PROVE  BufferSuffices'
  <1>1. /\ launcher = "reading" /\ UNCHANGED <<queue, handled>>
        /\ app' = IF Overflows(buffer') THEN "undefined" ELSE app
    BY ReadIsPossible
  <1>2. PICK read, copied \in Nat : Reads(read, copied)
    BY ReadIsPossible
  <1> DEFINE u == output.unread
             chunk == SubSeq(u, 1, copied)
             rest == SubSeq(u, read + 1, Len(u))
             f == FlattenSeq(Texts)
             first == Len(f) + 1
             room == BufferSize - ReadSize
  <1>3. /\ read \in 1 .. Len(u) /\ read <= ReadSize /\ copied \in 0 .. read
        /\ buffer' = buffer \o chunk
        /\ output' = [output EXCEPT !.unread = rest]
    BY <1>2 DEF Reads
  <1>4. /\ u \in Seq(Octet) /\ buffer \in Seq(Octet) /\ f \in Seq(Octet)
        /\ Len(f) \in Nat /\ Len(buffer) \in Nat
    <2>1. u \in Seq(Octet) /\ buffer \in Seq(Octet)
      BY DEF OutputTypes
    <2>2. f \in Seq(Octet)
      BY TextsTypes
    <2> HIDE DEF u, f
    <2> QED BY <2>1, <2>2
  <1>5. /\ chunk \in Seq(Octet) /\ Len(chunk) = copied
        /\ rest \in Seq(Octet) /\ Len(rest) \in Nat
    <2> HIDE DEF u
    <2> QED BY <1>3, <1>4, PartsOfPipe
  <1>6. /\ buffer' \in Seq(Octet) /\ Len(buffer') = Len(buffer) + copied
        /\ \A i \in 1 .. Len(buffer) : buffer'[i] = buffer[i]
    <2> HIDE DEF chunk
    <2> QED BY <1>3, <1>4, <1>5, ConcatProperties
  <1>7. Kept' = (f \o buffer') \o rest
    <2>1. Texts' = Texts /\ output'.unread = rest
      BY <1>1, <1>3 DEF Texts, Text, OutputTypes
    <2> QED BY <2>1 DEF Kept, Delivered
  <1> HIDE DEF f, rest, chunk, u
  <1>8. /\ Len(f \o buffer') = Len(f) + Len(buffer') /\ f \o buffer' \in Seq(Octet)
        /\ \A i \in 1 .. Len(buffer') : (f \o buffer')[Len(f) + i] = buffer'[i]
    <2> DEFINE more == buffer'
    <2>1. more \in Seq(Octet) /\ f \in Seq(Octet)
      BY <1>4, <1>6
    <2> HIDE DEF more
    <2>2. /\ f \o more \in Seq(Octet) /\ Len(f \o more) = Len(f) + Len(more)
          /\ \A i \in 1 .. Len(more) : (f \o more)[Len(f) + i] = more[i]
      BY <2>1, ConcatProperties
    <2> QED BY <2>2 DEF more
  <1>9. /\ Len(Kept') = Len(f) + Len(buffer') + Len(rest) /\ Kept' \in Seq(Octet)
        /\ \A i \in 1 .. Len(f) + Len(buffer') : Kept'[i] = (f \o buffer')[i]
    <2> DEFINE front == f \o buffer'
    <2>1. front \in Seq(Octet) /\ Len(front) = Len(f) + Len(buffer') /\ Kept' = front \o rest
      BY <1>7, <1>8
    <2> HIDE DEF front
    <2>2. /\ front \o rest \in Seq(Octet) /\ Len(front \o rest) = Len(front) + Len(rest)
          /\ \A i \in 1 .. Len(front) : (front \o rest)[i] = front[i]
      <3>1. front \in Seq(Octet) /\ rest \in Seq(Octet)
        BY <1>5, <2>1
      <3> QED BY <3>1, ConcatProperties
    <2>3. \A i \in 1 .. Len(f) + Len(buffer') : Kept'[i] = front[i]
      BY <2>1, <2>2
    <2>4. Len(Kept') = Len(f) + Len(buffer') + Len(rest) /\ Kept' \in Seq(Octet)
      BY <2>1, <2>2
    <2>5. front = f \o buffer'
      BY DEF front
    <2> QED BY <2>3, <2>4, <2>5
  <1>10. ASSUME NEW i \in 1 .. Len(buffer) PROVE Kept'[Len(f) + i] = buffer[i] /\ ~Ends(buffer[i])
    <2>1. ~HasLine
      BY <1>1 DEF LinesInv
    <2>2. ~Ends(buffer[i])
      BY <1>4, <2>1 DEF HasLine
    <2>3. i \in 1 .. Len(buffer') /\ Len(f) + i \in 1 .. Len(f) + Len(buffer')
      BY <1>3, <1>4, <1>6
    <2>4. Kept'[Len(f) + i] = buffer'[i]
      BY <1>8, <1>9, <2>3
    <2> QED BY <1>6, <2>2, <2>4
  <1>11. ASSUME Overflows(buffer') PROVE LongLine(Kept, room)'
    <2>1. room \in Nat /\ room + 1 <= Len(buffer)
      BY <1>3, <1>4, <1>6, <1>11 DEF Overflows, BoundsAssumption
    <2>2. first \in DOMAIN Kept' /\ first + room <= Len(Kept')
      <3>1. DOMAIN Kept' = 1 .. Len(Kept')
        <4> DEFINE k == Kept'
        <4>1. k \in Seq(Octet)
          BY <1>9
        <4> HIDE DEF k
        <4>2. DOMAIN k = 1 .. Len(k)
          BY <4>1
        <4> QED BY <4>2 DEF k
      <3>2. copied \in Nat /\ Len(Kept') = Len(f) + (Len(buffer) + copied) + Len(rest)
        BY <1>6, <1>9
      <3> QED BY <1>4, <1>5, <2>1, <3>1, <3>2
    <2>3. ASSUME NEW i \in first .. first + room PROVE ~Ends(Kept'[i])
      <3>1. i - Len(f) \in 1 .. Len(buffer) /\ i = Len(f) + (i - Len(f))
        BY <1>4, <2>1
      <3> QED BY <1>10, <3>1
    <2> HIDE DEF first, room
    <2>4. LongLine(Kept', room)
      BY <2>2, <2>3 DEF LongLine
    <2> QED BY <2>4 DEF LongLine, Ends, room
  <1>12. ASSUME ~Overflows(buffer') PROVE Len(buffer') <= BufferSize
    BY <1>3, <1>4, <1>6, <1>12 DEF Overflows
  <1> QED BY <1>1, <1>11, <1>12 DEF BufferSuffices

(* No other step makes the buffer longer, or leads to the undefined.       *)
LEMMA BufferStays ==
  ASSUME BufferSuffices, app = "running", app' # "undefined", buffer' = buffer
  PROVE  BufferSuffices'
  BY DEF BufferSuffices

(* Every step keeps to the buffer, or comes from a long line.              *)
LEMMA StepKeepsBuffer ==
  ASSUME OutputTypes, LinesInv, BufferSuffices, [Next]_vars
  PROVE  BufferSuffices'
  <1>1. CASE ReadChunk /\ Next
    <2>1. app = "running"
      BY <1>1 DEF Next
    <2> QED BY <1>1, <2>1, ReadMayOverflow
  <1>2. CASE QueueNextLine /\ Next
    <2>1. app = "running" /\ app' = app /\ HasLine /\ buffer' = SubSeq(buffer, LineEnd + 1, Len(buffer))
      BY <1>2 DEF Next, QueueNextLine, QueueLine
    <2>2. LineEnd \in 1 .. Len(buffer) /\ Len(buffer) \in Nat /\ buffer \in Seq(Octet)
      BY <2>1, LineEndIsFirst DEF OutputTypes
    <2>3. Len(buffer') <= Len(buffer) /\ Len(buffer') \in Nat
      BY <2>1, <2>2
    <2>4. Len(buffer) <= BufferSize
      BY <2>1 DEF BufferSuffices
    <2> QED BY <2>1, <2>2, <2>3, <2>4 DEF BufferSuffices
  <1>3. CASE UNCHANGED vars
    <2>1. UNCHANGED <<app, buffer, queue, handled, output>>
      BY <1>3 DEF vars
    <2>2. Kept' = Kept
      BY <2>1 DEF Kept, Delivered, Texts, Text
    <2> QED BY <2>1, <2>2 DEF BufferSuffices, LongLine, Ends
  <1>4. ASSUME Next, ~ReadChunk, ~QueueNextLine PROVE app = "running" /\ app' # "undefined" /\ buffer' = buffer
    <2> USE DEF files, nodes
    <2>1. app = "running" /\ (LauncherStep \/ MainStep \/ Shutdown \/ BackendStep)
      BY <1>4 DEF Next
    <2>2. CASE LauncherStep
      BY <1>4, <2>1, <2>2
      DEF LauncherStep, Missing, StopLoop, MakePipes, Fork, NameProcess, QueueInit, ConnectInput,
          ConnectOutput, LinesAreQueued, ReadEnds, Reap, CloseFiles, LookBeforeCleaning, CleanUp,
          JudgeRestart, SleepEnds, JudgeCrash, JudgeNormal
    <2>3. CASE MainStep
      BY <2>1, <2>3 DEF MainStep, HandleLine, SendInit, ShowAlert, Kill, CloseHandles, TerminateProcess
    <2>4. CASE Shutdown
      BY <2>1, <2>4 DEF Shutdown
    <2>5. CASE BackendStep
      BY <2>1, <2>5 DEF BackendStep, WriteOctet, CloseOutput, Exit
    <2> QED BY <2>1, <2>2, <2>3, <2>4, <2>5
  <1> QED BY <1>1, <1>2, <1>3, <1>4, BufferStays

-----------------------------------------------------------------------------
(* The theorems.                                                           *)

(* The inductive invariant, the whole of it.                               *)
BackendIInv == ControlInv /\ OutputTypes /\ AlertIsLast /\ OutputInv /\ LinesInv /\ BufferSuffices

(* It holds when the application starts.                                   *)
LEMMA BackendStarts == Init => BackendIInv
  <1> SUFFICES ASSUME Init PROVE BackendIInv
    OBVIOUS
  <1>1. /\ platform \in {"mac", "win"} /\ app = "running" /\ launcher = "top"
        /\ shutDown = FALSE /\ developer = FALSE /\ pid = 0 /\ stdin = 0
        /\ closing = "not called" /\ killed = {}
    BY DEF Init
  <1>2. backend = <<>> /\ status = <<>> /\ queue = <<>> /\ handled = <<>> /\ buffer = <<>> /\ written = <<>>
    BY DEF Init
  <1>3. output = [open |-> FALSE, held |-> FALSE, unread |-> <<>>]
    BY DEF Init
  <1>4. output.unread = <<>>
    BY <1>3
  <1>5. /\ backend \in Seq({"running", "silent", "dead"}) /\ status \in Seq({"none", "restart", "failed"})
        /\ Len(backend) = 0 /\ DOMAIN backend = {} /\ DOMAIN status = {}
    BY <1>2
  <1>6. ControlInv
    <2>1. Launched = 0 /\ Alive = {}
      BY <1>5 DEF Launched, Alive
    <2>2. LauncherTypes
      <3>1. Launched <= MaxLaunches /\ killed \subseteq DOMAIN backend
        <4>1. MaxLaunches \in Nat
          BY DEF BoundsAssumption
        <4>2. Launched <= MaxLaunches
          BY <2>1, <4>1
        <4>3. killed = {}
          BY <1>1
        <4> QED BY <4>2, <4>3
      <3>2. launcher \in Steps /\ launcher # "piped"
        BY <1>1 DEF Steps
      <3> QED BY <1>1, <1>5, <3>1, <3>2 DEF LauncherTypes
    <2>3. FileTypes
      <3>1. 0 \in 0 .. Launched /\ 0 \in 0 .. Launched + 1
        BY <2>1
      <3> QED BY <1>1, <3>1 DEF FileTypes
    <2>4. PlaceInv
      BY <1>1, <2>1 DEF PlaceInv
    <2>5. AliveInv
      BY <1>1, <2>1 DEF AliveInv
    <2> QED BY <2>2, <2>3, <2>4, <2>5 DEF ControlInv
  <1>7. OutputTypes
    BY <1>2, <1>3 DEF OutputTypes
  <1>8. DOMAIN queue = {}
    BY <1>2
  <1>9. AlertIsLast
    BY <1>8 DEF AlertIsLast
  <1>10. OutputInv
    BY <1>1, <1>4, <1>5 DEF OutputInv, Open, Past, Alive
  <1>11. LinesInv
    <2>1. Waiting = <<>>
      BY <1>2, <1>7, TextsTypes, EmptySeq
    <2>2. <<>> \in Seq(Seq(Octet)) /\ <<>> \in Seq(Octet)
      OBVIOUS
    <2>3. <<>> \o <<>> = <<>>
      BY <2>2, ConcatEmptySeq
    <2>4. Texts = <<>>
      BY <1>2, <1>7, <2>1, <2>3, TextsTypes
    <2>5. Delivered = <<>>
      BY <1>2, <2>3, <2>4, FlattenEmpty DEF Delivered
    <2>6. DOMAIN Texts = {} /\ DOMAIN buffer = {}
      BY <1>2, <2>4
    <2>7. AllWhole(Texts) /\ ~HasLine
      BY <2>6 DEF AllWhole, HasLine
    <2>8. Kept = <<>>
      BY <1>4, <2>3, <2>5 DEF Kept
    <2>9. DOMAIN Kept = {} /\ DOMAIN written = {} /\ DOMAIN output.unread = {} /\ Len(output.unread) <= Len(written)
      BY <1>2, <1>4, <2>8
    <2>10. Flows(Kept, written) /\ IsLast(output.unread, written)
      BY <1>2, <2>8, <2>9 DEF Flows, Written, InOrder, LittleIsLost, IsLast
    <2> QED BY <2>7, <2>10 DEF LinesInv
  <1>12. BufferSuffices
    <2>1. Len(buffer) = 0
      BY <1>2
    <2>2. Len(buffer) <= BufferSize
      BY <2>1 DEF BoundsAssumption
    <2> QED BY <1>1, <2>2 DEF BufferSuffices
  <1> QED BY <1>6, <1>7, <1>9, <1>10, <1>11, <1>12 DEF BackendIInv

(* It is inductive.                                                        *)
LEMMA BackendHolds == Spec => []BackendIInv
  <1>1. BackendIInv /\ [Next]_vars => BackendIInv'
    BY StepKeepsControl, StepKeepsOutputTypes, StepKeepsAlert, StepKeepsOutput, StepKeepsLines,
       StepKeepsBuffer
       DEF BackendIInv
  <1> QED BY <1>1, BackendStarts, PTL DEF Spec

(* Whatever the two threads and the back ends do: one back end runs at a   *)
(* time, and nothing of a back end is queued behind the alert that ends    *)
(* the application.                                                        *)
THEOREM BackendInvariant == Spec => []BackendInv
  <1>1. ASSUME BackendIInv PROVE BackendInv
    <2>1. TypeOK
      <3>1. Range(backend) \subseteq {"running", "silent", "dead"}
        BY <1>1 DEF BackendIInv, ControlInv, LauncherTypes, Range
      <3>2. \A n \in DOMAIN backend : (backend[n] = "dead") = (status[n] # "none")
        BY <1>1 DEF BackendIInv, ControlInv, LauncherTypes
      <3> QED
        BY <1>1, <3>1, <3>2
        DEF BackendIInv, ControlInv, LauncherTypes, FileTypes, OutputTypes, TypeOK, Launched
    <2>2. OneBackendAtATime
      BY <1>1 DEF BackendIInv, ControlInv, AliveInv, OneBackendAtATime
    <2>3. AlertIsLast
      BY <1>1 DEF BackendIInv
    <2> QED BY <2>1, <2>2, <2>3 DEF BackendInv
  <1> QED BY <1>1, BackendHolds, PTL

(* However the reads cut the output, the main thread gets it line by line, *)
(* once, in order and whole.  A NUL costs no more than the read it is in,  *)
(* and the end of the buffer is passed only if some line is longer than    *)
(* the buffer less a read.                                                 *)
THEOREM LinesAlwaysFramed == Spec => []LinesAreFramed
  <1>1. ASSUME BackendIInv PROVE LinesAreFramed
    <2>1. LinesInv /\ BufferSuffices
      BY <1>1 DEF BackendIInv
    <2>2. KeptInOrder
      BY <2>1 DEF LinesInv, Flows, Written, InOrder, NoNul, KeptInOrder
    <2>3. LossIsBounded
      BY <2>1 DEF LinesInv, Flows, LittleIsLost, CostOfNul, LossIsBounded
    <2>4. LinesAreWhole
      BY <2>1 DEF LinesInv, AllWhole, Whole, LinesAreWhole
    <2> QED BY <2>1, <2>2, <2>3, <2>4 DEF LinesAreFramed
  <1> QED BY <1>1, BackendHolds, PTL
=============================================================================
