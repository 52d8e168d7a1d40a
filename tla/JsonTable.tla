------------------------------- MODULE JsonTable -------------------------------
(***************************************************************************)
(* The hash table behind a JSON object (hashtable.c of the bundled jansson *)
(* library).  All pairs are on one list, and those of a bucket are         *)
(* together on it: the bucket holds its first and its last.  The list is   *)
(* what iteration, and so the dump of an object, follows.  A pair is known *)
(* by its key, which no other pair has.                                    *)
(***************************************************************************)
EXTENDS Integers, Sequences, SequencesExt

CONSTANT HashOf(_)         \* jsonp_hash_str

Primes == <<5, 13, 23, 53, 97, 193, 389, 769, 1543, 3079, 6151, 12289, 24593,
            49157, 98317, 196613, 393241, 786433, 1572869, 3145739, 6291469,
            12582917, 25165843, 50331653, 100663319, 201326611, 402653189,
            805306457, 1610612741>>

TablePair(key, serial, value) == [key |-> key, serial |-> serial, value |-> value]

NoBucket == [used |-> FALSE]
Bucket(first, last) == [used |-> TRUE, first |-> first, last |-> last]

TableOf(order) ==
    [order |-> order, pairs |-> <<>>, buckets |-> [i \in 0..(Primes[order] - 1) |-> NoBucket]]
NewTable == TableOf(1)

BucketOf(table, key) == HashOf(key) % Primes[table.order]

Place(table, key) == SelectInSeq(table.pairs, LAMBDA pair : pair.key = key)

\* hashtable_find_pair walks from the bucket's first pair to its last; 0 when
\* the key is not there.
FindPair(table, key) ==
    LET bucket == table.buckets[BucketOf(table, key)]
        segment == IF bucket.used
                   THEN Place(table, bucket.first)..Place(table, bucket.last)
                   ELSE {}
        found == {i \in segment : table.pairs[i].key = key}
    IN IF found = {} THEN 0 ELSE CHOOSE i \in found : TRUE

\* A pair goes to the front of its bucket, or to the end of the list when the
\* bucket is empty.
InsertToBucket(table, pair) ==
    LET index == BucketOf(table, pair.key)
        bucket == table.buckets[index]
    IN IF bucket.used
       THEN [table EXCEPT !.pairs = InsertAt(table.pairs, Place(table, bucket.first), pair),
                          !.buckets[index].first = pair.key]
       ELSE [table EXCEPT !.pairs = Append(table.pairs, pair),
                          !.buckets[index] = Bucket(pair.key, pair.key)]

\* hashtable_do_rehash: the pairs move, in the order of the list, to the
\* buckets of the next prime.
Rehash(table) ==
    LET moved[n \in 0..Len(table.pairs)] ==
            IF n = 0 THEN TableOf(table.order + 1)
            ELSE InsertToBucket(moved[n - 1], table.pairs[n])
    IN moved[Len(table.pairs)]

Roomy(table) == IF Len(table.pairs) >= Primes[table.order] THEN Rehash(table) ELSE table

\* hashtable_set: the pair of a key that is there keeps its place, its key and
\* so its serial number.
TableSet(table, pair) ==
    LET roomy == Roomy(table)
        i == FindPair(roomy, pair.key)
    IN IF i # 0 THEN [roomy EXCEPT !.pairs[i].value = pair.value]
       ELSE InsertToBucket(roomy, pair)

KeptBucket(table, bucket, i) ==
    IF bucket.first = bucket.last THEN NoBucket ELSE bucket

\* A bucket whose first or last pair goes shrinks to its neighbour on the list.
ShrunkBucket(table, bucket, i) ==
    LET key == table.pairs[i].key
    IN CASE bucket.first = key /\ bucket.last = key -> NoBucket
         [] bucket.first = key /\ bucket.last # key ->
              Bucket(table.pairs[i + 1].key, bucket.last)
         [] bucket.first # key /\ bucket.last = key ->
              Bucket(bucket.first, table.pairs[i - 1].key)
         [] OTHER -> bucket

TableDel(table, key) ==
    LET i == FindPair(table, key)
        index == BucketOf(table, key)
    IN IF i = 0 THEN table
       ELSE [table EXCEPT !.pairs = RemoveAt(table.pairs, i),
                          !.buckets[index] = ShrunkBucket(table, table.buckets[index], i)]

\* hashtable_clear keeps the number of buckets.
TableClear(table) == TableOf(table.order)

-------------------------------------------------------------------------------
\* A bucket holds the first and the last of the pairs whose hash leads to it,
\* and these follow each other on the list; no key is there twice.
SoundTable(table) ==
    /\ IsInjective([i \in DOMAIN table.pairs |-> table.pairs[i].key])
    /\ \A index \in DOMAIN table.buckets :
           LET bucket == table.buckets[index]
               inside == {i \in DOMAIN table.pairs : BucketOf(table, table.pairs[i].key) = index}
           IN IF inside = {} THEN ~bucket.used
              ELSE /\ bucket.used
                   /\ inside = Place(table, bucket.first)..Place(table, bucket.last)
===============================================================================
