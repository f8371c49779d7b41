----------------------- MODULE VaultResolutionProofs -----------------------
(* Proofs about VaultResolution, for every value of its constants.         *)
EXTENDS VaultResolution, FiniteSetTheorems, FunctionTheorems, SequenceTheorems, TLAPS

-----------------------------------------------------------------------------
(* Taking elements out of a sequence.                                      *)

\* The places in I, the first to the last of them numbered from 1.
LEMMA Ranks ==
    ASSUME NEW n \in Nat, NEW I \in SUBSET (1..n)
    PROVE  /\ Cardinality(I) \in Nat /\ Cardinality(I) <= n
           /\ [i \in I |-> Cardinality({k \in I : k <= i})] \in Bijection(I, 1..Cardinality(I))
    <1> DEFINE Upto(i) == {k \in I : k <= i}
               rank == [i \in I |-> Cardinality({k \in I : k <= i})]
               size == Cardinality(I)
    <1>1. IsFiniteSet(1..n) /\ Cardinality(1..n) = n
        BY FS_Interval
    <1>2. IsFiniteSet(I) /\ size \in Nat /\ size <= n
        BY <1>1, FS_Subset, FS_CardinalityType
    <1>3. \A i \in I : i \in Int
        OBVIOUS
    <1>4. ASSUME NEW i \in I
          PROVE  /\ IsFiniteSet(Upto(i)) /\ Cardinality(Upto(i)) \in 1..size
                 /\ \A j \in I : i < j => Cardinality(Upto(i)) < Cardinality(Upto(j))
        <2>1. \A j \in I : IsFiniteSet(Upto(j)) /\ Cardinality(Upto(j)) \in Nat /\ Cardinality(Upto(j)) <= size
            BY <1>2, FS_Subset, FS_CardinalityType
        <2>2. Cardinality(Upto(i)) # 0
            <3>1. i \in Upto(i)
                BY <1>3
            <3>2. QED
                BY <2>1, <3>1, FS_EmptySet
        <2>3. ASSUME NEW j \in I, i < j PROVE Cardinality(Upto(i)) < Cardinality(Upto(j))
            <3>1. j \notin Upto(i) /\ Upto(i) \cup {j} \subseteq Upto(j)
                <4>1. \A k \in I : k <= i => k <= j /\ k # j
                    BY <1>3, <2>3
                <4>2. j <= j
                    BY <1>3
                <4>3. QED
                    BY <4>1, <4>2
            <3>2. Cardinality(Upto(i) \cup {j}) = Cardinality(Upto(i)) + 1
                BY <2>1, <3>1, FS_AddElement
            <3>3. Cardinality(Upto(i) \cup {j}) <= Cardinality(Upto(j))
                BY <2>1, <3>1, FS_Subset
            <3>4. QED
                BY <2>1, <3>2, <3>3
        <2>4. QED
            BY <1>2, <2>1, <2>2, <2>3
    <1>5. rank \in [I -> 1..size]
        BY <1>4
    <1>6. ASSUME NEW i \in I, NEW j \in I, rank[i] = rank[j] PROVE i = j
        <2>1. Cardinality(Upto(i)) = Cardinality(Upto(j))
            BY <1>6
        <2>2. Cardinality(Upto(i)) \in Int
            BY <1>4
        <2>3. ~(i < j) /\ ~(j < i)
            BY <1>4, <2>1, <2>2
        <2>4. QED
            BY <1>3, <2>3
    <1> HIDE DEF rank
    <1>7. rank \in Injection(I, 1..size)
        BY <1>5, <1>6, Fun_IsInj
    <1>8. IsFiniteSet(1..size) /\ Cardinality(1..size) = size
        BY <1>2, FS_Interval
    <1>9. rank \in Surjection(I, 1..size)
        BY <1>7, <1>8, FS_Injection
    <1>10. rank \in Bijection(I, 1..size)
        BY <1>7, <1>9 DEF Bijection
    <1>11. QED
        BY <1>2, <1>10 DEF rank

\* What Only leaves has the elements at the places in I, each once.
LEMMA OnlyProperties ==
    ASSUME NEW S, NEW seq \in Seq(S), NEW I \in SUBSET DOMAIN seq
    PROVE  /\ Only(seq, I) \in Seq(S)
           /\ Len(Only(seq, I)) = Cardinality(I) /\ Cardinality(I) \in Nat
           /\ Cardinality(I) <= Len(seq)
           /\ \E place \in [DOMAIN Only(seq, I) -> I] :
                  /\ \A j \in DOMAIN Only(seq, I) : Only(seq, I)[j] = seq[place[j]]
                  /\ \A j, k \in DOMAIN Only(seq, I) : place[j] = place[k] => j = k
                  /\ \A i \in I : \E j \in DOMAIN Only(seq, I) : place[j] = i
    <1> DEFINE rank == [i \in I |-> Cardinality({k \in I : k <= i})]
               size == Cardinality(I)
               place == [j \in 1..size |-> CHOOSE i \in I : Cardinality({k \in I : k <= i}) = j]
               out == [j \in 1..size |-> seq[place[j]]]
    <1>1. DOMAIN seq = 1..Len(seq) /\ Len(seq) \in Nat /\ \A i \in DOMAIN seq : seq[i] \in S
        BY LenProperties, ElementOfSeq
    <1>2. size \in Nat /\ size <= Len(seq) /\ rank \in Bijection(I, 1..size)
        BY <1>1, Ranks
    <1>2a. Cardinality(I) = size
        OBVIOUS
    <1> HIDE DEF size
    <1>3. /\ \A i, j \in I : rank[i] = rank[j] => i = j
          /\ \A j \in 1..size : \E i \in I : rank[i] = j
          /\ rank \in [I -> 1..size]
        <2> HIDE DEF rank
        <2>1. rank \in [I -> 1..size] /\ \A i, j \in I : rank[i] = rank[j] => i = j
            BY <1>2, Fun_BijectionProperties
        <2>2. rank \in Surjection(I, 1..size)
            BY <1>2, Fun_BijectionProperties
        <2>3. \A j \in 1..size : \E i \in I : rank[i] = j
            BY <2>2, Fun_SurjectionProperties
        <2>4. QED
            BY <2>1, <2>3
    <1>4. \A j \in 1..size : place[j] \in I /\ rank[place[j]] = j
        BY <1>3
    <1>5. \A i \in I : rank[i] \in 1..size /\ place[rank[i]] = i
        <2>1. \A i \in I : rank[i] \in 1..size
            BY <1>3
        <2> HIDE DEF rank, place
        <2>2. QED
            BY <1>3, <1>4, <2>1
    <1>6. Only(seq, I) = out
        BY DEF Only, size
    <1>7. out \in [1..size -> S]
        BY <1>1, <1>4
    <1>8. out \in Seq(S) /\ Len(out) = size /\ DOMAIN out = 1..size
        <2> HIDE DEF out
        <2>1. out \in Seq(S)
            BY <1>2, <1>7
        <2>2. DOMAIN out = 1..size
            BY <1>7
        <2>3. QED
            BY <1>2, <2>1, <2>2, LenProperties
    <1>9. place \in [1..size -> I]
        BY <1>4
    <1>10. /\ \A j \in 1..size : out[j] = seq[place[j]]
           /\ \A j, k \in 1..size : place[j] = place[k] => j = k
           /\ \A i \in I : \E j \in 1..size : place[j] = i
        <2>1. \A j \in 1..size : out[j] = seq[place[j]]
            OBVIOUS
        <2> HIDE DEF rank, place, out
        <2>2. QED
            BY <1>4, <1>5, <2>1
    <1> HIDE DEF place, out, rank
    <1>11. \E p \in [DOMAIN out -> I] :
               /\ \A j \in DOMAIN out : out[j] = seq[p[j]]
               /\ \A j, k \in DOMAIN out : p[j] = p[k] => j = k
               /\ \A i \in I : \E j \in DOMAIN out : p[j] = i
        <2>1. place \in [DOMAIN out -> I]
            BY <1>8, <1>9
        <2> WITNESS place \in [DOMAIN out -> I]
        <2>2. QED
            BY <1>8, <1>10
    <1>12. QED
        <2> HIDE DEF size
        <2>1. Only(seq, I) \in Seq(S) /\ Len(Only(seq, I)) = Cardinality(I)
            BY <1>2a, <1>6, <1>8
        <2>2. Cardinality(I) \in Nat /\ Cardinality(I) <= Len(seq)
            BY <1>2, <1>2a
        <2>3. QED
            BY SMTT(30), <1>6, <1>11, <2>1, <2>2

-----------------------------------------------------------------------------
(* The caches.                                                             *)

Elements(seq) == {seq[i] : i \in DOMAIN seq}
Unique(cache) == \A i, j \in DOMAIN cache : cache[i].key = cache[j].key => i = j
Cache(cache, E) == cache \in Seq(E) /\ Len(cache) <= CacheMax /\ Unique(cache)

\* Taking entries out of a cache leaves a cache with the others.
LEMMA OnlyOfCache ==
    ASSUME NEW E, NEW cache, Cache(cache, E), NEW I \in SUBSET DOMAIN cache
    PROVE  /\ Cache(Only(cache, I), E)
           /\ Elements(Only(cache, I)) = {cache[i] : i \in I}
           /\ Len(Only(cache, I)) <= Len(cache)
           /\ I # DOMAIN cache => Len(Only(cache, I)) < Len(cache)
    <1> DEFINE out == Only(cache, I)
    <1>1. cache \in Seq(E) /\ Len(cache) <= CacheMax /\ Unique(cache) /\ CacheMax \in Nat
        BY VaultAssumption DEF Cache, VaultAssumption
    <1>2. /\ out \in Seq(E)
          /\ Len(out) = Cardinality(I) /\ Cardinality(I) \in Nat
          /\ Cardinality(I) <= Len(cache)
          /\ \E place \in [DOMAIN out -> I] :
                  /\ \A j \in DOMAIN out : out[j] = cache[place[j]]
                  /\ \A j, k \in DOMAIN out : place[j] = place[k] => j = k
                  /\ \A i \in I : \E j \in DOMAIN out : place[j] = i
        BY <1>1, OnlyProperties
    <1> HIDE DEF out
    <1>3. PICK place \in [DOMAIN out -> I] :
                  /\ \A j \in DOMAIN out : out[j] = cache[place[j]]
                  /\ \A j, k \in DOMAIN out : place[j] = place[k] => j = k
                  /\ \A i \in I : \E j \in DOMAIN out : place[j] = i
        BY <1>2
    <1>4. Unique(out)
        BY <1>1, <1>3 DEF Unique
    <1>5. Elements(out) = {cache[i] : i \in I}
        BY <1>3 DEF Elements
    <1>6. Len(cache) \in Nat /\ DOMAIN cache = 1..Len(cache)
        BY <1>1, LenProperties
    <1>7. I # DOMAIN cache => Cardinality(I) < Len(cache)
        <2>1. IsFiniteSet(DOMAIN cache) /\ Cardinality(DOMAIN cache) = Len(cache)
            <3> DEFINE n == Len(cache)
            <3>1. n \in Nat /\ DOMAIN cache = 1..n
                BY <1>6
            <3> HIDE DEF n
            <3>2. IsFiniteSet(1..n) /\ Cardinality(1..n) = n
                BY <3>1, FS_Interval
            <3>3. QED
                BY <3>1, <3>2 DEF n
        <2>2. I # DOMAIN cache => Cardinality(I) # Cardinality(DOMAIN cache)
            BY <2>1, FS_Subset
        <2>3. QED
            BY <1>2, <1>6, <2>1, <2>2
    <1>8. QED
        BY <1>1, <1>2, <1>4, <1>5, <1>6, <1>7 DEF Cache, out

\* Without forgets the entry of a key and no other.
LEMMA WithoutKey ==
    ASSUME NEW E, NEW cache, Cache(cache, E), NEW t
    PROVE  /\ Cache(Without(cache, t), E)
           /\ Elements(Without(cache, t)) = {e \in Elements(cache) : e.key # t}
           /\ Len(Without(cache, t)) <= Len(cache)
           /\ Entries(cache, t) # {} => Len(Without(cache, t)) < Len(cache)
    <1> DEFINE I == {i \in DOMAIN cache : cache[i].key # t}
    <1>1. I \in SUBSET DOMAIN cache
        OBVIOUS
    <1>2. /\ Cache(Only(cache, I), E)
          /\ Elements(Only(cache, I)) = {cache[i] : i \in I}
          /\ Len(Only(cache, I)) <= Len(cache)
          /\ I # DOMAIN cache => Len(Only(cache, I)) < Len(cache)
        BY <1>1, OnlyOfCache
    <1>3. Entries(cache, t) # {} => I # DOMAIN cache
        BY DEF Entries
    <1>4. {cache[i] : i \in I} = {e \in Elements(cache) : e.key # t}
        BY DEF Elements
    <1>5. QED
        BY <1>2, <1>3, <1>4 DEF Without

\* A new entry at the end of a cache that has none of its key.
LEMMA AppendEntry ==
    ASSUME NEW E, NEW cache \in Seq(E), Unique(cache), NEW e \in E,
           \A x \in Elements(cache) : x.key # e.key
    PROVE  /\ Append(cache, e) \in Seq(E) /\ Unique(Append(cache, e))
           /\ Len(Append(cache, e)) = Len(cache) + 1
           /\ Elements(Append(cache, e)) = Elements(cache) \cup {e}
    <1>1. Len(cache) \in Nat /\ DOMAIN cache = 1..Len(cache)
        BY LenProperties
    <1> DEFINE out == Append(cache, e)
    <1>2. /\ out \in Seq(E) /\ Len(out) = Len(cache) + 1
          /\ \A i \in 1..Len(cache) : out[i] = cache[i]
          /\ out[Len(cache) + 1] = e
        BY AppendProperties
    <1> HIDE DEF out
    <1>3. DOMAIN out = 1..(Len(cache) + 1)
        BY <1>2, LenProperties
    <1>4. \A i \in DOMAIN out : i \in DOMAIN cache \/ i = Len(cache) + 1
        BY <1>1, <1>3
    <1>5. \A i \in DOMAIN cache : i \in DOMAIN out
        BY <1>1, <1>3
    <1>6. Len(cache) + 1 \in DOMAIN out
        BY <1>1, <1>3
    <1>7. Unique(out)
        BY <1>1, <1>2, <1>4 DEF Unique, Elements
    <1>8. Elements(out) = Elements(cache) \cup {e}
        BY <1>1, <1>2, <1>4, <1>5, <1>6 DEF Elements
    <1>9. QED
        BY <1>2, <1>7, <1>8 DEF out

\* Trimming drops the oldest entries, as many as there are too many.
LEMMA Trimmed ==
    ASSUME NEW E, NEW cache \in Seq(E), Unique(cache)
    PROVE  /\ Cache(Trim(cache), E)
           /\ Elements(Trim(cache)) \subseteq Elements(cache)
    <1> DEFINE size == Len(cache)
               first == IF Len(cache) <= CacheMax THEN 1 ELSE Len(cache) - CacheMax + 1
               out == SubSeq(cache, first, size)
    <1>1. size \in Nat /\ DOMAIN cache = 1..size /\ CacheMax \in Nat
        BY LenProperties, VaultAssumption DEF VaultAssumption
    <1>2. /\ first \in 1..(size + 1)
          /\ first \in Int /\ first >= 1 /\ first <= size + 1
          /\ size + 1 - first <= CacheMax
        BY <1>1
    <1>3. \A i \in DOMAIN cache : cache[i] \in E
        BY ElementOfSeq
    <1> HIDE DEF size, first
    <1>4. \A i \in first..size : i \in 1..size /\ cache[i] \in E
        BY <1>1, <1>2, <1>3
    <1>5. /\ out \in Seq(E)
          /\ Len(out) = IF first <= size THEN size - first + 1 ELSE 0
          /\ \A i \in 1..(size - first + 1) : out[i] = cache[first + i - 1]
        BY <1>1, <1>2, <1>4, SubSeqProperties
    <1>6. Len(out) <= CacheMax
        BY <1>1, <1>2, <1>5
    <1> HIDE DEF out
    <1>7. DOMAIN out = 1..(size - first + 1)
        <2>1. DOMAIN out = 1..Len(out)
            BY <1>5, LenProperties
        <2>2. CASE first <= size
            BY <1>5, <2>1, <2>2
        <2>3. CASE ~(first <= size)
            <3>1. first = size + 1
                BY <1>1, <1>2, <2>3
            <3>2. Len(out) = 0 /\ size - first + 1 = 0
                BY <1>1, <1>5, <2>3, <3>1
            <3>3. QED
                BY <2>1, <3>2
        <2>4. QED
            BY <2>2, <2>3
    <1>8. \A i \in DOMAIN out : i \in Int /\ first + i - 1 \in DOMAIN cache /\ out[i] = cache[first + i - 1]
        BY <1>1, <1>2, <1>5, <1>7
    <1>9. Unique(out)
        <2>1. ASSUME NEW i \in DOMAIN out, NEW j \in DOMAIN out, out[i].key = out[j].key PROVE i = j
            <3>1. first + i - 1 = first + j - 1
                BY <1>8, <2>1 DEF Unique
            <3>2. QED
                BY <1>2, <1>8, <3>1
        <2>2. QED
            BY <2>1 DEF Unique
    <1>10. Elements(out) \subseteq Elements(cache)
        BY <1>8 DEF Elements
    <1>11. Trim(cache) = out
        BY DEF Trim, out, first, size
    <1>12. QED
        BY <1>5, <1>6, <1>9, <1>10, <1>11 DEF Cache

\* Storing an entry replaces that of its key.
LEMMA Stored ==
    ASSUME NEW E, NEW cache, Cache(cache, E), NEW e \in E
    PROVE  /\ Cache(Store(cache, e), E)
           /\ \A x \in Elements(Store(cache, e)) : x = e \/ (x \in Elements(cache) /\ x.key # e.key)
    <1> DEFINE rest == Without(cache, e.key)
    <1>1. Cache(rest, E) /\ Elements(rest) = {x \in Elements(cache) : x.key # e.key}
        BY WithoutKey
    <1> HIDE DEF rest
    <1>2. rest \in Seq(E) /\ Unique(rest)
        BY <1>1 DEF Cache
    <1>3. /\ Append(rest, e) \in Seq(E) /\ Unique(Append(rest, e))
          /\ Elements(Append(rest, e)) = Elements(rest) \cup {e}
        BY <1>1, <1>2, AppendEntry
    <1>4. Cache(Trim(Append(rest, e)), E) /\ Elements(Trim(Append(rest, e))) \subseteq Elements(rest) \cup {e}
        BY <1>3, Trimmed
    <1>5. Store(cache, e) = Trim(Append(rest, e))
        BY DEF Store, rest
    <1>6. QED
        BY <1>1, <1>4, <1>5

\* Using an entry moves it to the end or, when it has expired, takes it out.
LEMMA Touched ==
    ASSUME NEW E, NEW cache, Cache(cache, E), NEW t
    PROVE  /\ Cache(Touch(cache, t), E)
           /\ Elements(Touch(cache, t)) \subseteq Elements(cache)
    <1> DEFINE rest == Without(cache, t)
               e == CHOOSE x \in Entries(cache, t) : TRUE
    <1>1. /\ Cache(rest, E) /\ Elements(rest) = {x \in Elements(cache) : x.key # t}
          /\ Entries(cache, t) # {} => Len(rest) < Len(cache)
        BY WithoutKey
    <1>2. CASE Hit(cache, t)
        <2>1. Entries(cache, t) # {}
            BY <1>2 DEF Hit
        <2>2. e \in Entries(cache, t)
            BY <2>1
        <2> HIDE DEF e, rest
        <2>3. e \in Elements(cache) /\ e.key = t
            BY <2>2 DEF Entries, Elements
        <2>4. cache \in Seq(E) /\ Len(cache) <= CacheMax /\ rest \in Seq(E) /\ Unique(rest)
            BY <1>1 DEF Cache
        <2>5. e \in E
            BY <2>3, <2>4, ElementOfSeq DEF Elements
        <2>6. /\ Append(rest, e) \in Seq(E) /\ Unique(Append(rest, e))
              /\ Len(Append(rest, e)) = Len(rest) + 1
              /\ Elements(Append(rest, e)) = Elements(rest) \cup {e}
            BY <1>1, <2>3, <2>4, <2>5, AppendEntry
        <2>7. Len(rest) \in Nat /\ Len(cache) \in Nat /\ CacheMax \in Nat
            BY <2>4, LenProperties, VaultAssumption DEF VaultAssumption
        <2>8. Len(Append(rest, e)) <= CacheMax
            BY <1>1, <2>1, <2>4, <2>6, <2>7
        <2>9. Touch(cache, t) = Append(rest, e)
            BY <1>2 DEF Touch, rest, e
        <2>10. QED
            BY <1>1, <2>3, <2>6, <2>8, <2>9 DEF Cache
    <1>3. CASE ~Hit(cache, t)
        BY <1>1, <1>3 DEF Touch
    <1>4. QED
        BY <1>2, <1>3

\* Pruning takes entries out, at most.
LEMMA PrunedCache ==
    ASSUME NEW E, NEW cache, Cache(cache, E)
    PROVE  Cache(Pruned(cache), E) /\ Elements(Pruned(cache)) \subseteq Elements(cache)
    <1> DEFINE I == {i \in DOMAIN cache : Fresh(cache[i])}
    <1>1. Cache(Only(cache, I), E) /\ Elements(Only(cache, I)) = {cache[i] : i \in I}
        BY OnlyOfCache
    <1>2. {cache[i] : i \in I} \subseteq Elements(cache)
        BY DEF Elements
    <1>3. QED
        BY <1>1, <1>2 DEF Pruned

\* A look at the caches takes entries out of them, at most.
LEMMA LookedUp ==
    ASSUME Cache(positive, PositiveEntries), Cache(negative, NegativeEntries), pruneAt \in Nat, now \in Nat,
           NEW t, Lookup(t)
    PROVE  /\ Cache(positive, PositiveEntries)' /\ Elements(positive') \subseteq Elements(positive)
           /\ Cache(negative, NegativeEntries)' /\ Elements(negative') \subseteq Elements(negative)
           /\ pruneAt' \in Nat
    <1>1. Cache(Pruned(positive), PositiveEntries) /\ Elements(Pruned(positive)) \subseteq Elements(positive)
        BY PrunedCache
    <1>2. Cache(Pruned(negative), NegativeEntries) /\ Elements(Pruned(negative)) \subseteq Elements(negative)
        BY PrunedCache
    <1>3. /\ Cache(Touch(Pruned(positive), t), PositiveEntries)
          /\ Elements(Touch(Pruned(positive), t)) \subseteq Elements(Pruned(positive))
        BY <1>1, Touched
    <1>4. /\ Cache(Touch(Pruned(negative), t), NegativeEntries)
          /\ Elements(Touch(Pruned(negative), t)) \subseteq Elements(Pruned(negative))
        BY <1>2, Touched
    <1>5. Cache(positive', PositiveEntries) /\ Elements(positive') \subseteq Elements(positive)
        BY <1>1, <1>3 DEF Lookup
    <1>6. Cache(negative', NegativeEntries) /\ Elements(negative') \subseteq Elements(negative)
        BY <1>2, <1>4 DEF Lookup
    <1>7. pruneAt' \in Nat
        BY VaultAssumption DEF Lookup, VaultAssumption
    <1>8. Cache(positive, PositiveEntries)' /\ Cache(negative, NegativeEntries)'
        BY <1>5, <1>6 DEF Cache, Unique, PositiveEntries, NegativeEntries
    <1>9. QED
        BY <1>5, <1>6, <1>7, <1>8

-----------------------------------------------------------------------------
(* The inductive invariant.                                                *)

\* The types, and those of the units.
Typed ==
    /\ now \in 0..MaxTime
    /\ chain \in Histories
    /\ task \in [Requests -> Slots]
    /\ inside \subseteq Requests
    /\ line \in Seq(Requests)
    /\ Cache(positive, PositiveEntries) /\ Cache(negative, NegativeEntries) /\ pruneAt \in Nat
    /\ held \in [Requests -> [{"vault"} -> Nat]] /\ load \in [{"vault"} -> Int]

\* Every entry is about something that was true of its token when the read that cached it
\* began, at most two calls before; no entry is from the future, and a vault's is no
\* younger than a verdict against it.
CacheInv ==
    /\ \A e \in Elements(positive) :
           /\ chain[e.key][e.rate] = e.kind
           /\ e.expires <= e.rate + PositiveTtl + Reading
           /\ e.expires <= now + PositiveTtl
    /\ \A n \in Elements(negative) : \E m \in 0..now :
           chain[n.key][m] = "plain" /\ n.expires <= m + NegativeTtl + Reading
    /\ \A e \in Elements(positive), n \in Elements(negative) :
           e.key = n.key => n.expires - NegativeTtl >= e.expires - PositiveTtl

\* Nobody stands in the line twice.
LineInv == \A i, j \in DOMAIN line : line[i] = line[j] => i = j

\* A request, as its slot has it, has verdicts for its first tokens and looks for the next;
\* the Yearn adapter is at work only after ERC-4626's found the interface missing, and has
\* the rate with the interface.
Sought == (Calls \ {"block"}) \cup {"queued"}
Subject(slot) == slot.legs[Len(slot.answers) + 1]
StageInv(slot) ==
    /\ slot.since <= now
    /\ Len(slot.answers) <= Len(slot.legs)
    /\ slot.pc \in {"idle", "waiting"} => slot.answers = <<>>
    /\ slot.pc # "idle" => slot.legs \in Asks
    /\ slot.pc \in Sought => Len(slot.answers) < Len(slot.legs)
    /\ slot.pc \notin Calls \ {"block"} => slot.kind = "erc4626"
    /\ slot.pc \in Calls => now <= slot.since + CallLife
    /\ slot.pc = "multicall" /\ slot.kind = "yearn_v2" =>
           \E m \in 0..slot.since :
               chain[Subject(slot)][m] # "erc4626" /\ slot.since <= m + CallLife
    /\ slot.pc = "conversion" /\ slot.kind = "yearn_v2" =>
           /\ chain[Subject(slot)][slot.rate] = "yearn_v2"
           /\ slot.rate <= slot.since /\ slot.since <= slot.rate + CallLife

\* What it goes on with was true, as AnswersFresh says it.
FreshInv(slot) == \A i \in DOMAIN slot.answers : WasTrue(slot.legs[i], slot.answers[i])

\* What a request has of the shared things, as NothingKept says it.
InLine(r) == \E i \in DOMAIN line : line[i] = r
KeptInv(r, slot) ==
    /\ held[r]["vault"] = IF slot.pc \in Outcomes \cup {"idle", "waiting"}
                          THEN 0 ELSE Len(slot.legs)
    /\ r \in inside <=> slot.pc \in Calls \ {"block"}
    /\ InLine(r) <=> slot.pc = "queued"

RequestInv(r) == StageInv(task[r]) /\ FreshInv(task[r]) /\ KeptInv(r, task[r])

IInv == Typed /\ CacheInv /\ LineInv /\ \A r \in Requests : RequestInv(r)

\* The numbers among the constants.
LEMMA Numbers ==
    /\ PositiveTtl \in Nat \ {0} /\ NegativeTtl \in Nat \ {0}
    /\ CallLife \in Nat /\ MaxTime \in Nat /\ Reading = 2 * CallLife /\ Reading \in Nat
    /\ 0 \in 0..MaxTime /\ \A n \in 0..MaxTime : n \in Nat
    BY VaultAssumption DEF VaultAssumption, Reading

\* The parts of a slot; the token that is looked at is one of the request's.
LEMMA SlotParts ==
    ASSUME NEW slot \in Slots
    PROVE  /\ slot.legs \in Seq(Tokens) /\ Len(slot.legs) \in Nat /\ DOMAIN slot.legs = 1..Len(slot.legs)
           /\ slot.answers \in Seq(Verdicts) /\ Len(slot.answers) \in Nat
           /\ DOMAIN slot.answers = 1..Len(slot.answers)
           /\ slot.since \in Nat /\ slot.rate \in 0..MaxTime /\ slot.kind \in Kinds
           /\ Len(slot.answers) < Len(slot.legs) =>
                  Subject(slot) \in Tokens /\ Len(slot.answers) + 1 \in DOMAIN slot.legs
    <1> DEFINE legs == slot.legs
               answers == slot.answers
    <1>1. legs \in Asks \cup {<<>>} /\ answers \in Seq(Verdicts)
        BY DEF Slots
    <1>2. legs \in Seq(Tokens)
        BY <1>1, VaultAssumption, EmptySeq DEF VaultAssumption
    <1>3. /\ Len(legs) \in Nat /\ DOMAIN legs = 1..Len(legs)
          /\ Len(answers) \in Nat /\ DOMAIN answers = 1..Len(answers)
        BY <1>1, <1>2, LenProperties
    <1>4. slot.since \in Nat /\ slot.rate \in 0..MaxTime /\ slot.kind \in Kinds
        BY Numbers DEF Slots
    <1> HIDE DEF legs, answers
    <1>5. ASSUME Len(answers) < Len(legs) PROVE legs[Len(answers) + 1] \in Tokens /\ Len(answers) + 1 \in DOMAIN legs
        <2>1. Len(answers) + 1 \in DOMAIN legs
            BY <1>3, <1>5
        <2>2. QED
            BY <1>2, <2>1, ElementOfSeq
    <1>6. QED
        BY <1>1, <1>2, <1>3, <1>4, <1>5 DEF Subject, legs, answers

-----------------------------------------------------------------------------
(* A step of one request leaves the others as they were.                   *)

\* The invariant after a step of request r, which turns its slot into next.
LEMMA OneMoves ==
    ASSUME IInv, NEW r \in Requests, NEW next \in Slots, task' = [task EXCEPT ![r] = next],
           UNCHANGED <<now, chain>>,
           inside' \subseteq Requests, line' \in Seq(Requests), LineInv',
           held' \in [Requests -> [{"vault"} -> Nat]], load' \in [{"vault"} -> Int],
           Cache(positive, PositiveEntries)', Cache(negative, NegativeEntries)', pruneAt' \in Nat, CacheInv',
           \A q \in Requests \ {r} :
               held'[q] = held[q] /\ (q \in inside' <=> q \in inside) /\ (InLine(q)' <=> InLine(q)),
           StageInv(next), FreshInv(next),
           held'[r]["vault"] = IF next.pc \in Outcomes \cup {"idle", "waiting"} THEN 0 ELSE Len(next.legs),
           r \in inside' <=> next.pc \in Calls \ {"block"},
           InLine(r)' <=> next.pc = "queued"
    PROVE  IInv'
    <1>1. /\ task' \in [Requests -> Slots] /\ task'[r] = next
          /\ \A q \in Requests \ {r} : task'[q] = task[q]
        BY DEF IInv, Typed
    <1>2. Typed'
        BY <1>1 DEF IInv, Typed
    <1>3. ASSUME NEW q \in Requests PROVE RequestInv(q)'
        <2>1. CASE q = r
            <3>1. StageInv(task[r])'
                BY <1>1 DEF StageInv, Subject
            <3>2. FreshInv(task[r])'
                BY <1>1 DEF FreshInv, WasTrue
            <3>3. KeptInv(r, task[r])'
                BY <1>1 DEF KeptInv
            <3>4. QED
                BY <2>1, <3>1, <3>2, <3>3 DEF RequestInv
        <2>2. CASE q # r
            <3>1. StageInv(task[q]) /\ FreshInv(task[q]) /\ KeptInv(q, task[q]) /\ task'[q] = task[q]
                BY <1>1, <2>2 DEF IInv, RequestInv
            <3>2. StageInv(task[q])'
                BY <3>1 DEF StageInv, Subject
            <3>3. FreshInv(task[q])'
                BY <3>1 DEF FreshInv, WasTrue
            <3>4. KeptInv(q, task[q])'
                BY <2>2, <3>1 DEF KeptInv
            <3>5. QED
                BY <3>2, <3>3, <3>4 DEF RequestInv
        <2>3. QED
            BY <2>1, <2>2
    <1>4. QED
        BY <1>2, <1>3 DEF IInv

\* Caches that lose entries, or nothing, remain sound.
LEMMA FewerEntries ==
    ASSUME CacheInv, UNCHANGED <<now, chain>>,
           Elements(positive)' \subseteq Elements(positive),
           Elements(negative)' \subseteq Elements(negative)
    PROVE  CacheInv'
    BY DEF CacheInv

\* Taking elements out of a sequence that has each once leaves the others, each once.
LEMMA OnlyOfDistinct ==
    ASSUME NEW S, NEW seq \in Seq(S), NEW I \in SUBSET DOMAIN seq,
           \A i, j \in DOMAIN seq : seq[i] = seq[j] => i = j
    PROVE  /\ Only(seq, I) \in Seq(S)
           /\ \A i, j \in DOMAIN Only(seq, I) : Only(seq, I)[i] = Only(seq, I)[j] => i = j
           /\ Elements(Only(seq, I)) = {seq[i] : i \in I}
    <1> DEFINE out == Only(seq, I)
    <1>1. /\ out \in Seq(S)
          /\ Len(out) = Cardinality(I) /\ Cardinality(I) \in Nat
          /\ Cardinality(I) <= Len(seq)
          /\ \E place \in [DOMAIN out -> I] :
                  /\ \A j \in DOMAIN out : out[j] = seq[place[j]]
                  /\ \A j, k \in DOMAIN out : place[j] = place[k] => j = k
                  /\ \A i \in I : \E j \in DOMAIN out : place[j] = i
        BY SMTT(30), OnlyProperties
    <1> HIDE DEF out
    <1>2. PICK place \in [DOMAIN out -> I] :
                  /\ \A j \in DOMAIN out : out[j] = seq[place[j]]
                  /\ \A j, k \in DOMAIN out : place[j] = place[k] => j = k
                  /\ \A i \in I : \E j \in DOMAIN out : place[j] = i
        BY <1>1
    <1>3. \A i, j \in DOMAIN out : out[i] = out[j] => i = j
        BY <1>2
    <1>4. Elements(out) = {seq[i] : i \in I}
        BY <1>2 DEF Elements
    <1>5. QED
        BY <1>1, <1>3, <1>4 DEF out

\* A request that leaves the line leaves the others in it.
LEMMA LeaveLine ==
    ASSUME line \in Seq(Requests), LineInv, NEW r \in Requests,
           line' = Only(line, {i \in DOMAIN line : line[i] # r})
    PROVE  line' \in Seq(Requests) /\ LineInv' /\ \A q : InLine(q)' <=> InLine(q) /\ q # r
    <1> DEFINE I == {i \in DOMAIN line : line[i] # r}
               out == Only(line, I)
    <1>1. /\ out \in Seq(Requests)
          /\ \A i, j \in DOMAIN out : out[i] = out[j] => i = j
          /\ Elements(out) = {line[i] : i \in I}
        <2>1. I \in SUBSET DOMAIN line
            OBVIOUS
        <2>2. \A i, j \in DOMAIN line : line[i] = line[j] => i = j
            BY DEF LineInv
        <2> HIDE DEF I
        <2>3. QED
            BY <2>1, <2>2, OnlyOfDistinct
    <1>2. line' = out
        OBVIOUS
    <1> HIDE DEF out
    <1>3. Elements(line') = {line[i] : i \in I}
        BY <1>1, <1>2
    <1>4. \A q : InLine(q)' <=> q \in {line[i] : i \in I}
        BY <1>3 DEF InLine, Elements
    <1>5. \A q : q \in {line[i] : i \in I} <=> InLine(q) /\ q # r
        BY DEF InLine
    <1>6. QED
        BY <1>1, <1>2, <1>4, <1>5 DEF LineInv

\* A request joins the line at its end.
LEMMA JoinLine ==
    ASSUME line \in Seq(Requests), LineInv, NEW r \in Requests, ~InLine(r), line' = Append(line, r)
    PROVE  line' \in Seq(Requests) /\ LineInv' /\ \A q : InLine(q)' <=> InLine(q) \/ q = r
    <1>1. Len(line) \in Nat /\ DOMAIN line = 1..Len(line)
        BY LenProperties
    <1> DEFINE out == Append(line, r)
    <1>2. /\ out \in Seq(Requests) /\ Len(out) = Len(line) + 1
          /\ \A i \in 1..Len(line) : out[i] = line[i]
          /\ out[Len(line) + 1] = r
        BY AppendProperties
    <1>3. line' = out
        OBVIOUS
    <1> HIDE DEF out
    <1>4. DOMAIN out = 1..(Len(line) + 1)
        BY <1>2, LenProperties
    <1>5. /\ \A i \in DOMAIN out : i \in DOMAIN line \/ i = Len(line) + 1
          /\ \A i \in DOMAIN line : i \in DOMAIN out
          /\ Len(line) + 1 \in DOMAIN out
        BY <1>1, <1>4
    <1>6. LineInv'
        BY <1>1, <1>2, <1>3, <1>5 DEF LineInv, InLine
    <1>7. ASSUME NEW q PROVE InLine(q)' <=> InLine(q) \/ q = r
        BY <1>1, <1>2, <1>3, <1>5 DEF InLine
    <1>8. QED
        BY <1>2, <1>3, <1>6, <1>7

\* The first of the line leaves it.
LEMMA AdvanceLine ==
    ASSUME line \in Seq(Requests), LineInv, line # <<>>, line' = Tail(line)
    PROVE  /\ line' \in Seq(Requests) /\ LineInv' /\ InLine(Head(line))
           /\ \A q : InLine(q)' <=> InLine(q) /\ q # Head(line)
    <1>1. Len(line) \in Nat /\ DOMAIN line = 1..Len(line)
        BY LenProperties
    <1> DEFINE out == Tail(line)
               n == Len(line)
    <1>2. /\ Head(line) = line[1]
          /\ out \in Seq(Requests) /\ Len(out) = n - 1
          /\ \A i \in 1..Len(out) : out[i] = line[i + 1]
        BY HeadTailProperties
    <1>3. line' = out
        OBVIOUS
    <1> HIDE DEF out, n
    <1>4. DOMAIN out = 1..(n - 1)
        BY <1>2, LenProperties
    <1>5. n \in Nat /\ DOMAIN line = 1..n /\ 1 \in DOMAIN line
        <2>1. Len(line) # 0
            BY EmptySeq
        <2>2. QED
            BY <1>1, <2>1 DEF n
    <1>6. \A i \in DOMAIN out : i \in Int /\ i + 1 \in DOMAIN line /\ i + 1 # 1 /\ out[i] = line[i + 1]
        BY <1>2, <1>4, <1>5
    <1>7. \A i \in DOMAIN line : i = 1 \/ (i - 1 \in DOMAIN out /\ (i - 1) + 1 = i)
        BY <1>4, <1>5
    <1>8. LineInv'
        <2>1. ASSUME NEW i \in DOMAIN out, NEW j \in DOMAIN out, out[i] = out[j] PROVE i = j
            <3>1. i + 1 = j + 1
                BY <1>6, <2>1 DEF LineInv
            <3>2. QED
                BY <1>6, <3>1
        <2>2. QED
            BY <1>3, <2>1 DEF LineInv
    <1>9. ASSUME NEW q PROVE InLine(q)' <=> InLine(q) /\ q # Head(line)
        <2>1. ASSUME InLine(q)' PROVE InLine(q) /\ q # Head(line)
            BY <1>2, <1>3, <1>5, <1>6, <2>1 DEF InLine, LineInv
        <2>2. ASSUME InLine(q), q # Head(line) PROVE InLine(q)'
            <3>1. PICK i \in DOMAIN line : line[i] = q
                BY <2>2 DEF InLine
            <3>2. i - 1 \in DOMAIN out /\ out[i - 1] = q
                BY <1>2, <1>6, <1>7, <2>2, <3>1
            <3>3. QED
                BY <1>3, <3>2 DEF InLine
        <2>3. QED
            BY <2>1, <2>2
    <1>10. QED
        BY <1>2, <1>3, <1>5, <1>8, <1>9 DEF InLine

-----------------------------------------------------------------------------
(* From one call to the next.                                              *)

\* What a read found out about the token it is for when next was set up.
Evidence(next) ==
    /\ next.pc = "multicall" /\ next.kind = "yearn_v2" =>
           \E m \in 0..now : chain[Subject(next)][m] # "erc4626" /\ now <= m + CallLife
    /\ next.pc = "conversion" /\ next.kind = "yearn_v2" =>
           /\ chain[Subject(next)][next.rate] = "yearn_v2"
           /\ next.rate <= now /\ now <= next.rate + CallLife

\* Nothing but slots changes.
SlotsOnly == UNCHANGED <<now, chain, permits, caches, units>>

\* What stays as it was keeps what was said of it.
LEMMA SlotsOnlyKeeps ==
    ASSUME IInv, SlotsOnly
    PROVE  /\ UNCHANGED <<now, chain>>
           /\ inside' = inside /\ line' = line /\ held' = held
           /\ inside' \subseteq Requests /\ line' \in Seq(Requests) /\ LineInv'
           /\ held' \in [Requests -> [{"vault"} -> Nat]] /\ load' \in [{"vault"} -> Int]
           /\ Cache(positive, PositiveEntries)' /\ Cache(negative, NegativeEntries)' /\ pruneAt' \in Nat
           /\ CacheInv'
           /\ \A q : InLine(q)' <=> InLine(q)
    <1>1. /\ UNCHANGED <<now, chain>>
          /\ inside' = inside /\ line' = line /\ held' = held /\ load' = load
          /\ positive' = positive /\ negative' = negative /\ pruneAt' = pruneAt
        BY DEF SlotsOnly, permits, caches, units
    <1>2. CacheInv'
        BY <1>1 DEF IInv, CacheInv
    <1>3. LineInv' /\ \A q : InLine(q)' <=> InLine(q)
        BY <1>1 DEF IInv, LineInv, InLine
    <1>4. Cache(positive, PositiveEntries)' /\ Cache(negative, NegativeEntries)'
        BY <1>1 DEF IInv, Typed, Cache, Unique, PositiveEntries, NegativeEntries
    <1>5. QED
        BY <1>1, <1>2, <1>3, <1>4 DEF IInv, Typed

\* A detection goes on with another call.
LEMMA NextCall ==
    ASSUME IInv, NEW r \in Requests, Pc(r) \in Calls \ {"block"},
           NEW next \in Slots, task' = [task EXCEPT ![r] = next], SlotsOnly,
           next.pc \in Calls \ {"block"}, next.since = now,
           next.legs = task[r].legs, next.answers = task[r].answers, Evidence(next)
    PROVE  IInv'
    <1>1. /\ StageInv(task[r]) /\ FreshInv(task[r]) /\ KeptInv(r, task[r])
          /\ task[r] \in Slots /\ task[r].pc \in Calls \ {"block"}
        BY DEF IInv, RequestInv, Typed, Pc
    <1>2. now \in Nat
        BY Numbers DEF IInv, Typed
    <1>3. StageInv(next)
        BY <1>1, <1>2, Numbers DEF StageInv, Sought, Evidence, Calls
    <1>4. FreshInv(next)
        BY <1>1 DEF FreshInv
    <1>5. /\ held[r]["vault"] = Len(next.legs) /\ r \in inside /\ ~InLine(r)
          /\ next.pc \notin Outcomes \cup {"idle", "waiting", "queued"}
        BY <1>1 DEF KeptInv, Calls, Outcomes
    <1>6. QED
        BY <1>3, <1>4, <1>5, SlotsOnlyKeeps, OneMoves

\* What a call served since it was sent says is at most one call old.
LEMMA ServedLately ==
    ASSUME IInv, NEW r \in Requests, Pc(r) \in Calls, NEW s \in Served(r)
    PROVE  s \in 0..MaxTime /\ s \in 0..now /\ now <= s + CallLife /\ task[r].since <= s
    <1>1. now \in Nat /\ now <= MaxTime /\ task[r].since \in Nat /\ now <= task[r].since + CallLife
        BY Numbers, SlotParts DEF IInv, Typed, RequestInv, StageInv, Pc
    <1>2. QED
        BY <1>1, Numbers DEF Served

\* The steps of the adapters that lead to another call.
LEMMA AdaptersGoOn ==
    ASSUME IInv, NEW r \in Requests,
           \/ InterfaceFound(r)
           \/ InterfaceMissing(r) /\ task[r].kind = "erc4626"
           \/ MulticallFails(r)
           \/ InterfaceRead(r) \/ DecimalsRead(r) \/ RateUnread(r)
    PROVE  IInv'
    <1>1. task[r] \in Slots /\ task \in [Requests -> Slots] /\ now \in 0..MaxTime
        BY DEF IInv, Typed
    <1>2. CASE InterfaceFound(r)
        <2>1. PICK s \in Served(r) :
                  /\ IsVault(r, s)
                  /\ task' = [task EXCEPT ![r].pc = "conversion", ![r].since = now,
                                  ![r].rate = IF task[r].kind = "yearn_v2" THEN s ELSE 0]
            BY <1>2 DEF InterfaceFound
        <2> DEFINE next == [task[r] EXCEPT !.pc = "conversion", !.since = now,
                                !.rate = IF task[r].kind = "yearn_v2" THEN s ELSE 0]
        <2>2. Pc(r) = "multicall" /\ SlotsOnly
            BY <1>2 DEF InterfaceFound, Reaches, SlotsOnly
        <2>3. s \in 0..MaxTime /\ s \in 0..now /\ now <= s + CallLife
            BY <2>1, <2>2, ServedLately DEF Calls
        <2>4. next \in Slots
            <3>1. (IF task[r].kind = "yearn_v2" THEN s ELSE 0) \in 0..MaxTime
                BY <2>3, Numbers
            <3>2. QED
                BY <1>1, <3>1 DEF Slots, Calls
        <2>5. task' = [task EXCEPT ![r] = next]
            BY <1>1, <2>1
        <2>6. /\ next.pc = "conversion" /\ next.since = now /\ next.legs = task[r].legs
              /\ next.answers = task[r].answers /\ next.kind = task[r].kind
              /\ next.kind = "yearn_v2" => next.rate = s
            BY <1>1 DEF Slots
        <2>7. chain[Token(r)][s] = task[r].kind
            BY <2>1 DEF IsVault
        <2> HIDE DEF next
        <2>8. Evidence(next)
            BY <2>3, <2>6, <2>7 DEF Evidence, Subject, Token
        <2>9. QED
            BY <2>2, <2>4, <2>5, <2>6, <2>8, NextCall DEF Calls
    <1>3. CASE InterfaceMissing(r) /\ task[r].kind = "erc4626"
        <2> DEFINE next == [task[r] EXCEPT !.kind = "yearn_v2", !.since = now]
        <2>1. /\ Pc(r) = "multicall" /\ SlotsOnly
              /\ task' = [task EXCEPT ![r].kind = "yearn_v2", ![r].since = now]
            BY <1>3 DEF InterfaceMissing, Reaches, SlotsOnly
        <2>2. PICK s \in Served(r) : ~IsVault(r, s)
            BY <1>3 DEF InterfaceMissing
        <2>3. s \in 0..now /\ now <= s + CallLife
            BY <2>1, ServedLately DEF Calls
        <2>4. next \in Slots
            BY <1>1 DEF Slots, Kinds
        <2>5. task' = [task EXCEPT ![r] = next]
            BY <1>1, <2>1
        <2>6. /\ next.pc = "multicall" /\ next.since = now /\ next.legs = task[r].legs
              /\ next.answers = task[r].answers
            BY <1>1, <2>1 DEF Slots, Pc
        <2>7. chain[Token(r)][s] # "erc4626"
            BY <1>3, <2>2 DEF IsVault
        <2> HIDE DEF next
        <2>8. Evidence(next)
            BY <2>3, <2>6, <2>7 DEF Evidence, Subject, Token
        <2>9. QED
            BY <2>1, <2>4, <2>5, <2>6, <2>8, NextCall DEF Calls
    <1>4. ASSUME NEW pc \in {"interface", "decimals", "rate", "preview"}, NEW rate \in {0, task[r].rate},
                 Pc(r) \in Calls \ {"block"}, SlotsOnly,
                 task' = [task EXCEPT ![r].pc = pc, ![r].since = now, ![r].rate = rate]
          PROVE  IInv'
        <2> DEFINE next == [task[r] EXCEPT !.pc = pc, !.since = now, !.rate = rate]
        <2>1. rate \in 0..MaxTime
            BY <1>1, Numbers, SlotParts
        <2>2. next \in Slots
            BY <1>1, <2>1 DEF Slots, Calls
        <2>3. task' = [task EXCEPT ![r] = next]
            BY <1>1, <1>4
        <2>4. /\ next.pc = pc /\ next.since = now /\ next.legs = task[r].legs
              /\ next.answers = task[r].answers
            BY <1>1 DEF Slots
        <2> HIDE DEF next
        <2>5. Evidence(next)
            BY <2>4 DEF Evidence
        <2>6. QED
            BY <1>4, <2>2, <2>3, <2>4, <2>5, NextCall DEF Calls
    <1>5. CASE MulticallFails(r)
        BY <1>4, <1>5 DEF MulticallFails, Calls, SlotsOnly
    <1>6. CASE InterfaceRead(r) \/ DecimalsRead(r) \/ RateUnread(r)
        <2>1. PICK pc \in {"decimals", "rate", "preview"} :
                  Send(r, pc) /\ SlotsOnly /\ Pc(r) \in Calls \ {"block"}
            BY <1>6 DEF InterfaceRead, DecimalsRead, RateUnread, Reaches, SlotsOnly, Calls
        <2>2. task' = [task EXCEPT ![r].pc = pc, ![r].since = now, ![r].rate = task[r].rate]
            BY <1>1, <2>1 DEF Send, Slots
        <2>3. QED
            BY <1>4, <2>1, <2>2
    <1>7. QED
        BY <1>2, <1>3, <1>5, <1>6

-----------------------------------------------------------------------------
(* Verdicts.                                                               *)

\* A request that gets a verdict on the token it looks at goes on from there.
LEMMA Answered ==
    ASSUME IInv, NEW r \in Requests, Undecided(r), Pc(r) \in Sought \cup {"detect"},
           NEW verdict, verdict.kind \in Kinds \cup {"plain"}, verdict.rate \in 0..MaxTime,
           WasTrue(Token(r), [kind |-> verdict.kind, rate |-> verdict.rate, at |-> now]),
           Answer(r, verdict), UNCHANGED <<now, chain, units>>,
           inside' = inside \ {r}, line' \in Seq(Requests), LineInv',
           \A q : InLine(q)' <=> InLine(q) /\ q # r,
           Cache(positive, PositiveEntries)', Cache(negative, NegativeEntries)', pruneAt' \in Nat, CacheInv'
    PROVE  IInv'
    <1> DEFINE a == [kind |-> verdict.kind, rate |-> verdict.rate, at |-> now]
               answers == task[r].answers
               legs == task[r].legs
               next == [task[r] EXCEPT !.answers = Append(answers, a), !.pc = "detect",
                                       !.kind = "erc4626", !.since = 0, !.rate = 0]
    <1>1. /\ task[r] \in Slots /\ task \in [Requests -> Slots] /\ now \in 0..MaxTime
          /\ StageInv(task[r]) /\ FreshInv(task[r]) /\ KeptInv(r, task[r])
        BY DEF IInv, Typed, RequestInv
    <1>2. a \in Verdicts
        BY <1>1 DEF Verdicts
    <1>3. /\ answers \in Seq(Verdicts) /\ Len(answers) \in Nat /\ DOMAIN answers = 1..Len(answers)
          /\ Len(legs) \in Nat
        BY <1>1, SlotParts
    <1> DEFINE longer == Append(answers, a)
    <1>4. /\ longer \in Seq(Verdicts) /\ Len(longer) = Len(answers) + 1
          /\ \A i \in 1..Len(answers) : longer[i] = answers[i]
          /\ longer[Len(answers) + 1] = a
        BY <1>2, <1>3, AppendProperties
    <1> HIDE DEF a
    <1> HIDE DEF longer
    <1>5. DOMAIN longer = 1..(Len(answers) + 1)
        BY <1>4, LenProperties
    <1>6. next = [task[r] EXCEPT !.answers = longer, !.pc = "detect", !.kind = "erc4626",
                                 !.since = 0, !.rate = 0]
        BY DEF longer
    <1>7. task' = [task EXCEPT ![r] = next]
        BY <1>1 DEF Answer, a
    <1> HIDE DEF next
    <1>8. next \in Slots
        <2>1. 0 \in 0..MaxTime /\ longer \in Seq(Verdicts)
            BY <1>4, Numbers
        <2>2. QED
            BY <1>1, <1>6, <2>1 DEF Slots, Kinds
    <1>9. /\ next.answers = longer /\ next.pc = "detect" /\ next.kind = "erc4626" /\ next.since = 0
          /\ next.legs = legs
        BY <1>1, <1>6 DEF Slots
    <1>10. Len(answers) < Len(legs) /\ Token(r) = legs[Len(answers) + 1]
        BY DEF Undecided, Token
    <1>11. Pc(r) \notin Outcomes \cup {"idle", "waiting"} /\ task[r].pc = Pc(r) /\ Pc(r) # "block"
        BY DEF Sought, Calls, Outcomes, Pc
    <1> HIDE DEF answers, legs
    <1>12. StageInv(next)
        <2>1. legs \in Asks
            BY <1>1, <1>11 DEF StageInv, legs
        <2>2. Len(next.answers) <= Len(next.legs)
            BY <1>3, <1>4, <1>9, <1>10
        <2>3. next.since <= now
            BY <1>1, <1>9, Numbers
        <2>4. QED
            BY <1>9, <2>1, <2>2, <2>3 DEF StageInv, Sought, Calls
    <1>13. FreshInv(next)
        <2>1. ASSUME NEW i \in DOMAIN longer PROVE WasTrue(legs[i], longer[i])
            <3>1. CASE i \in 1..Len(answers)
                BY <1>1, <1>3, <1>4, <3>1 DEF FreshInv, answers, legs
            <3>2. CASE i = Len(answers) + 1
                BY <1>4, <1>10, <3>2 DEF a
            <3>3. QED
                BY <1>3, <1>5, <3>1, <3>2
        <2>2. QED
            BY <1>9, <2>1 DEF FreshInv
    <1>14. /\ held' = held /\ load' = load
           /\ held[r]["vault"] = Len(next.legs)
           /\ next.pc \notin Outcomes \cup {"idle", "waiting", "queued"} /\ next.pc \notin Calls
        BY <1>1, <1>9, <1>11 DEF KeptInv, units, Outcomes, Calls, legs
    <1>15. QED
        BY <1>7, <1>8, <1>12, <1>13, <1>14, OneMoves DEF IInv, Typed

\* What the caches say of a token is from a live entry of one of them.
LEMMA CachedFrom ==
    ASSUME IInv, NEW t, Cached(t)
    PROVE  \/ \E e \in Elements(positive) :
                 /\ e \in PositiveEntries /\ e.key = t /\ now < e.expires
                 /\ CachedVerdict(t) = [kind |-> e.kind, rate |-> e.rate]
           \/ \E n \in Elements(negative) :
                 /\ n \in NegativeEntries /\ n.key = t /\ now < n.expires
                 /\ CachedVerdict(t) = [kind |-> "plain", rate |-> 0]
    <1>1. positive \in Seq(PositiveEntries) /\ Unique(positive) /\ negative \in Seq(NegativeEntries)
        BY DEF IInv, Typed, Cache
    <1>2. CASE Hit(positive, t)
        <2> DEFINE e == CHOOSE x \in Entries(positive, t) : TRUE
        <2>1. PICK x \in Entries(positive, t) : Fresh(x)
            BY <1>2 DEF Hit
        <2>2. \A y \in Entries(positive, t) : y = x
            BY <1>1, <2>1 DEF Entries, Unique
        <2>3. e = x
            BY <2>1, <2>2
        <2> HIDE DEF e
        <2>4. x \in Elements(positive) /\ x.key = t
            BY <2>1 DEF Entries, Elements
        <2>5. x \in PositiveEntries
            BY <1>1, <2>4, ElementOfSeq DEF Elements
        <2>6. CachedVerdict(t) = [kind |-> x.kind, rate |-> x.rate]
            BY <1>2, <2>3 DEF CachedVerdict, e
        <2>7. QED
            BY <2>1, <2>4, <2>5, <2>6 DEF Fresh
    <1>3. CASE ~Hit(positive, t)
        <2>1. PICK n \in Entries(negative, t) : Fresh(n)
            BY <1>3 DEF Cached, Hit
        <2>2. n \in Elements(negative) /\ n.key = t
            BY <2>1 DEF Entries, Elements
        <2>3. n \in NegativeEntries
            BY <1>1, <2>2, ElementOfSeq DEF Elements
        <2>4. CachedVerdict(t) = [kind |-> "plain", rate |-> 0]
            BY <1>3 DEF CachedVerdict, NotVault
        <2>5. QED
            BY <2>1, <2>2, <2>3, <2>4 DEF Fresh
    <1>4. QED
        BY <1>2, <1>3

\* What the caches say of a token was true of it.
LEMMA CachedTrue ==
    ASSUME IInv, NEW t, Cached(t)
    PROVE  /\ CachedVerdict(t).kind \in Kinds \cup {"plain"} /\ CachedVerdict(t).rate \in 0..MaxTime
           /\ WasTrue(t, [kind |-> CachedVerdict(t).kind, rate |-> CachedVerdict(t).rate, at |-> now])
    <1>1. now \in 0..MaxTime
        BY DEF IInv, Typed
    <1>2. ASSUME NEW e \in Elements(positive), e \in PositiveEntries, e.key = t, now < e.expires,
                 CachedVerdict(t) = [kind |-> e.kind, rate |-> e.rate]
          PROVE  /\ CachedVerdict(t).kind \in Kinds \cup {"plain"} /\ CachedVerdict(t).rate \in 0..MaxTime
                 /\ WasTrue(t, [kind |-> CachedVerdict(t).kind, rate |-> CachedVerdict(t).rate, at |-> now])
        <2>1. /\ e.kind \in Kinds /\ e.rate \in 0..MaxTime /\ e.expires \in Nat
            BY <1>2 DEF PositiveEntries
        <2>2. chain[t][e.rate] = e.kind /\ e.expires <= e.rate + PositiveTtl + Reading
            BY <1>2 DEF IInv, CacheInv
        <2>3. now < e.rate + PositiveTtl + Reading
            <3>1. now \in Nat /\ e.rate \in Nat /\ PositiveTtl \in Nat /\ Reading \in Nat
                BY <1>1, <2>1, Numbers
            <3>2. QED
                BY <1>2, <2>1, <2>2, <3>1
        <2>4. QED
            BY <1>2, <2>1, <2>2, <2>3 DEF WasTrue
    <1>3. ASSUME NEW n \in Elements(negative), n \in NegativeEntries, n.key = t, now < n.expires,
                 CachedVerdict(t) = [kind |-> "plain", rate |-> 0]
          PROVE  /\ CachedVerdict(t).kind \in Kinds \cup {"plain"} /\ CachedVerdict(t).rate \in 0..MaxTime
                 /\ WasTrue(t, [kind |-> CachedVerdict(t).kind, rate |-> CachedVerdict(t).rate, at |-> now])
        <2>1. PICK m \in 0..now : chain[t][m] = "plain" /\ n.expires <= m + NegativeTtl + Reading
            BY <1>3 DEF IInv, CacheInv
        <2>2. now < m + NegativeTtl + Reading
            <3>1. now \in Nat /\ m \in Nat /\ NegativeTtl \in Nat /\ Reading \in Nat /\ n.expires \in Nat
                BY <1>1, <1>3, Numbers DEF NegativeEntries
            <3>2. QED
                BY <1>3, <2>1, <3>1
        <2>3. QED
            BY <1>3, <2>1, <2>2, Numbers DEF WasTrue, Kinds
    <1>4. QED
        BY <1>2, <1>3, CachedFrom

\* A request answers itself from the caches, at once or when it leaves the line.
LEMMA CachesAnswer ==
    ASSUME IInv, NEW r \in Requests,
           \/ AnswerCached(r)
           \/ Dequeue(r) /\ Cached(Token(r))
    PROVE  IInv'
    <1>1. /\ Cached(Token(r)) /\ Answer(r, CachedVerdict(Token(r))) /\ Lookup(Token(r))
          /\ UNCHANGED <<now, chain, units>> /\ inside' = inside
        BY DEF AnswerCached, Dequeue, permits
    <1>2. /\ StageInv(task[r]) /\ KeptInv(r, task[r]) /\ LineInv /\ line \in Seq(Requests)
          /\ Cache(positive, PositiveEntries) /\ Cache(negative, NegativeEntries) /\ pruneAt \in Nat
          /\ now \in Nat /\ CacheInv
        BY Numbers DEF IInv, RequestInv, Typed
    <1>3. /\ line' \in Seq(Requests) /\ LineInv' /\ \A q : InLine(q)' <=> InLine(q) /\ q # r
          /\ Undecided(r) /\ Pc(r) \in {"queued", "detect"}
        <2>1. CASE AnswerCached(r)
            <3>1. Pc(r) = "detect" /\ Undecided(r) /\ line' = line
                BY <2>1 DEF AnswerCached, permits
            <3>2. ~InLine(r)
                BY <1>2, <3>1 DEF KeptInv, Pc
            <3>3. LineInv' /\ \A q : InLine(q)' <=> InLine(q)
                BY <1>2, <3>1 DEF LineInv, InLine
            <3>4. QED
                BY <1>2, <3>1, <3>2, <3>3
        <2>2. CASE Dequeue(r)
            <3>1. line # <<>> /\ r = Head(line) /\ line' = Tail(line)
                BY <2>2 DEF Dequeue
            <3>2. /\ line' \in Seq(Requests) /\ LineInv' /\ InLine(r)
                  /\ \A q : InLine(q)' <=> InLine(q) /\ q # r
                BY <1>2, <3>1, AdvanceLine
            <3>3. Pc(r) = "queued"
                BY <1>2, <3>2 DEF KeptInv, Pc
            <3>4. Undecided(r)
                BY <1>2, <3>3 DEF StageInv, Pc, Sought, Undecided
            <3>5. QED
                BY <3>2, <3>3, <3>4
        <2>3. QED
            BY <2>1, <2>2
    <1>4. r \notin inside
        BY <1>2, <1>3 DEF KeptInv, Calls, Pc
    <1>5. /\ Cache(positive, PositiveEntries)' /\ Elements(positive') \subseteq Elements(positive)
          /\ Cache(negative, NegativeEntries)' /\ Elements(negative') \subseteq Elements(negative)
          /\ pruneAt' \in Nat
        BY <1>1, <1>2, LookedUp
    <1>6. CacheInv'
        BY <1>1, <1>2, <1>5, FewerEntries DEF Elements
    <1>7. inside' = inside \ {r}
        BY <1>1, <1>4
    <1> DEFINE verdict == CachedVerdict(Token(r))
    <1>8. /\ verdict.kind \in Kinds \cup {"plain"} /\ verdict.rate \in 0..MaxTime
          /\ WasTrue(Token(r), [kind |-> verdict.kind, rate |-> verdict.rate, at |-> now])
        BY <1>1, CachedTrue
    <1> HIDE DEF verdict
    <1>9. Answer(r, verdict)
        BY <1>1 DEF verdict
    <1>10. QED
        BY <1>1, <1>3, <1>5, <1>6, <1>7, <1>8, <1>9, Answered DEF Sought

\* A token that was once not an ERC-4626 vault and once not a Yearn vault was no vault on
\* one of the two occasions.
LEMMA OneKind ==
    ASSUME chain \in Histories, NEW t \in Tokens, NEW m \in 0..MaxTime, NEW s \in 0..MaxTime,
           chain[t][m] # "erc4626", chain[t][s] # "yearn_v2"
    PROVE  chain[t][m] = "plain" \/ chain[t][s] = "plain"
    <1>1. chain[t] \in [0..MaxTime -> Kinds \cup {"plain"}]
        BY VaultAssumption DEF VaultAssumption
    <1>2. chain[t][m] \in Kinds \cup {"plain"} /\ chain[t][s] \in Kinds \cup {"plain"}
        BY <1>1
    <1>3. SUFFICES ASSUME chain[t][m] = "yearn_v2", chain[t][s] = "erc4626" PROVE FALSE
        BY <1>2 DEF Kinds
    <1> DEFINE seen == {chain[t][i] : i \in 0..MaxTime} \cap Kinds
    <1>4. {"erc4626", "yearn_v2"} \subseteq seen /\ seen \subseteq {"erc4626", "yearn_v2"}
        BY <1>3 DEF Kinds
    <1>5. seen = {"erc4626", "yearn_v2"}
        BY <1>4
    <1>6. Cardinality(seen) <= 1
        BY OneKindEach DEF OneKindEach
    <1> HIDE DEF seen
    <1>7. Cardinality({"erc4626", "yearn_v2"}) = 2
        <2>1. IsFiniteSet({"erc4626"}) /\ Cardinality({"erc4626"}) = 1
            BY FS_Singleton
        <2>2. Cardinality({"erc4626"} \cup {"yearn_v2"}) = 2
            <3>1. "yearn_v2" \notin {"erc4626"}
                OBVIOUS
            <3>2. Cardinality({"erc4626"} \cup {"yearn_v2"}) = Cardinality({"erc4626"}) + 1
                BY <2>1, <3>1, FS_AddElement
            <3>3. QED
                BY <2>1, <3>2
        <2>3. {"erc4626"} \cup {"yearn_v2"} = {"erc4626", "yearn_v2"}
            OBVIOUS
        <2>4. QED
            BY <2>2, <2>3
    <1>8. QED
        BY <1>5, <1>6, <1>7

\* What is known of token t when a read comes to a verdict on it.
Found(t, verdict) ==
    \/ \E kind \in Kinds, s \in 0..now :
          /\ verdict = [kind |-> kind, rate |-> s]
          /\ chain[t][s] = kind /\ now <= s + Reading
    \/ /\ verdict = NotVault
       /\ \E m \in 0..now : chain[t][m] = "plain" /\ now <= m + Reading

\* The caches take over a verdict that was found.
LEMMA VerdictKept ==
    ASSUME IInv, NEW t \in Tokens, NEW verdict, Found(t, verdict), KeepVerdict(t, verdict),
           UNCHANGED <<now, chain>>
    PROVE  /\ Cache(positive, PositiveEntries)' /\ Cache(negative, NegativeEntries)' /\ pruneAt' \in Nat
           /\ CacheInv'
    <1>1. /\ now \in 0..MaxTime /\ now \in Nat
          /\ Cache(positive, PositiveEntries) /\ Cache(negative, NegativeEntries) /\ pruneAt \in Nat
          /\ CacheInv
        BY Numbers DEF IInv, Typed
    <1>2. /\ \A e \in Elements(positive) : e \in PositiveEntries /\ e.expires \in Nat
          /\ \A n \in Elements(negative) : n \in NegativeEntries /\ n.expires \in Nat
        <2>1. positive \in Seq(PositiveEntries) /\ negative \in Seq(NegativeEntries)
            BY <1>1 DEF Cache
        <2>2. (\A e \in Elements(positive) : e \in PositiveEntries) /\ (\A n \in Elements(negative) : n \in NegativeEntries)
            BY <2>1, ElementOfSeq DEF Elements
        <2>3. QED
            BY <2>2 DEF PositiveEntries, NegativeEntries
    <1>3. CASE verdict = NotVault
        <2> DEFINE new == [key |-> t, expires |-> now + NegativeTtl]
        <2>1. /\ negative' = Store(negative, new) /\ positive' = positive /\ pruneAt' = pruneAt
            BY <1>3 DEF KeepVerdict
        <2>2. PICK m \in 0..now : chain[t][m] = "plain" /\ now <= m + Reading
            BY <1>3 DEF Found, NotVault, Kinds
        <2>3. new \in NegativeEntries /\ new.key = t /\ new.expires = now + NegativeTtl
            BY <1>1, Numbers DEF NegativeEntries
        <2> HIDE DEF new
        <2>4. /\ Cache(Store(negative, new), NegativeEntries)
              /\ \A x \in Elements(Store(negative, new)) : x = new \/ x \in Elements(negative)
            BY <1>1, <2>3, Stored
        <2>5. Cache(negative', NegativeEntries) /\ \A x \in Elements(negative') : x = new \/ x \in Elements(negative)
            BY <2>1, <2>4
        <2>6. new.expires <= m + NegativeTtl + Reading
            <3>1. now \in Nat /\ m \in Nat /\ NegativeTtl \in Nat /\ Reading \in Nat
                BY <1>1, Numbers
            <3>2. QED
                BY <2>2, <2>3, <3>1
        <2>7. \A e \in Elements(positive) : new.expires - NegativeTtl >= e.expires - PositiveTtl
            <3>1. now \in Nat /\ NegativeTtl \in Nat /\ PositiveTtl \in Nat
                BY <1>1, Numbers
            <3>2. \A e \in Elements(positive) : e.expires \in Nat /\ e.expires <= now + PositiveTtl
                BY <1>1, <1>2 DEF CacheInv
            <3>3. new.expires - NegativeTtl = now
                BY <2>3, <3>1
            <3>4. QED
                BY <3>1, <3>2, <3>3
        <2>8. CacheInv'
            <3>1. \A n \in Elements(negative)' : \E i \in 0..now :
                      chain[n.key][i] = "plain" /\ n.expires <= i + NegativeTtl + Reading
                BY <1>1, <2>2, <2>3, <2>5, <2>6 DEF CacheInv, Elements
            <3>2. Elements(positive)' = Elements(positive) /\ Elements(negative)' = Elements(negative')
                BY <2>1 DEF Elements
            <3>3. \A e \in Elements(positive), n \in Elements(negative)' :
                      e.key = n.key => n.expires - NegativeTtl >= e.expires - PositiveTtl
                BY <1>1, <2>5, <2>7, <3>2 DEF CacheInv
            <3>4. QED
                BY <1>1, <3>1, <3>2, <3>3 DEF CacheInv
        <2>9. QED
            BY <1>1, <2>1, <2>5, <2>8 DEF Cache, Unique, PositiveEntries, NegativeEntries
    <1>4. CASE verdict # NotVault
        <2>1. PICK kind \in Kinds, s \in 0..now :
                  verdict = [kind |-> kind, rate |-> s] /\ chain[t][s] = kind /\ now <= s + Reading
            BY <1>4 DEF Found
        <2> DEFINE new == [key |-> t, kind |-> kind, rate |-> s, expires |-> now + PositiveTtl]
        <2>2. verdict.kind = kind /\ verdict.rate = s
            BY <2>1
        <2>3. /\ positive' = Store(positive, new) /\ negative' = Without(negative, t) /\ pruneAt' = pruneAt
            BY <1>4, <2>2 DEF KeepVerdict
        <2>4. /\ new \in PositiveEntries /\ new.key = t /\ new.expires = now + PositiveTtl
              /\ new.kind = kind /\ new.rate = s
            <3>1. s \in 0..MaxTime /\ now + PositiveTtl \in Nat
                BY <1>1, Numbers
            <3>2. QED
                BY <3>1 DEF PositiveEntries
        <2> HIDE DEF new
        <2>5. /\ Cache(Store(positive, new), PositiveEntries)
              /\ \A x \in Elements(Store(positive, new)) : x = new \/ (x \in Elements(positive) /\ x.key # t)
            BY <1>1, <2>4, Stored
        <2>6. /\ Cache(Without(negative, t), NegativeEntries)
              /\ Elements(Without(negative, t)) = {x \in Elements(negative) : x.key # t}
            BY <1>1, WithoutKey
        <2>7. /\ Cache(positive', PositiveEntries) /\ Cache(negative', NegativeEntries)
              /\ \A x \in Elements(positive') : x = new \/ (x \in Elements(positive) /\ x.key # t)
              /\ \A x \in Elements(negative') : x \in Elements(negative) /\ x.key # t
            BY <2>3, <2>5, <2>6
        <2>8. new.expires <= new.rate + PositiveTtl + Reading
            <3>1. now \in Nat /\ s \in Nat /\ PositiveTtl \in Nat /\ Reading \in Nat
                BY <1>1, Numbers
            <3>2. QED
                BY <2>1, <2>4, <3>1
        <2>9. Elements(positive)' = Elements(positive') /\ Elements(negative)' = Elements(negative')
            BY DEF Elements
        <2>10. CacheInv'
            <3>1. \A e \in Elements(positive') :
                      /\ chain[e.key][e.rate] = e.kind
                      /\ e.expires <= e.rate + PositiveTtl + Reading
                      /\ e.expires <= now + PositiveTtl
                <4>1. new.expires <= now + PositiveTtl
                    BY <1>1, <2>4, Numbers
                <4>2. QED
                    BY <1>1, <2>1, <2>4, <2>7, <2>8, <4>1 DEF CacheInv
            <3>2. \A n \in Elements(negative') : \E i \in 0..now :
                      chain[n.key][i] = "plain" /\ n.expires <= i + NegativeTtl + Reading
                BY <1>1, <2>7 DEF CacheInv
            <3>3. \A e \in Elements(positive'), n \in Elements(negative') :
                      e.key = n.key => n.expires - NegativeTtl >= e.expires - PositiveTtl
                BY <1>1, <2>4, <2>7 DEF CacheInv
            <3>4. QED
                BY <2>9, <3>1, <3>2, <3>3 DEF CacheInv
        <2>11. QED
            BY <1>1, <2>3, <2>7, <2>10 DEF Cache, Unique, PositiveEntries, NegativeEntries
    <1>5. QED
        BY <1>3, <1>4

\* A detection that comes to a verdict caches it, gives it and returns its permit.
LEMMA Concluded ==
    ASSUME IInv, NEW r \in Requests, Pc(r) \in Calls \ {"block"}, NEW verdict,
           Found(Token(r), verdict), Conclude(r, verdict)
    PROVE  IInv'
    <1>1. /\ Answer(r, verdict) /\ KeepVerdict(Token(r), verdict)
          /\ inside' = inside \ {r} /\ line' = line /\ UNCHANGED <<now, chain, units>>
        BY DEF Conclude
    <1>2. /\ StageInv(task[r]) /\ KeptInv(r, task[r]) /\ LineInv /\ line \in Seq(Requests)
          /\ now \in 0..MaxTime /\ now \in Nat /\ task[r] \in Slots
        BY Numbers DEF IInv, RequestInv, Typed
    <1>3. Undecided(r) /\ Pc(r) \in Sought
        BY <1>2 DEF StageInv, Sought, Undecided, Pc
    <1>4. Token(r) \in Tokens
        BY <1>2, <1>3, SlotParts DEF Undecided, Token, Subject
    <1>5. ~InLine(r)
        BY <1>2 DEF KeptInv, Pc, Calls
    <1>6. line' \in Seq(Requests) /\ LineInv' /\ \A q : InLine(q)' <=> InLine(q) /\ q # r
        <2>1. LineInv' /\ \A q : InLine(q)' <=> InLine(q)
            BY <1>1, <1>2 DEF LineInv, InLine
        <2>2. QED
            BY <1>1, <1>2, <1>5, <2>1
    <1>7. /\ Cache(positive, PositiveEntries)' /\ Cache(negative, NegativeEntries)' /\ pruneAt' \in Nat
          /\ CacheInv'
        BY <1>1, <1>4, VerdictKept
    <1>8. /\ verdict.kind \in Kinds \cup {"plain"} /\ verdict.rate \in 0..MaxTime
          /\ WasTrue(Token(r), [kind |-> verdict.kind, rate |-> verdict.rate, at |-> now])
        <2>1. CASE verdict = NotVault
            <3>1. verdict.kind = "plain" /\ verdict.rate = 0
                BY <2>1 DEF NotVault
            <3>2. PICK m \in 0..now : chain[Token(r)][m] = "plain" /\ now <= m + Reading
                BY <2>1 DEF Found, NotVault, Kinds
            <3>3. now < m + NegativeTtl + Reading
                <4>1. m \in Nat /\ NegativeTtl \in Nat \ {0} /\ Reading \in Nat
                    BY Numbers
                <4>2. QED
                    BY <1>2, <3>2, <4>1
            <3>4. QED
                BY <3>1, <3>2, <3>3, Numbers DEF WasTrue, Kinds
        <2>2. CASE verdict # NotVault
            <3>1. PICK kind \in Kinds, s \in 0..now :
                      verdict = [kind |-> kind, rate |-> s] /\ chain[Token(r)][s] = kind /\ now <= s + Reading
                BY <2>2 DEF Found
            <3>2. verdict.kind = kind /\ verdict.rate = s
                BY <3>1
            <3>3. s \in 0..MaxTime
                BY <1>2, Numbers
            <3>4. now < s + PositiveTtl + Reading
                <4>1. s \in Nat /\ PositiveTtl \in Nat \ {0} /\ Reading \in Nat
                    BY Numbers
                <4>2. QED
                    BY <1>2, <3>1, <4>1
            <3>5. QED
                BY <3>1, <3>2, <3>3, <3>4 DEF WasTrue
        <2>3. QED
            BY <2>1, <2>2
    <1>9. QED
        BY <1>1, <1>3, <1>6, <1>7, <1>8, Answered

\* The detection of a request ends with a verdict that was found.
Decided(r) == \E verdict : Found(Token(r), verdict) /\ Conclude(r, verdict)

\* The steps of the adapters that lead to a verdict.
LEMMA VerdictsFound ==
    ASSUME IInv, NEW r \in Requests,
           \/ InterfaceMissing(r) /\ task[r].kind # "erc4626"
           \/ ConversionRead(r) \/ RateRead(r)
    PROVE  /\ Pc(r) \in Calls \ {"block"}
           /\ Decided(r)
    <1>1. /\ Pc(r) \in Calls \ {"block"}
        BY DEF InterfaceMissing, ConversionRead, RateRead, Reaches, Calls
    <1>2. /\ task[r] \in Slots /\ now \in Nat /\ chain \in Histories /\ StageInv(task[r])
          /\ CallLife \in Nat /\ Reading = 2 * CallLife
        BY Numbers DEF IInv, Typed, RequestInv
    <1>3. /\ Token(r) \in Tokens /\ Token(r) = Subject(task[r])
          /\ task[r].since \in Nat /\ now <= task[r].since + CallLife /\ task[r].since <= now
        BY <1>1, <1>2, SlotParts DEF StageInv, Sought, Token, Subject, Pc
    <1>4. \A s \in Served(r) : s \in Nat /\ s \in 0..MaxTime /\ s \in 0..now /\ now <= s + CallLife
        BY <1>1, ServedLately
    <1>5. CASE InterfaceMissing(r) /\ task[r].kind # "erc4626"
        <2>1. PICK s \in Served(r) : ~IsVault(r, s)
            BY <1>5 DEF InterfaceMissing
        <2>2. /\ Pc(r) = "multicall" /\ task[r].kind = "yearn_v2" /\ Conclude(r, NotVault)
            BY <1>5 DEF InterfaceMissing, Reaches
        <2>3. PICK m \in 0..task[r].since : chain[Token(r)][m] # "erc4626" /\ task[r].since <= m + CallLife
            BY <1>2, <1>3, <2>2 DEF StageInv, Pc
        <2>4. chain[Token(r)][s] # "yearn_v2"
            BY <2>1, <2>2 DEF IsVault
        <2>5. m \in 0..now /\ m \in 0..MaxTime /\ now <= m + Reading
            <3>1. now <= MaxTime /\ MaxTime \in Nat
                BY Numbers DEF IInv, Typed
            <3>2. QED
                BY <1>2, <1>3, <2>3, <3>1
        <2>6. s \in 0..now /\ now <= s + Reading
            BY <1>2, <1>4, <2>1
        <2>7. chain[Token(r)][m] = "plain" \/ chain[Token(r)][s] = "plain"
            BY <1>2, <1>3, <1>4, <2>1, <2>3, <2>4, <2>5, OneKind
        <2>8. Found(Token(r), NotVault)
            BY <2>5, <2>6, <2>7 DEF Found
        <2>9. QED
            BY <1>1, <2>2, <2>8 DEF Decided
    <1>6. ASSUME NEW kind \in Kinds, NEW s \in 0..now, chain[Token(r)][s] = kind, now <= s + Reading,
                 Conclude(r, [kind |-> kind, rate |-> s])
          PROVE  Decided(r)
        <2>1. Found(Token(r), [kind |-> kind, rate |-> s])
            BY <1>6 DEF Found
        <2>2. QED
            BY <1>6, <2>1 DEF Decided
    <1>7. ASSUME NEW s \in Served(r), IsVault(r, s), Conclude(r, [kind |-> task[r].kind, rate |-> s])
          PROVE  Decided(r)
        <2>1. s \in 0..now /\ now <= s + Reading
            BY <1>2, <1>4
        <2>2. task[r].kind \in Kinds /\ chain[Token(r)][s] = task[r].kind
            BY <1>2, <1>7, SlotParts DEF IsVault
        <2>3. QED
            BY <1>6, <1>7, <2>1, <2>2
    <1>8. CASE ConversionRead(r) /\ task[r].kind = "erc4626"
        BY <1>1, <1>7, <1>8 DEF ConversionRead
    <1>9. CASE ConversionRead(r) /\ task[r].kind # "erc4626"
        <2> DEFINE s == task[r].rate
        <2>1. /\ Pc(r) = "conversion" /\ task[r].kind = "yearn_v2" /\ Conclude(r, [kind |-> "yearn_v2", rate |-> s])
            BY <1>9 DEF ConversionRead, Reaches
        <2>2. s \in Nat
            BY <1>2, SlotParts, Numbers
        <2>3. chain[Token(r)][s] = "yearn_v2" /\ s <= task[r].since /\ task[r].since <= s + CallLife
            BY <1>2, <1>3, <2>1 DEF StageInv, Pc
        <2> HIDE DEF s
        <2>4. s \in 0..now /\ now <= s + Reading
            BY <1>2, <1>3, <2>2, <2>3
        <2>5. QED
            BY <1>1, <1>6, <2>1, <2>3, <2>4 DEF Kinds
    <1>10. CASE RateRead(r)
        BY <1>1, <1>7, <1>10 DEF RateRead
    <1>11. QED
        BY <1>5, <1>8, <1>9, <1>10

\* They keep the invariant.
LEMMA AdaptersDecide ==
    ASSUME IInv, NEW r \in Requests,
           \/ InterfaceMissing(r) /\ task[r].kind # "erc4626"
           \/ ConversionRead(r) \/ RateRead(r)
    PROVE  IInv'
    <1>1. /\ Pc(r) \in Calls \ {"block"}
          /\ Decided(r)
        BY VerdictsFound
    <1>2. PICK verdict : Found(Token(r), verdict) /\ Conclude(r, verdict)
        BY <1>1 DEF Decided
    <1>3. QED
        BY <1>1, <1>2, Concluded

-----------------------------------------------------------------------------
(* Starting to look, or standing in line to.                               *)

\* Slots whose request has a call under way now.
LEMMA Sent ==
    ASSUME IInv, NEW r \in Requests, NEW pc \in Calls, Send(r, pc)
    PROVE  \E next \in Slots :
              /\ task' = [task EXCEPT ![r] = next]
              /\ next.pc = pc /\ next.since = now /\ next.kind = task[r].kind
              /\ next.legs = task[r].legs /\ next.answers = task[r].answers
    <1> DEFINE next == [task[r] EXCEPT !.pc = pc, !.since = now]
    <1>1. task[r] \in Slots /\ task \in [Requests -> Slots] /\ now \in 0..MaxTime
        BY DEF IInv, Typed
    <1>2. next \in Slots
        BY <1>1 DEF Slots
    <1>3. task' = [task EXCEPT ![r] = next]
        BY <1>1 DEF Send
    <1>4. /\ next.pc = pc /\ next.since = now /\ next.kind = task[r].kind
          /\ next.legs = task[r].legs /\ next.answers = task[r].answers
        BY <1>1 DEF Slots
    <1> HIDE DEF next
    <1>5. QED
        BY <1>2, <1>3, <1>4

\* A detection starts with a permit, at once or from the line.
LEMMA SearchStarts ==
    ASSUME IInv, NEW r \in Requests,
           \/ EnterDetection(r)
           \/ Dequeue(r) /\ ~Cached(Token(r))
    PROVE  IInv'
    <1>1. /\ Send(r, "multicall") /\ Lookup(Token(r)) /\ inside' = inside \cup {r}
          /\ UNCHANGED <<now, chain, units>>
        BY DEF EnterDetection, Dequeue
    <1>2. /\ StageInv(task[r]) /\ FreshInv(task[r]) /\ KeptInv(r, task[r]) /\ LineInv /\ line \in Seq(Requests)
          /\ Cache(positive, PositiveEntries) /\ Cache(negative, NegativeEntries) /\ pruneAt \in Nat
          /\ now \in Nat /\ CacheInv
        BY Numbers DEF IInv, RequestInv, Typed
    <1>3. /\ line' \in Seq(Requests) /\ LineInv' /\ \A q : InLine(q)' <=> InLine(q) /\ q # r
          /\ Undecided(r) /\ Pc(r) \in {"queued", "detect"}
        <2>1. CASE EnterDetection(r)
            <3>1. Pc(r) = "detect" /\ Undecided(r) /\ line' = line
                BY <2>1 DEF EnterDetection
            <3>2. ~InLine(r)
                BY <1>2, <3>1 DEF KeptInv, Pc
            <3>3. LineInv' /\ \A q : InLine(q)' <=> InLine(q)
                BY <1>2, <3>1 DEF LineInv, InLine
            <3>4. QED
                BY <1>2, <3>1, <3>2, <3>3
        <2>2. CASE Dequeue(r)
            <3>1. line # <<>> /\ r = Head(line) /\ line' = Tail(line)
                BY <2>2 DEF Dequeue
            <3>2. /\ line' \in Seq(Requests) /\ LineInv' /\ InLine(r)
                  /\ \A q : InLine(q)' <=> InLine(q) /\ q # r
                BY <1>2, <3>1, AdvanceLine
            <3>3. Pc(r) = "queued"
                BY <1>2, <3>2 DEF KeptInv, Pc
            <3>4. Undecided(r)
                BY <1>2, <3>3 DEF StageInv, Pc, Sought, Undecided
            <3>5. QED
                BY <3>2, <3>3, <3>4
        <2>3. QED
            BY <2>1, <2>2
    <1>4. /\ Cache(positive, PositiveEntries)' /\ Elements(positive') \subseteq Elements(positive)
          /\ Cache(negative, NegativeEntries)' /\ Elements(negative') \subseteq Elements(negative)
          /\ pruneAt' \in Nat
        BY <1>1, <1>2, LookedUp
    <1>5. CacheInv'
        BY <1>1, <1>2, <1>4, FewerEntries DEF Elements
    <1>6. PICK next \in Slots :
              /\ task' = [task EXCEPT ![r] = next]
              /\ next.pc = "multicall" /\ next.since = now /\ next.kind = task[r].kind
              /\ next.legs = task[r].legs /\ next.answers = task[r].answers
        BY <1>1, Sent DEF Calls
    <1>7. StageInv(next)
        <2>1. next.kind = "erc4626" /\ next.legs \in Asks
            BY <1>2, <1>3, <1>6 DEF StageInv, Pc, Calls
        <2>2. Len(next.answers) < Len(next.legs) /\ Len(next.answers) <= Len(next.legs)
            BY <1>2, <1>3, <1>6 DEF StageInv, Undecided
        <2>3. next.since <= now /\ now <= next.since + CallLife
            BY <1>2, <1>6, Numbers
        <2>4. QED
            BY <1>6, <2>1, <2>2, <2>3 DEF StageInv, Calls
    <1>8. FreshInv(next)
        BY <1>2, <1>6 DEF FreshInv
    <1>9. /\ held' = held /\ load' = load /\ held[r]["vault"] = Len(next.legs)
          /\ next.pc \notin Outcomes \cup {"idle", "waiting", "queued"} /\ next.pc \in Calls \ {"block"}
        BY <1>1, <1>2, <1>3, <1>6 DEF KeptInv, units, Outcomes, Calls, Pc
    <1>10. inside' \subseteq Requests /\ r \in inside' /\ \A q \in Requests \ {r} : q \in inside' <=> q \in inside
        BY <1>1 DEF IInv, Typed
    <1>11. QED
        BY <1>1, <1>3, <1>4, <1>5, <1>6, <1>7, <1>8, <1>9, <1>10, OneMoves DEF IInv, Typed

\* A request stands in line when no permit is free.
LEMMA QueueUpKeeps ==
    ASSUME IInv, NEW r \in Requests, QueueUp(r)
    PROVE  IInv'
    <1> DEFINE next == [task[r] EXCEPT !.pc = "queued"]
    <1>1. /\ Pc(r) = "detect" /\ Undecided(r) /\ task' = [task EXCEPT ![r].pc = "queued"]
          /\ line' = Append(line, r) /\ Lookup(Token(r)) /\ UNCHANGED <<now, chain, units>> /\ inside' = inside
        BY DEF QueueUp
    <1>2. /\ StageInv(task[r]) /\ FreshInv(task[r]) /\ KeptInv(r, task[r]) /\ LineInv /\ line \in Seq(Requests)
          /\ Cache(positive, PositiveEntries) /\ Cache(negative, NegativeEntries) /\ pruneAt \in Nat
          /\ now \in Nat /\ CacheInv /\ task[r] \in Slots /\ task \in [Requests -> Slots]
        BY Numbers DEF IInv, RequestInv, Typed
    <1>3. ~InLine(r) /\ r \notin inside /\ held[r]["vault"] = Len(task[r].legs)
        BY <1>1, <1>2 DEF KeptInv, Pc, Calls, Outcomes
    <1>4. line' \in Seq(Requests) /\ LineInv' /\ \A q : InLine(q)' <=> InLine(q) \/ q = r
        BY <1>1, <1>2, <1>3, JoinLine
    <1>5. /\ Cache(positive, PositiveEntries)' /\ Elements(positive') \subseteq Elements(positive)
          /\ Cache(negative, NegativeEntries)' /\ Elements(negative') \subseteq Elements(negative)
          /\ pruneAt' \in Nat
        BY <1>1, <1>2, LookedUp
    <1>6. CacheInv'
        BY <1>1, <1>2, <1>5, FewerEntries DEF Elements
    <1>7. next \in Slots
        BY <1>2 DEF Slots
    <1>8. task' = [task EXCEPT ![r] = next]
        BY <1>1, <1>2
    <1>9. /\ next.pc = "queued" /\ next.since = task[r].since /\ next.kind = task[r].kind
          /\ next.legs = task[r].legs /\ next.answers = task[r].answers
        BY <1>2 DEF Slots
    <1> HIDE DEF next
    <1>10. StageInv(next)
        BY <1>1, <1>2, <1>9 DEF StageInv, Pc, Calls, Undecided
    <1>11. FreshInv(next)
        BY <1>2, <1>9 DEF FreshInv
    <1>12. /\ held' = held /\ load' = load /\ held[r]["vault"] = Len(next.legs)
           /\ next.pc \notin Outcomes \cup {"idle", "waiting"} /\ next.pc \notin Calls
        BY <1>1, <1>3, <1>9 DEF units, Outcomes, Calls
    <1>13. QED
        BY <1>1, <1>3, <1>4, <1>5, <1>6, <1>7, <1>8, <1>9, <1>10, <1>11, <1>12, OneMoves DEF IInv, Typed

\* With a vault among its tokens a request asks for the block.
LEMMA AskBlockKeeps ==
    ASSUME IInv, NEW r \in Requests, AskBlock(r)
    PROVE  IInv'
    <1>1. Pc(r) = "detect" /\ Send(r, "block") /\ SlotsOnly
        BY DEF AskBlock, SlotsOnly
    <1>2. /\ StageInv(task[r]) /\ FreshInv(task[r]) /\ KeptInv(r, task[r]) /\ now \in Nat
        BY Numbers DEF IInv, RequestInv, Typed
    <1>3. PICK next \in Slots :
              /\ task' = [task EXCEPT ![r] = next]
              /\ next.pc = "block" /\ next.since = now /\ next.kind = task[r].kind
              /\ next.legs = task[r].legs /\ next.answers = task[r].answers
        BY <1>1, Sent DEF Calls
    <1>4. StageInv(next)
        <2>1. next.since <= now /\ now <= next.since + CallLife
            BY <1>2, <1>3, Numbers
        <2>2. QED
            BY <1>1, <1>2, <1>3, <2>1 DEF StageInv, Pc, Calls, Sought
    <1>5. FreshInv(next)
        BY <1>2, <1>3 DEF FreshInv
    <1>6. /\ held[r]["vault"] = Len(next.legs) /\ r \notin inside /\ ~InLine(r)
          /\ next.pc \notin Outcomes \cup {"idle", "waiting", "queued"} /\ next.pc \notin Calls \ {"block"}
        BY <1>1, <1>2, <1>3 DEF KeptInv, Pc, Calls, Outcomes
    <1>7. QED
        BY <1>1, <1>3, <1>4, <1>5, <1>6, SlotsOnlyKeeps, OneMoves

-----------------------------------------------------------------------------
(* Ways in and out.                                                        *)

\* A request that is over, or has no units yet, has nothing of what is shared.
LEMMA OutKeeps ==
    ASSUME IInv, NEW r \in Requests, NEW next \in Slots, task' = [task EXCEPT ![r] = next],
           UNCHANGED <<now, chain, caches>>,
           next.pc \in Outcomes \cup {"idle", "waiting"}, StageInv(next), FreshInv(next),
           held' \in [Requests -> [{"vault"} -> Nat]], load' \in [{"vault"} -> Int],
           held'[r]["vault"] = 0, \A q \in Requests \ {r} : held'[q] = held[q],
           inside' = inside \ {r},
           line' \in Seq(Requests), LineInv', \A q : InLine(q)' <=> InLine(q) /\ q # r
    PROVE  IInv'
    <1>1. positive' = positive /\ negative' = negative /\ pruneAt' = pruneAt /\ now' = now /\ chain' = chain
        BY DEF caches
    <1>2. CacheInv'
        BY <1>1 DEF IInv, CacheInv
    <1>3. Cache(positive, PositiveEntries)' /\ Cache(negative, NegativeEntries)' /\ pruneAt' \in Nat
        BY <1>1 DEF IInv, Typed, Cache, Unique, PositiveEntries, NegativeEntries
    <1>4. next.pc \notin Calls /\ next.pc # "queued"
        BY DEF Calls, Outcomes
    <1>5. inside' \subseteq Requests
        BY DEF IInv, Typed
    <1>6. QED
        BY <1>1, <1>2, <1>3, <1>4, <1>5, OneMoves

\* Units that are returned are no longer held, and the others' are left alone.
LEMMA Returned ==
    ASSUME IInv, NEW r \in Requests, Gate!Return(r, "vault")
    PROVE  /\ held' \in [Requests -> [{"vault"} -> Nat]] /\ load' \in [{"vault"} -> Int]
           /\ held'[r]["vault"] = 0 /\ \A q \in Requests \ {r} : held'[q] = held[q]
    <1>1. /\ held \in [Requests -> [{"vault"} -> Nat]] /\ load \in [{"vault"} -> Int]
          /\ held' = [held EXCEPT ![r]["vault"] = 0] /\ load' = [load EXCEPT !["vault"] = @ - held[r]["vault"]]
        BY DEF IInv, Typed, Gate!Return
    <1>2. held[r]["vault"] \in Int /\ load["vault"] \in Int
        BY <1>1
    <1>3. load' \in [{"vault"} -> Int]
        BY <1>1, <1>2
    <1>4. QED
        BY <1>1, <1>3

\* Units that are granted are held, and the others' are left alone.
LEMMA Granted ==
    ASSUME IInv, NEW r \in Requests, NEW u \in Nat, Gate!Grant(r, "vault", u)
    PROVE  /\ held' \in [Requests -> [{"vault"} -> Nat]] /\ load' \in [{"vault"} -> Int]
           /\ held'[r]["vault"] = u /\ \A q \in Requests \ {r} : held'[q] = held[q]
    <1>1. /\ held \in [Requests -> [{"vault"} -> Nat]] /\ load \in [{"vault"} -> Int]
          /\ held' = [held EXCEPT ![r]["vault"] = u] /\ load' = [load EXCEPT !["vault"] = @ + u]
        BY DEF IInv, Typed, Gate!Grant
    <1>2. load["vault"] + u \in Int
        BY <1>1
    <1>3. load' \in [{"vault"} -> Int]
        BY <1>1, <1>2
    <1>4. QED
        BY <1>1, <1>3

\* A request whose resolution ends keeps what it has found out.
LEMMA Over ==
    ASSUME IInv, NEW r \in Requests, Pc(r) # "idle", NEW next \in Slots,
           next.pc \in Outcomes, next.legs = task[r].legs, next.answers = task[r].answers,
           next.kind = "erc4626", next.since \in 0..now
    PROVE  StageInv(next) /\ FreshInv(next)
    <1>1. StageInv(task[r]) /\ FreshInv(task[r]) /\ now \in Nat
        BY Numbers DEF IInv, Typed, RequestInv
    <1>2. StageInv(next)
        BY <1>1 DEF StageInv, Pc, Outcomes, Calls, Sought
    <1>3. FreshInv(next)
        BY <1>1 DEF FreshInv
    <1>4. QED
        BY <1>2, <1>3

\* Whichever way a resolution with units ends, it gives them back.
LEMMA FinishKeeps ==
    ASSUME IInv, NEW r \in Requests, Pc(r) # "idle", NEW outcome \in Outcomes, Finish(r, outcome),
           UNCHANGED <<now, chain, caches>>, inside' = inside \ {r},
           line' \in Seq(Requests), LineInv', \A q : InLine(q)' <=> InLine(q) /\ q # r
    PROVE  IInv'
    <1> DEFINE next == [task[r] EXCEPT !.pc = outcome, !.since = 0, !.kind = "erc4626"]
    <1>1. task[r] \in Slots /\ task \in [Requests -> Slots] /\ now \in Nat
        BY Numbers DEF IInv, Typed
    <1>2. next \in Slots
        BY <1>1, Numbers DEF Slots, Kinds
    <1>3. task' = [task EXCEPT ![r] = next]
        BY <1>1 DEF Finish
    <1>4. /\ next.pc = outcome /\ next.since \in 0..now /\ next.kind = "erc4626"
          /\ next.legs = task[r].legs /\ next.answers = task[r].answers
        BY <1>1 DEF Slots
    <1> HIDE DEF next
    <1>5. StageInv(next) /\ FreshInv(next)
        BY <1>2, <1>4, Over
    <1>6. Gate!Return(r, "vault")
        BY DEF Finish
    <1>7. QED
        BY <1>2, <1>3, <1>4, <1>5, <1>6, Returned, OutKeeps

\* A request that is neither inside nor in line leaves neither.
LEMMA NotInside ==
    ASSUME IInv, NEW r \in Requests, Pc(r) \notin Calls \ {"block"}, Pc(r) # "queued", UNCHANGED permits
    PROVE  /\ inside' = inside \ {r}
           /\ line' \in Seq(Requests) /\ LineInv' /\ \A q : InLine(q)' <=> InLine(q) /\ q # r
    <1>1. r \notin inside /\ ~InLine(r) /\ line' = line /\ inside' = inside
        BY DEF IInv, RequestInv, KeptInv, Pc, permits
    <1>2. LineInv' /\ \A q : InLine(q)' <=> InLine(q)
        BY <1>1 DEF IInv, LineInv, InLine
    <1>3. QED
        BY <1>1, <1>2 DEF IInv, Typed

\* What the end of a block read does.
LEMMA BlockReadDoes ==
    ASSUME NEW r \in Requests, BlockRead(r)
    PROVE  /\ Pc(r) = "block"
           /\ \E s \in Served(r) :
                 task' = [task EXCEPT ![r].pc = "RESOLVED", ![r].block = s, ![r].since = 0]
           /\ Gate!Return(r, "vault")
           /\ UNCHANGED <<now, chain, permits, caches>>
    BY Zenon DEF BlockRead, Reaches

\* Where a resolution ends, with units in hand.
LEMMA EndsKeep ==
    ASSUME IInv, NEW r \in Requests, NoVaults(r) \/ DetectionFails(r) \/ BlockRead(r)
    PROVE  IInv'
    <1>1. UNCHANGED <<now, chain, caches>>
        BY BlockReadDoes DEF NoVaults, DetectionFails
    <1>2. CASE NoVaults(r)
        <2>1. Pc(r) = "detect" /\ Finish(r, "NOT_VAULT") /\ UNCHANGED permits
            BY <1>2 DEF NoVaults
        <2>2. QED
            BY <1>1, <2>1, NotInside, FinishKeeps DEF Calls, Outcomes
    <1>3. CASE DetectionFails(r)
        <2>1. /\ Pc(r) \in Calls /\ Finish(r, "FAILED") /\ inside' = inside \ {r} /\ line' = line
            BY <1>3 DEF DetectionFails
        <2>2. ~InLine(r)
            BY <2>1 DEF IInv, RequestInv, KeptInv, Pc, Calls
        <2>3. LineInv' /\ \A q : InLine(q)' <=> InLine(q)
            BY <2>1 DEF IInv, LineInv, InLine
        <2>4. line' \in Seq(Requests)
            BY <2>1 DEF IInv, Typed
        <2>5. Pc(r) # "idle" /\ "FAILED" \in Outcomes
            BY <2>1 DEF Calls, Outcomes
        <2>6. QED
            BY <1>1, <2>1, <2>2, <2>3, <2>4, <2>5, FinishKeeps
    <1>4. CASE BlockRead(r)
        <2>1. /\ Pc(r) = "block" /\ Gate!Return(r, "vault") /\ UNCHANGED permits
            BY <1>4, BlockReadDoes
        <2>2. PICK s \in Served(r) :
                  task' = [task EXCEPT ![r].pc = "RESOLVED", ![r].block = s, ![r].since = 0]
            BY <1>4, BlockReadDoes
        <2> DEFINE next == [task[r] EXCEPT !.pc = "RESOLVED", !.block = s, !.since = 0, !.kind = task[r].kind]
        <2>3. s \in 0..MaxTime
            BY <2>1, ServedLately DEF Calls
        <2>4. task[r] \in Slots /\ task \in [Requests -> Slots] /\ now \in Nat /\ 0 \in 0..MaxTime
            BY Numbers DEF IInv, Typed
        <2>5. next \in Slots
            BY <2>3, <2>4 DEF Slots, Outcomes
        <2>6. task' = [task EXCEPT ![r] = next]
            BY <2>2, <2>4 DEF Slots
        <2>7. /\ next.pc = "RESOLVED" /\ next.since \in 0..now /\ next.kind = task[r].kind
              /\ next.legs = task[r].legs /\ next.answers = task[r].answers
            BY <2>4 DEF Slots
        <2> HIDE DEF next
        <2>8. task[r].kind = "erc4626"
            BY <2>1 DEF IInv, RequestInv, StageInv, Pc
        <2>9. StageInv(next) /\ FreshInv(next)
            BY <2>1, <2>5, <2>7, <2>8, Over DEF Outcomes
        <2>10. QED
            BY <1>1, <2>1, <2>5, <2>6, <2>7, <2>9, NotInside, Returned, OutKeeps DEF Outcomes, Calls
    <1>5. QED
        BY <1>2, <1>3, <1>4

\* A request without units goes: nothing is due back.
LEMMA WaiterLeaves ==
    ASSUME IInv, NEW r \in Requests, Pc(r) = "waiting", NEW outcome \in Outcomes,
           task' = [task EXCEPT ![r].pc = outcome], UNCHANGED <<now, chain, caches, units>>,
           inside' = inside \ {r},
           line' \in Seq(Requests), LineInv', \A q : InLine(q)' <=> InLine(q) /\ q # r
    PROVE  IInv'
    <1> DEFINE next == [task[r] EXCEPT !.pc = outcome]
    <1>1. /\ task[r] \in Slots /\ task \in [Requests -> Slots] /\ now \in Nat
          /\ StageInv(task[r]) /\ KeptInv(r, task[r])
        BY Numbers DEF IInv, Typed, RequestInv
    <1>2. next \in Slots
        BY <1>1 DEF Slots
    <1>3. task' = [task EXCEPT ![r] = next]
        BY <1>1
    <1>4. /\ next.pc = outcome /\ next.since = task[r].since /\ next.kind = task[r].kind
          /\ next.legs = task[r].legs /\ next.answers = task[r].answers
        BY <1>1 DEF Slots
    <1> HIDE DEF next
    <1>5. task[r].since \in 0..now /\ task[r].kind = "erc4626"
        BY <1>1, SlotParts DEF StageInv, Pc, Calls
    <1>6. StageInv(next) /\ FreshInv(next)
        BY <1>2, <1>4, <1>5, Over
    <1>7. /\ held' = held /\ load' = load /\ held[r]["vault"] = 0
          /\ held \in [Requests -> [{"vault"} -> Nat]] /\ load \in [{"vault"} -> Int]
        BY <1>1 DEF KeptInv, Pc, units, IInv, Typed
    <1>8. QED
        BY <1>2, <1>3, <1>4, <1>6, <1>7, OutKeeps

\* A request that is refused units, and one that is cancelled wherever it is.
LEMMA RefusedOrCancelled ==
    ASSUME IInv, NEW r \in Requests, Refuse(r) \/ Cancel(r)
    PROVE  IInv'
    <1>1. CASE Refuse(r)
        <2>1. /\ Pc(r) = "waiting" /\ task' = [task EXCEPT ![r].pc = "FAILED"]
              /\ UNCHANGED <<now, chain, permits, caches, units>>
            BY <1>1 DEF Refuse
        <2>2. QED
            BY <2>1, NotInside, WaiterLeaves DEF Calls, Outcomes
    <1>2. CASE Cancel(r)
        <2>1. /\ inside' = inside \ {r} /\ line' = Only(line, {i \in DOMAIN line : line[i] # r})
              /\ UNCHANGED <<now, chain, caches>>
            BY <1>2 DEF Cancel
        <2>2. line' \in Seq(Requests) /\ LineInv' /\ \A q : InLine(q)' <=> InLine(q) /\ q # r
            BY <2>1, LeaveLine DEF IInv, Typed
        <2>3. CASE Pc(r) = "waiting"
            <3>1. task' = [task EXCEPT ![r].pc = "cancelled"] /\ UNCHANGED units
                BY <1>2, <2>3 DEF Cancel, Calls
            <3>2. QED
                BY <2>1, <2>2, <2>3, <3>1, WaiterLeaves DEF Outcomes
        <2>4. CASE Pc(r) # "waiting"
            <3>1. Finish(r, "cancelled") /\ Pc(r) # "idle"
                BY <1>2, <2>4 DEF Cancel, Calls
            <3>2. QED
                BY <2>1, <2>2, <3>1, FinishKeeps DEF Outcomes
        <2>5. QED
            BY <2>3, <2>4
    <1>3. QED
        BY <1>1, <1>2

\* The slot of a request that went on is free again.
LEMMA EndKeeps ==
    ASSUME IInv, NEW r \in Requests, End(r)
    PROVE  IInv'
    <1>1. /\ Pc(r) \in Outcomes /\ task' = [task EXCEPT ![r] = Idle]
          /\ UNCHANGED <<now, chain, permits, caches, units>>
        BY DEF End
    <1>2. Idle \in Slots
        <2>1. <<>> \in Seq(Verdicts) /\ 0 \in 0..MaxTime
            BY EmptySeq, Numbers
        <2>2. QED
            BY <2>1 DEF Idle, Slots, Kinds
    <1>3. Idle.pc = "idle" /\ Idle.answers = <<>> /\ Idle.legs = <<>> /\ Idle.kind = "erc4626" /\ Idle.since = 0
        BY DEF Idle
    <1>4. StageInv(Idle) /\ FreshInv(Idle)
        <2>1. now \in Nat /\ Len(<<>>) = 0 /\ DOMAIN <<>> = {}
            BY Numbers, EmptySeq DEF IInv, Typed
        <2>2. QED
            BY <1>3, <2>1 DEF StageInv, FreshInv, Calls, Sought
    <1>5. /\ held' = held /\ load' = load /\ held[r]["vault"] = 0
          /\ held \in [Requests -> [{"vault"} -> Nat]] /\ load \in [{"vault"} -> Int]
        BY <1>1 DEF units, IInv, Typed, RequestInv, KeptInv, Pc
    <1>6. QED
        BY <1>1, <1>2, <1>3, <1>4, <1>5, NotInside, OutKeeps DEF Outcomes, Calls

\* A request that is granted its units detects.
LEMMA Admitted ==
    ASSUME IInv, NEW r \in Requests, Pc(r) \in {"idle", "waiting"}, NEW next \in Slots,
           task' = [task EXCEPT ![r] = next], next.pc = "detect", next.answers = <<>>,
           next.kind = "erc4626", next.since = task[r].since, next.legs \in Asks,
           Gate!Grant(r, "vault", Len(next.legs)), UNCHANGED <<now, chain, permits, caches>>
    PROVE  IInv'
    <1>1. /\ StageInv(task[r]) /\ KeptInv(r, task[r]) /\ now \in Nat
          /\ Len(next.legs) \in Nat /\ Len(next.answers) = 0
        BY Numbers, SlotParts, EmptySeq DEF IInv, Typed, RequestInv
    <1>2. StageInv(next)
        BY <1>1 DEF StageInv, Calls, Sought
    <1>3. FreshInv(next)
        <2>1. DOMAIN next.answers = {}
            BY EmptySeq
        <2>2. QED
            BY <2>1 DEF FreshInv
    <1>4. /\ held' \in [Requests -> [{"vault"} -> Nat]] /\ load' \in [{"vault"} -> Int]
          /\ held'[r]["vault"] = Len(next.legs) /\ \A q \in Requests \ {r} : held'[q] = held[q]
        BY <1>1, Granted
    <1>5. positive' = positive /\ negative' = negative /\ pruneAt' = pruneAt
          /\ inside' = inside /\ line' = line /\ now' = now /\ chain' = chain
        BY DEF caches, permits
    <1>6. CacheInv'
        BY <1>5 DEF IInv, CacheInv
    <1>7. Cache(positive, PositiveEntries)' /\ Cache(negative, NegativeEntries)' /\ pruneAt' \in Nat
        BY <1>5 DEF IInv, Typed, Cache, Unique, PositiveEntries, NegativeEntries
    <1>8. /\ line' \in Seq(Requests) /\ LineInv' /\ (\A q : InLine(q)' <=> InLine(q))
          /\ inside' \subseteq Requests
        BY <1>5 DEF IInv, Typed, LineInv, InLine
    <1>9. r \notin inside' /\ ~InLine(r)
        BY <1>1, <1>5 DEF KeptInv, Pc, Calls
    <1>10. next.pc \notin Outcomes \cup {"idle", "waiting", "queued"} /\ next.pc \notin Calls
        BY DEF Outcomes, Calls
    <1>11. QED
        BY <1>2, <1>3, <1>4, <1>5, <1>6, <1>7, <1>8, <1>9, <1>10, OneMoves

\* A request comes in, or gets the units it waited for.
LEMMA ComesIn ==
    ASSUME IInv, NEW r \in Requests,
           Admit(r) \/ \E legs \in Asks : Arrive(r, legs)
    PROVE  IInv'
    <1>1. /\ task[r] \in Slots /\ task \in [Requests -> Slots] /\ StageInv(task[r]) /\ KeptInv(r, task[r])
          /\ now \in Nat
        BY Numbers DEF IInv, Typed, RequestInv
    <1>2. CASE Admit(r)
        <2> DEFINE next == [task[r] EXCEPT !.pc = "detect"]
        <2>1. /\ Pc(r) = "waiting" /\ Gate!Grant(r, "vault", Len(task[r].legs))
              /\ task' = [task EXCEPT ![r].pc = "detect"] /\ UNCHANGED <<now, chain, permits, caches>>
            BY <1>2 DEF Admit
        <2>2. next \in Slots
            BY <1>1 DEF Slots
        <2>3. task' = [task EXCEPT ![r] = next]
            BY <1>1, <2>1
        <2>4. /\ next.pc = "detect" /\ next.since = task[r].since /\ next.kind = task[r].kind
              /\ next.legs = task[r].legs /\ next.answers = task[r].answers
            BY <1>1 DEF Slots
        <2> HIDE DEF next
        <2>5. task[r].answers = <<>> /\ task[r].legs \in Asks /\ task[r].kind = "erc4626"
            BY <1>1, <2>1 DEF StageInv, Pc, Calls
        <2>6. QED
            BY <2>1, <2>2, <2>3, <2>4, <2>5, Admitted
    <1>3. ASSUME NEW legs \in Asks, Arrive(r, legs) PROVE IInv'
        <2>1. /\ Pc(r) = "idle" /\ UNCHANGED <<now, chain, permits, caches>>
              /\ task[r].answers = <<>> /\ task[r].kind = "erc4626"
            BY <1>1, <1>3 DEF Arrive, StageInv, Pc, Calls
        <2>2. ASSUME NEW pc \in {"detect", "waiting"}, task' = [task EXCEPT ![r].pc = pc, ![r].legs = legs]
              PROVE  \E next \in Slots :
                        /\ task' = [task EXCEPT ![r] = next]
                        /\ next.pc = pc /\ next.since = task[r].since /\ next.kind = "erc4626"
                        /\ next.legs = legs /\ next.answers = <<>>
            <3> DEFINE next == [task[r] EXCEPT !.pc = pc, !.legs = legs]
            <3>1. next \in Slots
                BY <1>1 DEF Slots
            <3>2. task' = [task EXCEPT ![r] = next]
                BY <1>1, <2>2
            <3>3. /\ next.pc = pc /\ next.since = task[r].since /\ next.kind = task[r].kind
                  /\ next.legs = legs /\ next.answers = task[r].answers
                BY <1>1 DEF Slots
            <3> HIDE DEF next
            <3>4. QED
                BY <2>1, <3>1, <3>2, <3>3
        <2>3. CASE Gate!Grant(r, "vault", Len(legs)) /\ task' = [task EXCEPT ![r].pc = "detect", ![r].legs = legs]
            <3>1. PICK next \in Slots :
                        /\ task' = [task EXCEPT ![r] = next]
                        /\ next.pc = "detect" /\ next.since = task[r].since /\ next.kind = "erc4626"
                        /\ next.legs = legs /\ next.answers = <<>>
                BY <2>2, <2>3
            <3>2. QED
                BY <2>1, <2>3, <3>1, Admitted
        <2>4. CASE task' = [task EXCEPT ![r].pc = "waiting", ![r].legs = legs] /\ UNCHANGED units
            <3>1. PICK next \in Slots :
                        /\ task' = [task EXCEPT ![r] = next]
                        /\ next.pc = "waiting" /\ next.since = task[r].since /\ next.kind = "erc4626"
                        /\ next.legs = legs /\ next.answers = <<>>
                BY <2>2, <2>4
            <3>2. Len(next.answers) = 0 /\ Len(next.legs) \in Nat /\ DOMAIN next.answers = {}
                BY <3>1, SlotParts, EmptySeq
            <3>3. StageInv(next) /\ FreshInv(next)
                BY <1>1, <3>1, <3>2 DEF StageInv, FreshInv, Calls, Sought
            <3>4. /\ held' = held /\ load' = load /\ held[r]["vault"] = 0
                  /\ held \in [Requests -> [{"vault"} -> Nat]] /\ load \in [{"vault"} -> Int]
                BY <1>1, <2>1, <2>4 DEF units, IInv, Typed, KeptInv, Pc
            <3>5. QED
                BY <2>1, <3>1, <3>3, <3>4, NotInside, OutKeeps DEF Calls
        <2>5. QED
            BY <1>3, <2>3, <2>4 DEF Arrive
    <1>4. QED
        BY <1>2, <1>3

-----------------------------------------------------------------------------
(* All steps.                                                              *)

\* Time passes while no call is out for too long.
LEMMA TickKeeps ==
    ASSUME IInv, Tick
    PROVE  IInv'
    <1>1. /\ now' = now + 1 /\ now < MaxTime /\ now \in Nat /\ MaxTime \in Nat
          /\ UNCHANGED <<chain, task, permits, caches, units>>
        BY Numbers DEF Tick, IInv, Typed
    <1>2. /\ chain' = chain /\ task' = task /\ inside' = inside /\ line' = line
          /\ positive' = positive /\ negative' = negative /\ pruneAt' = pruneAt
          /\ load' = load /\ held' = held
        BY <1>1 DEF permits, caches, units
    <1>3. Typed'
        <2>1. now' \in 0..MaxTime
            BY <1>1
        <2>2. QED
            BY <1>2, <2>1 DEF IInv, Typed, Cache, Unique, PositiveEntries, NegativeEntries
    <1>4. LineInv'
        BY <1>2 DEF IInv, LineInv
    <1>5. CacheInv'
        <2>1. PositiveTtl \in Nat
            BY Numbers
        <2>2. \A e \in Elements(positive) : e.expires \in Nat
            <3>1. positive \in Seq(PositiveEntries)
                BY DEF IInv, Typed, Cache
            <3>2. \A e \in Elements(positive) : e \in PositiveEntries
                BY <3>1, ElementOfSeq DEF Elements
            <3>3. QED
                BY <3>2 DEF PositiveEntries
        <2>3. \A e \in Elements(positive) : e.expires <= now' + PositiveTtl
            <3>1. \A e \in Elements(positive) : e.expires <= now + PositiveTtl
                BY DEF IInv, CacheInv
            <3>2. QED
                BY <1>1, <2>1, <2>2, <3>1
        <2>4. \A m \in 0..now : m \in 0..now'
            BY <1>1
        <2>5. Elements(positive)' = Elements(positive) /\ Elements(negative)' = Elements(negative)
            BY <1>2 DEF Elements
        <2>6. QED
            BY <1>2, <2>3, <2>4, <2>5 DEF IInv, CacheInv
    <1>6. ASSUME NEW r \in Requests PROVE RequestInv(r)'
        <2>1. /\ StageInv(task[r]) /\ FreshInv(task[r]) /\ KeptInv(r, task[r])
              /\ task[r].since \in Nat
            BY SlotParts DEF IInv, RequestInv, Typed
        <2>2. task[r].pc \in Calls => now < task[r].since + CallLife
            BY DEF Tick, Pc
        <2>3. StageInv(task[r])'
            <3>1. task[r].since <= now' /\ (task[r].pc \in Calls => now' <= task[r].since + CallLife)
                BY <1>1, <2>1, <2>2, Numbers DEF StageInv
            <3>2. QED
                BY <1>2, <2>1, <3>1 DEF StageInv, Subject
        <2>4. FreshInv(task[r])'
            BY <1>2, <2>1 DEF FreshInv, WasTrue
        <2>5. KeptInv(r, task[r])'
            BY <1>2, <2>1 DEF KeptInv, InLine
        <2>6. QED
            BY <2>3, <2>4, <2>5 DEF RequestInv
    <1>7. QED
        BY <1>3, <1>4, <1>5, <1>6 DEF IInv

\* Every step keeps the invariant.
LEMMA NextIInv == IInv /\ [Next]_vars => IInv'
    <1> SUFFICES ASSUME IInv, [Next]_vars PROVE IInv'
        OBVIOUS
    <1>1. CASE UNCHANGED vars
        <2>1. /\ now' = now /\ chain' = chain /\ task' = task /\ inside' = inside /\ line' = line
              /\ positive' = positive /\ negative' = negative /\ pruneAt' = pruneAt
              /\ load' = load /\ held' = held
            BY <1>1 DEF vars, permits, caches, units
        <2>2. Typed' /\ LineInv' /\ CacheInv'
            BY <2>1 DEF IInv, Typed, LineInv, CacheInv, Cache, Unique, PositiveEntries, NegativeEntries, Elements
        <2>3. ASSUME NEW r \in Requests PROVE RequestInv(r)'
            BY <2>1 DEF IInv, RequestInv, StageInv, Subject, FreshInv, WasTrue, KeptInv, InLine
        <2>4. QED
            BY <2>2, <2>3 DEF IInv
    <1>2. CASE Tick
        BY <1>2, TickKeeps
    <1>3. ASSUME NEW r \in Requests, Proceed(r) PROVE IInv'
        <2>1. CASE Detect(r)
            BY <2>1, CachesAnswer, SearchStarts, QueueUpKeeps, EndsKeep, AskBlockKeeps DEF Detect
        <2>2. CASE CallEnds(r)
            BY <2>2, AdaptersGoOn, AdaptersDecide, EndsKeep DEF CallEnds
        <2>3. CASE Admit(r) \/ Refuse(r) \/ Dequeue(r) \/ End(r)
            BY <2>3, ComesIn, RefusedOrCancelled, CachesAnswer, SearchStarts, EndKeeps
        <2>4. QED
            BY <1>3, <2>1, <2>2, <2>3 DEF Proceed
    <1>4. ASSUME NEW r \in Requests, Cancel(r) \/ \E legs \in Asks : Arrive(r, legs) PROVE IInv'
        BY <1>4, RefusedOrCancelled, ComesIn
    <1>5. QED
        BY <1>1, <1>2, <1>3, <1>4 DEF Next

\* The initial state satisfies it.
LEMMA InitIInv == Init => IInv
    <1> SUFFICES ASSUME Init PROVE IInv
        OBVIOUS
    <1>1. /\ now = 0 /\ chain \in Histories /\ task = [r \in Requests |-> Idle]
          /\ inside = {} /\ line = <<>> /\ positive = <<>> /\ negative = <<>> /\ pruneAt = 0
          /\ load = [l \in {"vault"} |-> 0] /\ held = [r \in Requests |-> [l \in {"vault"} |-> 0]]
        BY DEF Init, Gate!Init
    <1>2. DOMAIN <<>> = {} /\ Len(<<>>) = 0 /\ \A S : <<>> \in Seq(S)
        BY EmptySeq
    <1>3. Idle \in Slots
        BY <1>2, Numbers DEF Idle, Slots, Kinds
    <1>4. Typed
        <2>1. Cache(positive, PositiveEntries) /\ Cache(negative, NegativeEntries)
            BY <1>1, <1>2, VaultAssumption DEF Cache, Unique, VaultAssumption
        <2>2. QED
            BY <1>1, <1>2, <1>3, <2>1, Numbers DEF Typed
    <1>5. CacheInv /\ LineInv
        BY <1>1, <1>2 DEF CacheInv, LineInv, Elements
    <1>6. ASSUME NEW r \in Requests PROVE RequestInv(r)
        <2>1. task[r] = Idle /\ held[r]["vault"] = 0
            BY <1>1
        <2>2. /\ Idle.pc = "idle" /\ Idle.answers = <<>> /\ Idle.legs = <<>>
              /\ Idle.kind = "erc4626" /\ Idle.since = 0
            BY DEF Idle
        <2>3. StageInv(task[r]) /\ FreshInv(task[r])
            BY <1>1, <1>2, <2>1, <2>2 DEF StageInv, FreshInv, Calls, Sought
        <2>4. KeptInv(r, task[r])
            BY <1>1, <1>2, <2>1, <2>2 DEF KeptInv, InLine, Calls, Outcomes
        <2>5. QED
            BY <2>3, <2>4 DEF RequestInv
    <1>7. QED
        BY <1>4, <1>5, <1>6 DEF IInv

\* The inductive invariant holds in every reachable state.
LEMMA Inductive == Spec => []IInv
    BY InitIInv, NextIInv, PTL DEF Spec

-----------------------------------------------------------------------------
(* The order of what requests were told.                                   *)

\* The answers the requests have so far, with the tokens they are about.
ToldOf(slot) == {[key |-> slot.legs[i], verdict |-> slot.answers[i]] : i \in DOMAIN slot.answers}
Told == UNION {ToldOf(task[r]) : r \in Requests}

\* Evidence for an answer "not a vault" given at moment at, at most two calls
\* older than a rate.
Evident(t, at, rate) ==
    \E s \in 0..at : chain[t][s] = "plain" /\ at < s + NegativeTtl + Reading /\ rate <= s + Reading

\* Rates are as old as the entries and answers they are in; a miss that is cached was
\* stored no earlier than any vault's rate a request was told, and so is its evidence,
\* but for two calls.
OrderInv ==
    /\ \A e \in Elements(positive) : e.rate + PositiveTtl <= e.expires
    /\ \A g \in Told : g.verdict.at <= now
    /\ \A g \in Told : g.verdict.kind \in Kinds =>
           /\ g.verdict.rate <= g.verdict.at
           /\ \A n \in Elements(negative) :
                  n.key = g.key => g.verdict.rate + NegativeTtl <= n.expires
    /\ \A g, h \in Told :
           /\ g.key = h.key /\ g.verdict.kind \in Kinds
           /\ h.verdict.kind = "plain" /\ g.verdict.at < h.verdict.at
           => Evident(h.key, h.verdict.at, g.verdict.rate)

\* What was told is a verdict, and the entries are of their types.
LEMMA ToldTypes ==
    ASSUME IInv
    PROVE  /\ \A g \in Told : g.verdict \in Verdicts
           /\ \A e \in Elements(positive) : e \in PositiveEntries
           /\ \A n \in Elements(negative) : n \in NegativeEntries
    <1>1. \A r \in Requests : task[r] \in Slots
        BY DEF IInv, Typed
    <1>2. ASSUME NEW g \in Told PROVE g.verdict \in Verdicts
        <2>1. PICK r \in Requests : g \in ToldOf(task[r])
            BY DEF Told
        <2>2. PICK i \in DOMAIN task[r].answers : g.verdict = task[r].answers[i]
            BY <2>1 DEF ToldOf
        <2>3. task[r].answers \in Seq(Verdicts)
            BY <1>1, SlotParts
        <2>4. QED
            BY <2>2, <2>3, ElementOfSeq
    <1>3. positive \in Seq(PositiveEntries) /\ negative \in Seq(NegativeEntries)
        BY DEF IInv, Typed, Cache
    <1>4. QED
        BY <1>2, <1>3, ElementOfSeq DEF Elements

\* Every request keeps the answers it has, or none of them.
ToldNothing ==
    \A q \in Requests : \/ task'[q].answers = <<>>
                        \/ /\ task'[q].answers = task[q].answers
                           /\ task'[q].legs = task[q].legs

\* A step that tells nobody anything, and caches nothing, keeps the order.
LEMMA NothingTold ==
    ASSUME IInv, OrderInv, chain' = chain, now' \in Nat, now <= now',
           ToldNothing,
           Elements(positive)' \subseteq Elements(positive),
           Elements(negative)' \subseteq Elements(negative)
    PROVE  OrderInv'
    <1>1. Told' \subseteq Told
        <2>1. ASSUME NEW g \in Told' PROVE g \in Told
            <3>1. PICK q \in Requests : g \in ToldOf(task'[q])
                BY <2>1 DEF Told
            <3>2. task'[q].answers # <<>>
                BY <3>1, EmptySeq DEF ToldOf
            <3>3. g \in ToldOf(task[q])
                BY <3>1, <3>2 DEF ToldOf, ToldNothing
            <3>4. QED
                BY <3>3 DEF Told
        <2>2. QED
            BY <2>1
    <1>2. \A g \in Told : g.verdict.at \in Nat
        BY ToldTypes, Numbers DEF Verdicts
    <1>3. now \in Nat
        BY Numbers DEF IInv, Typed
    <1>4. \A g \in Told : g.verdict.at <= now'
        BY <1>2, <1>3 DEF OrderInv
    <1>5. \A t, at, rate : Evident(t, at, rate) => Evident(t, at, rate)'
        BY DEF Evident
    <1>6. \A g \in Told' : g.verdict.kind \in Kinds =>
              /\ g.verdict.rate <= g.verdict.at
              /\ \A n \in Elements(negative)' :
                     n.key = g.key => g.verdict.rate + NegativeTtl <= n.expires
        BY <1>1 DEF OrderInv
    <1>7. \A e \in Elements(positive)' : e.rate + PositiveTtl <= e.expires
        BY DEF OrderInv
    <1> HIDE DEF Told, Evident
    <1>8. QED
        BY <1>1, <1>4, <1>5, <1>6, <1>7 DEF OrderInv

\* A request that gets a verdict is told that, and the others nothing.
LEMMA OneTold ==
    ASSUME IInv, NEW r \in Requests, NEW verdict, Answer(r, verdict)
    PROVE  \A g \in Told' :
               \/ g \in Told
               \/ g = [key |-> Token(r),
                       verdict |-> [kind |-> verdict.kind, rate |-> verdict.rate, at |-> now]]
    <1> DEFINE a == [kind |-> verdict.kind, rate |-> verdict.rate, at |-> now]
               answers == task[r].answers
               S == Verdicts \cup {a}
    <1>1. task[r] \in Slots /\ task \in [Requests -> Slots]
        BY DEF IInv, Typed
    <1>2. answers \in Seq(S) /\ Len(answers) \in Nat /\ DOMAIN answers = 1..Len(answers)
        <2>1. answers \in Seq(Verdicts) /\ Len(answers) \in Nat /\ DOMAIN answers = 1..Len(answers)
            BY <1>1, SlotParts
        <2> HIDE DEF answers
        <2>2. answers \in Seq(S)
            BY <2>1
        <2>3. QED
            BY <2>1, <2>2
    <1> DEFINE longer == Append(answers, a)
    <1>3. /\ longer \in Seq(S) /\ Len(longer) = Len(answers) + 1
          /\ \A i \in 1..Len(answers) : longer[i] = answers[i]
          /\ longer[Len(answers) + 1] = a
        <2>1. a \in S
            OBVIOUS
        <2> HIDE DEF a, answers, S
        <2>2. QED
            BY <1>2, <2>1, AppendProperties
    <1>4. task'[r].answers = longer /\ task'[r].legs = task[r].legs
        BY <1>1 DEF Answer, Slots
    <1>5. \A q \in Requests \ {r} : task'[q] = task[q]
        BY <1>1 DEF Answer
    <1> HIDE DEF longer, S
    <1>6. DOMAIN longer = 1..(Len(answers) + 1)
        BY <1>3, LenProperties
    <1> HIDE DEF answers, a
    <1>7. ASSUME NEW g \in ToldOf(task'[r]) PROVE g \in ToldOf(task[r]) \/ g = [key |-> Token(r), verdict |-> a]
        <2>1. PICK i \in DOMAIN longer : g = [key |-> task[r].legs[i], verdict |-> longer[i]]
            BY <1>4, <1>7 DEF ToldOf
        <2>2. CASE i = Len(answers) + 1
            BY <1>3, <2>1, <2>2 DEF Token, answers
        <2>3. CASE i # Len(answers) + 1
            <3>1. i \in 1..Len(answers)
                BY <1>2, <1>6, <2>3
            <3>2. g = [key |-> task[r].legs[i], verdict |-> answers[i]] /\ i \in DOMAIN answers
                BY <1>2, <1>3, <2>1, <3>1
            <3>3. QED
                BY <3>2 DEF ToldOf, answers
        <2>4. QED
            BY <2>2, <2>3
    <1>8. ASSUME NEW g \in Told' PROVE g \in Told \/ g = [key |-> Token(r), verdict |-> a]
        <2>1. PICK q \in Requests : g \in ToldOf(task'[q])
            BY <1>8 DEF Told
        <2>2. CASE q = r
            BY <1>7, <2>1, <2>2 DEF Told
        <2>3. CASE q # r
            BY <1>5, <2>1, <2>3 DEF Told
        <2>4. QED
            BY <2>2, <2>3
    <1>9. QED
        BY <1>8 DEF a

\* A verdict that is told keeps the order: a vault's rate is no younger than a miss that
\* stays cached, and a miss has evidence for every rate told before.
LEMMA VerdictTold ==
    ASSUME IInv, OrderInv, UNCHANGED <<now, chain>>, NEW r \in Requests, NEW verdict, Answer(r, verdict),
           \A e \in Elements(positive)' : e.rate + PositiveTtl <= e.expires,
           \A g \in Told : g.verdict.kind \in Kinds =>
               \A n \in Elements(negative)' : n.key = g.key => g.verdict.rate + NegativeTtl <= n.expires,
           verdict.kind \in Kinds =>
               /\ verdict.rate <= now
               /\ \A n \in Elements(negative)' :
                      n.key = Token(r) => verdict.rate + NegativeTtl <= n.expires,
           verdict.kind = "plain" =>
               \A g \in Told : g.key = Token(r) /\ g.verdict.kind \in Kinds =>
                   Evident(Token(r), now, g.verdict.rate)
    PROVE  OrderInv'
    <1> DEFINE new == [key |-> Token(r),
                       verdict |-> [kind |-> verdict.kind, rate |-> verdict.rate, at |-> now]]
    <1>1. \A g \in Told' : g \in Told \/ g = new
        BY OneTold
    <1>2. /\ new.key = Token(r) /\ new.verdict.kind = verdict.kind
          /\ new.verdict.rate = verdict.rate /\ new.verdict.at = now
        OBVIOUS
    <1> HIDE DEF new
    <1>3. now \in Nat /\ \A g \in Told : g.verdict.at \in Nat
        BY ToldTypes, Numbers DEF Verdicts, IInv, Typed
    <1>4. \A t, at, rate : Evident(t, at, rate)' <=> Evident(t, at, rate)
        BY DEF Evident
    <1>5. \A g \in Told' : g.verdict.at <= now'
        BY <1>1, <1>2, <1>3 DEF OrderInv
    <1>6. \A g \in Told' : g.verdict.kind \in Kinds =>
              /\ g.verdict.rate <= g.verdict.at
              /\ \A n \in Elements(negative)' :
                     n.key = g.key => g.verdict.rate + NegativeTtl <= n.expires
        BY <1>1, <1>2 DEF OrderInv
    <1>7. ASSUME NEW g \in Told', NEW h \in Told',
                 g.key = h.key, g.verdict.kind \in Kinds,
                 h.verdict.kind = "plain", g.verdict.at < h.verdict.at
          PROVE  Evident(h.key, h.verdict.at, g.verdict.rate)
        <2>1. CASE g \in Told /\ h \in Told
            BY <1>7, <2>1 DEF OrderInv
        <2>2. CASE h = new
            <3>1. g # new
                BY <1>2, <1>3, <1>7, <2>2
            <3>2. g \in Told
                BY <1>1, <3>1
            <3>3. QED
                BY <1>2, <1>7, <2>2, <3>2
        <2>3. CASE g = new /\ h \in Told
            <3>1. h.verdict.at <= now /\ now < h.verdict.at
                BY <1>2, <1>7, <2>3 DEF OrderInv
            <3>2. QED
                BY <1>3, <2>3, <3>1
        <2>4. QED
            BY <1>1, <2>1, <2>2, <2>3
    <1> HIDE DEF Told, Evident
    <1>8. QED
        BY <1>4, <1>5, <1>6, <1>7 DEF OrderInv

\* An answer from the caches keeps the order.
LEMMA CachesTell ==
    ASSUME IInv, OrderInv, NEW r \in Requests,
           \/ AnswerCached(r)
           \/ Dequeue(r) /\ Cached(Token(r))
    PROVE  OrderInv'
    <1> DEFINE t == Token(r)
               verdict == CachedVerdict(t)
    <1>1. /\ Cached(t) /\ Answer(r, verdict) /\ Lookup(t) /\ UNCHANGED <<now, chain>>
        BY DEF AnswerCached, Dequeue
    <1>2. /\ Cache(positive, PositiveEntries) /\ Cache(negative, NegativeEntries) /\ pruneAt \in Nat
          /\ now \in Nat /\ CacheInv
        BY Numbers DEF IInv, Typed
    <1>3. Elements(positive') \subseteq Elements(positive) /\ Elements(negative') \subseteq Elements(negative)
        BY <1>1, <1>2, LookedUp
    <1>4. Elements(positive)' = Elements(positive') /\ Elements(negative)' = Elements(negative')
        BY DEF Elements
    <1>5. /\ \A g \in Told : g.verdict.rate \in Nat
          /\ \A e \in Elements(positive) : e.rate \in Nat /\ e.expires \in Nat
          /\ \A n \in Elements(negative) : n.expires \in Nat
        BY ToldTypes, Numbers DEF Verdicts, PositiveEntries, NegativeEntries
    <1>6. \/ \E e \in Elements(positive) :
                 e.key = t /\ e.kind \in Kinds /\ verdict = [kind |-> e.kind, rate |-> e.rate]
          \/ \E n \in Elements(negative) :
                 n.key = t /\ now < n.expires /\ verdict = [kind |-> "plain", rate |-> 0]
        BY <1>1, CachedFrom DEF PositiveEntries
    <1> HIDE DEF verdict, t
    <1>7. verdict.kind \in Kinds =>
              /\ verdict.rate <= now
              /\ \A n \in Elements(negative)' : n.key = t => verdict.rate + NegativeTtl <= n.expires
        <2> SUFFICES ASSUME verdict.kind \in Kinds
                     PROVE  /\ verdict.rate <= now
                            /\ \A n \in Elements(negative) : n.key = t => verdict.rate + NegativeTtl <= n.expires
            BY <1>3, <1>4
        <2>1. PICK e \in Elements(positive) :
                 e.key = t /\ e.kind \in Kinds /\ verdict = [kind |-> e.kind, rate |-> e.rate]
            BY <1>6 DEF Kinds
        <2>2. /\ e.rate + PositiveTtl <= e.expires /\ e.expires <= now + PositiveTtl
              /\ \A n \in Elements(negative) : n.key = t => n.expires - NegativeTtl >= e.expires - PositiveTtl
            BY <1>2, <2>1 DEF CacheInv, OrderInv
        <2>3. verdict.rate = e.rate
            BY <2>1
        <2>4. QED
            BY <1>2, <1>5, <2>2, <2>3, Numbers
    <1>8. verdict.kind = "plain" =>
              \A g \in Told : g.key = t /\ g.verdict.kind \in Kinds => Evident(t, now, g.verdict.rate)
        <2> SUFFICES ASSUME verdict.kind = "plain",
                            NEW g \in Told, g.key = t, g.verdict.kind \in Kinds
                     PROVE  Evident(t, now, g.verdict.rate)
            OBVIOUS
        <2>1. PICK n \in Elements(negative) : n.key = t /\ now < n.expires
            BY <1>6 DEF Kinds
        <2>2. g.verdict.rate + NegativeTtl <= n.expires
            BY <2>1 DEF OrderInv
        <2>3. PICK m \in 0..now : chain[t][m] = "plain" /\ n.expires <= m + NegativeTtl + Reading
            BY <1>2, <2>1 DEF CacheInv
        <2>4. now < m + NegativeTtl + Reading /\ g.verdict.rate <= m + Reading
            BY <1>2, <1>5, <2>1, <2>2, <2>3, Numbers
        <2>5. QED
            BY <2>3, <2>4 DEF Evident
    <1>9. /\ \A e \in Elements(positive)' : e.rate + PositiveTtl <= e.expires
          /\ \A g \in Told : g.verdict.kind \in Kinds =>
                 \A n \in Elements(negative)' : n.key = g.key => g.verdict.rate + NegativeTtl <= n.expires
        BY <1>3, <1>4 DEF OrderInv
    <1>10. QED
        BY <1>1, <1>7, <1>8, <1>9, VerdictTold DEF t

\* A detection that comes to a verdict keeps the order: nobody was told a rate from later,
\* and a vault's verdict takes the miss out of its cache.
LEMMA DetectionTells ==
    ASSUME IInv, OrderInv, NEW r \in Requests, Pc(r) \in Calls \ {"block"}, NEW verdict,
           Found(Token(r), verdict), Conclude(r, verdict)
    PROVE  OrderInv'
    <1> DEFINE t == Token(r)
    <1>1. Answer(r, verdict) /\ KeepVerdict(t, verdict) /\ UNCHANGED <<now, chain>> /\ Found(t, verdict)
        BY DEF Conclude
    <1>2. /\ Cache(positive, PositiveEntries) /\ Cache(negative, NegativeEntries)
          /\ now \in Nat /\ now \in 0..MaxTime /\ task[r] \in Slots /\ StageInv(task[r])
        BY Numbers DEF IInv, Typed, RequestInv
    <1>3. t \in Tokens
        BY <1>2, SlotParts DEF StageInv, Sought, Token, Subject, Pc
    <1> HIDE DEF t
    <1>4. /\ \A g \in Told : g.verdict.rate \in Nat /\ g.verdict.at \in Nat
          /\ \A n \in Elements(negative) : n.expires \in Nat
        BY ToldTypes, Numbers DEF Verdicts, NegativeEntries
    <1>5. \A g \in Told : g.verdict.kind \in Kinds => g.verdict.rate <= now
        BY <1>2, <1>4 DEF OrderInv
    <1>6. Elements(positive)' = Elements(positive') /\ Elements(negative)' = Elements(negative')
        BY DEF Elements
    <1>7. CASE verdict = NotVault
        <2> DEFINE new == [key |-> t, expires |-> now + NegativeTtl]
        <2>1. negative' = Store(negative, new) /\ positive' = positive
            BY <1>1, <1>7 DEF KeepVerdict
        <2>2. new \in NegativeEntries /\ new.key = t /\ new.expires = now + NegativeTtl
            BY <1>2, <1>3, Numbers DEF NegativeEntries
        <2> HIDE DEF new
        <2>3. \A x \in Elements(negative') : x = new \/ x \in Elements(negative)
            BY <1>2, <2>1, <2>2, Stored
        <2>4. /\ \A e \in Elements(positive)' : e.rate + PositiveTtl <= e.expires
              /\ \A g \in Told : g.verdict.kind \in Kinds =>
                     \A n \in Elements(negative)' : n.key = g.key => g.verdict.rate + NegativeTtl <= n.expires
            <3>1. \A g \in Told : g.verdict.kind \in Kinds => g.verdict.rate + NegativeTtl <= new.expires
                BY <1>2, <1>4, <1>5, <2>2, Numbers
            <3>2. QED
                BY <1>6, <2>1, <2>3, <3>1 DEF OrderInv
        <2>5. PICK m \in 0..now : chain[t][m] = "plain" /\ now <= m + Reading
            BY <1>1, <1>7 DEF Found, NotVault, Kinds
        <2>6. \A g \in Told : g.verdict.kind \in Kinds => Evident(t, now, g.verdict.rate)
            <3>1. now < m + NegativeTtl + Reading
                BY <1>2, <2>5, Numbers
            <3>2. \A g \in Told : g.verdict.kind \in Kinds => g.verdict.rate <= m + Reading
                BY <1>2, <1>4, <1>5, <2>5, Numbers
            <3>3. QED
                BY <2>5, <3>1, <3>2 DEF Evident
        <2>7. verdict.kind = "plain" /\ "plain" \notin Kinds
            BY <1>7 DEF NotVault, Kinds
        <2>8. QED
            BY <1>1, <2>4, <2>6, <2>7, VerdictTold DEF t
    <1>8. CASE verdict # NotVault
        <2>1. PICK kind \in Kinds, s \in 0..now : verdict = [kind |-> kind, rate |-> s]
            BY <1>1, <1>8 DEF Found
        <2>2. verdict.kind = kind /\ verdict.rate = s /\ verdict.kind # "plain"
            BY <2>1 DEF Kinds
        <2> DEFINE new == [key |-> t, kind |-> kind, rate |-> s, expires |-> now + PositiveTtl]
        <2>3. positive' = Store(positive, new) /\ negative' = Without(negative, t)
            BY <1>1, <1>8, <2>2 DEF KeepVerdict
        <2>4. new \in PositiveEntries /\ new.key = t /\ new.rate = s /\ new.expires = now + PositiveTtl
            <3>1. s \in 0..MaxTime /\ now + PositiveTtl \in Nat
                BY <1>2, Numbers
            <3>2. QED
                BY <1>3, <3>1 DEF PositiveEntries
        <2> HIDE DEF new
        <2>5. \A x \in Elements(positive') : x = new \/ x \in Elements(positive)
            BY <1>2, <2>3, <2>4, Stored
        <2>6. Elements(negative') = {x \in Elements(negative) : x.key # t}
            BY <1>2, <2>3, WithoutKey
        <2>7. s <= now /\ new.rate + PositiveTtl <= new.expires
            BY <1>2, <2>4, Numbers
        <2>8. \A e \in Elements(positive)' : e.rate + PositiveTtl <= e.expires
            BY <1>6, <2>5, <2>7 DEF OrderInv
        <2>9. \A g \in Told : g.verdict.kind \in Kinds =>
                 \A n \in Elements(negative)' : n.key = g.key => g.verdict.rate + NegativeTtl <= n.expires
            BY <1>6, <2>6 DEF OrderInv
        <2>10. \A n \in Elements(negative)' : n.key # t
            BY <1>6, <2>6
        <2>11. QED
            BY <1>1, <2>2, <2>7, <2>8, <2>9, <2>10, VerdictTold DEF t
    <1>9. QED
        BY <1>7, <1>8

\* The steps of a request that goes on without a verdict.
GoesOn(r) ==
    \/ InterfaceFound(r) \/ MulticallFails(r) \/ InterfaceRead(r) \/ DecimalsRead(r) \/ RateUnread(r)
    \/ (InterfaceMissing(r) /\ task[r].kind = "erc4626")
    \/ AskBlock(r) \/ NoVaults(r) \/ DetectionFails(r) \/ BlockRead(r)
    \/ Admit(r) \/ Refuse(r) \/ Cancel(r) \/ End(r) \/ \E legs \in Asks : Arrive(r, legs)

\* They leave its answers as they are, or drop them.
LEMMA AnswersStay ==
    ASSUME IInv, NEW r \in Requests,
           GoesOn(r) \/ EnterDetection(r) \/ QueueUp(r) \/ (Dequeue(r) /\ ~Cached(Token(r)))
    PROVE  ToldNothing
    <1>1. task \in [Requests -> Slots] /\ task[r] \in Slots /\ StageInv(task[r])
        BY DEF IInv, Typed, RequestInv
    <1>2. ASSUME NEW pc, Send(r, pc) PROVE ToldNothing
        BY <1>1, <1>2 DEF Send, Slots, ToldNothing
    <1>3. ASSUME NEW pc, task' = [task EXCEPT ![r].pc = pc] PROVE ToldNothing
        BY <1>1, <1>3 DEF Slots, ToldNothing
    <1>4. ASSUME NEW outcome, Finish(r, outcome) PROVE ToldNothing
        BY <1>1, <1>4 DEF Finish, Slots, ToldNothing
    <1>5. CASE InterfaceFound(r)
        <2>1. PICK s \in Served(r) :
                  task' = [task EXCEPT ![r].pc = "conversion", ![r].since = now,
                                  ![r].rate = IF task[r].kind = "yearn_v2" THEN s ELSE 0]
            BY <1>5 DEF InterfaceFound
        <2>2. QED
            BY <1>1, <2>1 DEF Slots, ToldNothing
    <1>6. CASE MulticallFails(r)
        BY <1>1, <1>6 DEF MulticallFails, Slots, ToldNothing
    <1>7. CASE InterfaceMissing(r) /\ task[r].kind = "erc4626"
        <2>1. task' = [task EXCEPT ![r].kind = "yearn_v2", ![r].since = now]
            BY <1>7 DEF InterfaceMissing
        <2>2. QED
            BY <1>1, <2>1 DEF Slots, ToldNothing
    <1>8. CASE BlockRead(r)
        <2>1. PICK s \in Served(r) :
                  task' = [task EXCEPT ![r].pc = "RESOLVED", ![r].block = s, ![r].since = 0]
            BY <1>8, BlockReadDoes
        <2>2. QED
            BY <1>1, <2>1 DEF Slots, ToldNothing
    <1>9. CASE End(r)
        BY <1>1, <1>9 DEF End, Idle, ToldNothing
    <1>10. ASSUME NEW legs \in Asks, Arrive(r, legs) PROVE ToldNothing
        <2>1. task[r].answers = <<>>
            BY <1>1, <1>10 DEF Arrive, StageInv, Pc
        <2>2. PICK pc \in {"detect", "waiting"} : task' = [task EXCEPT ![r].pc = pc, ![r].legs = legs]
            BY <1>10 DEF Arrive
        <2>3. QED
            BY <1>1, <2>1, <2>2 DEF Slots, ToldNothing
    <1>11. CASE InterfaceRead(r) \/ DecimalsRead(r) \/ RateUnread(r) \/ AskBlock(r) \/ EnterDetection(r)
        BY <1>2, <1>11 DEF InterfaceRead, DecimalsRead, RateUnread, AskBlock, EnterDetection
    <1>12. CASE Dequeue(r) /\ ~Cached(Token(r))
        BY <1>2, <1>12 DEF Dequeue
    <1>13. CASE Admit(r) \/ Refuse(r) \/ QueueUp(r)
        BY <1>3, <1>13 DEF Admit, Refuse, QueueUp
    <1>14. CASE NoVaults(r) \/ DetectionFails(r)
        BY <1>4, <1>14 DEF NoVaults, DetectionFails
    <1>15. CASE Cancel(r)
        BY <1>3, <1>4, <1>15 DEF Cancel
    <1>16. QED
        BY <1>5, <1>6, <1>7, <1>8, <1>9, <1>10, <1>11, <1>12, <1>13, <1>14, <1>15 DEF GoesOn

\* They keep the order.
LEMMA GoingOnKeeps ==
    ASSUME IInv, OrderInv, NEW r \in Requests,
           GoesOn(r) \/ EnterDetection(r) \/ QueueUp(r) \/ (Dequeue(r) /\ ~Cached(Token(r)))
    PROVE  OrderInv'
    <1>1. /\ Cache(positive, PositiveEntries) /\ Cache(negative, NegativeEntries) /\ pruneAt \in Nat
          /\ now \in Nat
        BY Numbers DEF IInv, Typed
    <1>2. now' = now /\ chain' = chain /\ (UNCHANGED caches \/ Lookup(Token(r)))
        <2>1. CASE EnterDetection(r) \/ QueueUp(r) \/ Dequeue(r)
            BY <2>1 DEF EnterDetection, QueueUp, Dequeue
        <2>2. CASE GoesOn(r)
            BY <2>2, BlockReadDoes
               DEF GoesOn, InterfaceFound, MulticallFails, InterfaceRead, DecimalsRead, RateUnread,
                   InterfaceMissing, AskBlock, NoVaults, DetectionFails, Admit, Refuse, Cancel, End, Arrive
        <2>3. QED
            BY <2>1, <2>2
    <1>3. Elements(positive') \subseteq Elements(positive) /\ Elements(negative') \subseteq Elements(negative)
        BY <1>1, <1>2, LookedUp DEF caches
    <1>4. Elements(positive)' = Elements(positive') /\ Elements(negative)' = Elements(negative')
        BY DEF Elements
    <1>5. now' \in Nat /\ now <= now'
        BY <1>1, <1>2
    <1>6. ToldNothing
        BY AnswersStay
    <1>7. QED
        BY <1>2, <1>3, <1>4, <1>5, <1>6, NothingTold

\* Every step keeps the order.
LEMMA NextOrder == IInv /\ OrderInv /\ [Next]_vars => OrderInv'
    <1> SUFFICES ASSUME IInv, OrderInv, [Next]_vars PROVE OrderInv'
        OBVIOUS
    <1>1. CASE Tick \/ UNCHANGED vars
        <2>1. /\ chain' = chain /\ task' = task /\ positive' = positive /\ negative' = negative
              /\ now' = now + 1 \/ now' = now
            BY <1>1 DEF Tick, vars, caches
        <2>2. now' \in Nat /\ now <= now'
            BY <2>1, Numbers DEF IInv, Typed
        <2>3. Elements(positive)' \subseteq Elements(positive) /\ Elements(negative)' \subseteq Elements(negative)
            BY <2>1 DEF Elements
        <2>4. QED
            BY <2>1, <2>2, <2>3, NothingTold DEF ToldNothing
    <1>2. ASSUME NEW r \in Requests, Proceed(r) PROVE OrderInv'
        <2>1. CASE Detect(r)
            BY <2>1, CachesTell, GoingOnKeeps DEF Detect, GoesOn
        <2>2. CASE CallEnds(r)
            <3>1. CASE (InterfaceMissing(r) /\ task[r].kind # "erc4626") \/ ConversionRead(r) \/ RateRead(r)
                <4>1. Pc(r) \in Calls \ {"block"} /\ Decided(r)
                    BY <3>1, VerdictsFound
                <4>2. PICK verdict : Found(Token(r), verdict) /\ Conclude(r, verdict)
                    BY <4>1 DEF Decided
                <4>3. QED
                    BY <4>1, <4>2, DetectionTells
            <3>2. CASE GoesOn(r)
                BY <3>2, GoingOnKeeps
            <3>3. QED
                BY <2>2, <3>1, <3>2 DEF CallEnds, GoesOn
        <2>3. CASE Admit(r) \/ Refuse(r) \/ Dequeue(r) \/ End(r)
            BY <2>3, CachesTell, GoingOnKeeps DEF GoesOn
        <2>4. QED
            BY <1>2, <2>1, <2>2, <2>3 DEF Proceed
    <1>3. ASSUME NEW r \in Requests, Cancel(r) \/ \E legs \in Asks : Arrive(r, legs) PROVE OrderInv'
        BY <1>3, GoingOnKeeps DEF GoesOn
    <1>4. QED
        BY <1>1, <1>2, <1>3 DEF Next

\* The initial state satisfies it: nobody was told anything.
LEMMA InitOrder == Init => OrderInv
    <1> SUFFICES ASSUME Init PROVE OrderInv
        OBVIOUS
    <1>1. /\ \A r \in Requests : task[r].answers = <<>>
          /\ positive = <<>> /\ negative = <<>> /\ DOMAIN <<>> = {}
        BY EmptySeq DEF Init, Idle
    <1>2. Elements(positive) = {} /\ Elements(negative) = {}
        BY <1>1 DEF Elements
    <1>3. Told = {}
        <2>1. \A r \in Requests : ToldOf(task[r]) = {}
            BY <1>1 DEF ToldOf
        <2>2. QED
            BY <2>1 DEF Told
    <1>4. QED
        BY <1>2, <1>3 DEF OrderInv

\* The order holds in every reachable state.
LEMMA Ordered == Spec => []OrderInv
    BY InitOrder, NextOrder, Inductive, PTL DEF Spec

-----------------------------------------------------------------------------
(* The theorems.                                                           *)

\* Slots, caches and the line have their types, a key is in a cache once, and no cache is
\* ever over its limit.
THEOREM TypeCorrect == Spec => []TypeOK
    <1>1. IInv => TypeOK
        BY DEF IInv, Typed, Cache, Unique, RequestInv, StageInv, TypeOK
    <1>2. QED
        BY <1>1, Inductive, PTL

\* Whatever the chain does, fails and delays, a request goes on with verdicts that were
\* true within the TTL of their kind and the time of two calls.
THEOREM AnswersWereTrue == Spec => []AnswersFresh
    <1>1. IInv => AnswersFresh
        BY DEF IInv, RequestInv, FreshInv, AnswersFresh
    <1>2. QED
        BY <1>1, Inductive, PTL

\* Whatever is cached late, lapses or is evicted, after a request was told that a token is
\* a vault none is told otherwise on evidence more than two calls older than that rate.
THEOREM MissesNotOlder == Spec => []NoOlderMiss
    <1>1. OrderInv => NoOlderMiss
        <2> SUFFICES ASSUME OrderInv,
                            NEW r \in Requests, NEW q \in Requests,
                            NEW i \in DOMAIN task[r].answers, NEW j \in DOMAIN task[q].answers,
                            task[r].legs[i] = task[q].legs[j], task[r].answers[i].kind \in Kinds,
                            task[q].answers[j].kind = "plain",
                            task[r].answers[i].at < task[q].answers[j].at
                     PROVE  \E s \in 0..task[q].answers[j].at :
                                /\ chain[task[q].legs[j]][s] = "plain"
                                /\ task[q].answers[j].at < s + NegativeTtl + Reading
                                /\ task[r].answers[i].rate <= s + Reading
            BY DEF NoOlderMiss
        <2> DEFINE g == [key |-> task[r].legs[i], verdict |-> task[r].answers[i]]
                   h == [key |-> task[q].legs[j], verdict |-> task[q].answers[j]]
        <2>1. g \in ToldOf(task[r]) /\ h \in ToldOf(task[q])
            BY DEF ToldOf
        <2>2. g \in Told /\ h \in Told
            BY <2>1 DEF Told
        <2>3. Evident(h.key, h.verdict.at, g.verdict.rate)
            BY <2>2 DEF OrderInv
        <2>4. QED
            BY <2>3 DEF Evident
    <1>2. QED
        BY <1>1, Ordered, PTL
\* Units, permits and places in line are held while they are needed and given back on
\* every way out.
THEOREM NothingIsKept == Spec => []NothingKept
    <1>1. IInv => NothingKept
        BY DEF IInv, RequestInv, KeptInv, InLine, NothingKept, Pc
    <1>2. QED
        BY <1>1, Inductive, PTL

\* Requests use the units of the service's limiter as CapacityGate has it, all of their
\* units at once and each once.
THEOREM UsesGate == Spec => Gate!Spec
    <1>1. Init => Gate!Init
        BY DEF Init
    <1>2. IInv /\ [Next]_vars => [Gate!Next]_<<load, held>>
        <2> SUFFICES ASSUME IInv, Next, ~UNCHANGED units PROVE Gate!Next
            BY DEF units, vars
        <2>1. PICK r \in Requests :
                  \/ Admit(r) \/ \E legs \in Asks : Arrive(r, legs)
                  \/ NoVaults(r) \/ DetectionFails(r) \/ BlockRead(r) \/ Cancel(r)
            BY DEF Next, Tick, Proceed, Detect, CallEnds, Refuse, AnswerCached, EnterDetection, QueueUp,
                   AskBlock, Dequeue, End, InterfaceFound, InterfaceMissing, ConversionRead, MulticallFails,
                   InterfaceRead, DecimalsRead, RateUnread, RateRead, Conclude
        <2>2. CASE NoVaults(r) \/ DetectionFails(r) \/ BlockRead(r) \/ Cancel(r)
            <3>1. Gate!Return(r, "vault")
                BY <2>2, BlockReadDoes DEF NoVaults, DetectionFails, Cancel, Finish
            <3>2. QED
                BY <3>1 DEF Gate!Next
        <2>3. CASE Admit(r) \/ \E legs \in Asks : Arrive(r, legs)
            <3>1. PICK legs \in Asks : Gate!Grant(r, "vault", Len(legs))
                <4>1. CASE Admit(r)
                    <5>1. task[r].legs \in Asks
                        BY <4>1 DEF Admit, IInv, RequestInv, StageInv, Pc
                    <5>2. QED
                        BY <4>1, <5>1 DEF Admit
                <4>2. CASE \E legs \in Asks : Arrive(r, legs)
                    BY <4>2 DEF Arrive
                <4>3. QED
                    BY <2>3, <4>1, <4>2
            <3>2. Len(legs) \in 1..2
                BY VaultAssumption DEF VaultAssumption
            <3>3. QED
                BY <3>1, <3>2 DEF Gate!Next
        <2>4. QED
            BY <2>1, <2>2, <2>3
    <1>3. QED
        BY <1>1, <1>2, Inductive, PTL DEF Spec, Gate!Spec

=============================================================================
