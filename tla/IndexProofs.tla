----------------------------- MODULE IndexProofs -----------------------------
(***************************************************************************)
(* The staging area's hash table finds every entry of an index that is in  *)
(* step, for every hash function, every size of table and of array, and    *)
(* every history of calls (Index's TypeOK, TableAgrees and SlotsAreLive),  *)
(* and every call on such an index is a step of the map from keys to       *)
(* object ids (CallsAreMapSteps).                                          *)
(*                                                                         *)
(* The heart of the argument is Indexed: the table holds the number of     *)
(* each live cell once, at a place on the probe sequence of its key before *)
(* which no slot is empty.  Entering a key, tombstoning a slot and a       *)
(* rebuild keep it; a search that follows the probes then ends at the      *)
(* entry, or at an empty slot when there is none.  That a slot is free     *)
(* when one is needed rests on the table having more slots than entries.   *)
(*                                                                         *)
(* The loops of the code (the doubling of the capacity, the filling of a   *)
(* new table, the appends of read_tree and conflict_add) are recursive     *)
(* functions.  What they compute is proved by the least-number principle,  *)
(* stated over sets.                                                       *)
(*                                                                         *)
(* For the map, Holds says that cells hold a map: an entry has the object  *)
(* id the map has at its key, and the map has no other.  Cells hold one    *)
(* map at most, so it is enough to follow what each operation does to the  *)
(* cells: replace, append, pick (sort, remove and without all pick cells   *)
(* of the old array), load and store.                                      *)
(***************************************************************************)
EXTENDS Index, FiniteSetTheorems, WellFoundedInduction, TLAPS

-----------------------------------------------------------------------------
(* Numbers and loops *)

\* A non-empty set of naturals has a least element.
LEMMA Least == ASSUME NEW T, T \subseteq Nat, T # {} PROVE \E x \in T : \A y \in T : x <= y
<1> DEFINE R == OpToRel(<, Nat)
<1>1. IsWellFoundedOn(R, Nat)
  BY NatLessThanWellFounded
<1>2. \E x \in T : \A y \in T : ~(<<y, x>> \in R)
  <2> HIDE DEF R
  <2> QED BY <1>1, WFMin
<1>3. \A x, y \in T : ~(<<y, x>> \in R) => x <= y
  BY DEF OpToRel
<1> QED BY <1>2, <1>3

\* Induction up to n, over a set rather than over a formula.
LEMMA Induction ==
    ASSUME NEW n \in Nat, NEW T, 0 \in T, \A i \in 1 .. n : i - 1 \in T => i \in T
    PROVE  \A i \in 0 .. n : i \in T
<1> SUFFICES ASSUME NEW b \in 0 .. n, b \notin T PROVE FALSE
  OBVIOUS
<1> DEFINE B == {i \in 0 .. n : i \notin T}
<1>1. B \subseteq Nat /\ B # {}
  OBVIOUS
<1>2. PICK m \in B : \A y \in B : m <= y
  <2> HIDE DEF B
  <2> QED BY <1>1, Least
<1>3. m # 0 /\ m \in 1 .. n
  OBVIOUS
<1>4. m - 1 \notin B
  BY <1>2, <1>3
<1> QED BY <1>3, <1>4

\* The rounds of a loop over states in S, and a run of it from a.
Steps(n, S) == [1 .. n -> [S -> S]]
Iterates(f, n, S, a, G) ==
    f \in [0 .. n -> S] /\ f[0] = a /\ \A i \in 1 .. n : f[i] = G[i][f[i - 1]]

\* A loop of n rounds: from any start there is a run of it.
LEMMA Recursion ==
    ASSUME NEW n \in Nat, NEW S, NEW a \in S, NEW G \in Steps(n, S)
    PROVE  \E f : Iterates(f, n, S, a, G)
<1> DEFINE T == {m \in 0 .. n : \E f : Iterates(f, m, S, a, G)}
<1>1. 0 \in T
  <2>1. Iterates([i \in 0 .. 0 |-> a], 0, S, a, G)
    BY DEF Iterates
  <2> QED BY <2>1
<1>2. \A m \in 1 .. n : m - 1 \in T => m \in T
  <2> SUFFICES ASSUME NEW m \in 1 .. n, m - 1 \in T PROVE m \in T
    OBVIOUS
  <2>1. PICK f : Iterates(f, m - 1, S, a, G)
    OBVIOUS
  <2> DEFINE g == [i \in 0 .. m |-> IF i < m THEN f[i] ELSE G[m][f[m - 1]]]
  <2>2. f[m - 1] \in S /\ G[m] \in [S -> S]
    BY <2>1 DEF Iterates, Steps
  <2>3. G[m][f[m - 1]] \in S
    BY <2>2
  <2>4. g \in [0 .. m -> S] /\ g[0] = a
    BY <2>1, <2>3 DEF Iterates
  <2>5. \A i \in 1 .. m : g[i] = G[i][g[i - 1]]
    BY <2>1 DEF Iterates
  <2>6. Iterates(g, m, S, a, G)
    BY <2>4, <2>5 DEF Iterates
  <2> HIDE DEF g
  <2> QED BY <2>6
<1>3. n \in T
  <2>1. \A i \in 0 .. n : i \in T
    <3> HIDE DEF T
    <3> QED BY <1>1, <1>2, Induction
  <2> QED BY <2>1
<1> QED BY <1>3

\* A remainder is a slot of the table.
LEMMA ModRange == ASSUME NEW a \in Nat, NEW c \in Nat \ {0} PROVE a % c \in 0 .. c - 1
  OBVIOUS

\* Division with remainder.
LEMMA ModDiv ==
    ASSUME NEW a \in Nat, NEW c \in Nat \ {0}
    PROVE  \E q \in Nat : a = (c * q) + (a % c)
  OBVIOUS

\* The remainder of a multiple of c plus a slot number is the slot number.
LEMMA ModUnique ==
    ASSUME NEW q \in Nat, NEW c \in Nat \ {0}, NEW s \in 0 .. c - 1
    PROVE  ((c * q) + s) % c = s
  OBVIOUS

\* First is the least element, so a probe loop stops at its first stop.
LEMMA FirstIsLeast ==
    ASSUME NEW S, S \subseteq Nat, S # {}
    PROVE  First(S) \in S /\ \A j \in S : First(S) <= j
<1>1. \E i \in S : \A j \in S : i <= j
  BY Least
<1> QED BY <1>1 DEF First

\* The doubling loop of fg_ht_init ends with a table that is large enough.
LEMMA CapForLoop ==
    ASSUME NEW n \in Nat
    PROVE  CapFor(n) \in Nat \ {0} /\ CapFor(n) >= n
<1> DEFINE S == Nat
           Double(c) == IF c < n THEN 2 * c ELSE c
           G == [i \in 1 .. n |-> [c \in S |-> Double(c)]]
           Loop(d) == d = [i \in 0 .. n |-> IF i = 0 THEN MinCap
                             ELSE IF d[i - 1] < n THEN 2 * d[i - 1] ELSE d[i - 1]]
<1>1. MinCap \in S /\ \A c \in S : Double(c) \in S
  BY CapAssumption
<1>2. G \in Steps(n, S)
  <2> HIDE DEF S, Double
  <2> QED BY <1>1 DEF Steps
<1>3. PICK f : Iterates(f, n, S, MinCap, G)
  <2> HIDE DEF G, S
  <2> QED BY <1>1, <1>2, Recursion
<1>4. \A i \in 1 .. n : f[i] = Double(f[i - 1])
  <2> SUFFICES ASSUME NEW i \in 1 .. n PROVE f[i] = Double(f[i - 1])
    OBVIOUS
  <2> HIDE DEF Double, S
  <2>1. f[i - 1] \in S
    BY <1>3 DEF Iterates
  <2> QED BY <1>3, <2>1 DEF Iterates
<1>5. Loop(f)
  BY <1>3, <1>4 DEF Iterates
<1>6. PICK d : Loop(d) /\ CapFor(n) = d[n]
  <2>1. CapFor(n) = (CHOOSE d : Loop(d))[n]
    BY DEF CapFor
  <2>2. Loop(CHOOSE d : Loop(d))
    <3> HIDE DEF Loop
    <3> QED BY <1>5
  <2> HIDE DEF Loop
  <2> QED BY <2>1, <2>2
<1> DEFINE T == {i \in 0 .. n : d[i] \in Nat \ {0} /\ (d[i] >= n \/ d[i] > i)}
<1>7. 0 \in T
  BY <1>6, CapAssumption
<1>8. \A i \in 1 .. n : i - 1 \in T => i \in T
  <2> SUFFICES ASSUME NEW i \in 1 .. n, i - 1 \in T PROVE i \in T
    OBVIOUS
  <2>1. d[i] = IF d[i - 1] < n THEN 2 * d[i - 1] ELSE d[i - 1]
    BY <1>6
  <2>2. d[i - 1] \in Nat \ {0} /\ (d[i - 1] >= n \/ d[i - 1] > i - 1)
    OBVIOUS
  <2> QED BY <2>1, <2>2
<1>9. n \in T
  <2>1. \A i \in 0 .. n : i \in T
    <3> HIDE DEF T
    <3> QED BY <1>7, <1>8, Induction
  <2> QED BY <2>1
<1> QED BY <1>6, <1>9

-----------------------------------------------------------------------------
(* Probing *)

\* A probe stays in the table.
LEMMA ProbeInTable ==
    ASSUME hash \in [Key -> Nat], NEW k \in Key, NEW i \in Nat, NEW cap \in Nat \ {0}
    PROVE  Probe(k, i, cap) \in 0 .. cap - 1
<1>1. hash[k] + i \in Nat
  OBVIOUS
<1> QED BY <1>1, ModRange DEF Probe

\* A full round of probes meets every slot, whatever the hash of the key.
LEMMA ProbeMeetsAll ==
    ASSUME hash \in [Key -> Nat], NEW k \in Key, NEW cap \in Nat \ {0}, NEW s \in 0 .. cap - 1
    PROVE  \E i \in 0 .. cap - 1 : Probe(k, i, cap) = s
<1> PICK h \in Nat : h = hash[k]
  OBVIOUS
<1>1. PICK q \in Nat : h = (cap * q) + (h % cap)
  BY ModDiv
<1> PICK r \in 0 .. cap - 1 : r = h % cap
  BY ModRange
<1>2. CASE s >= r
  <2>1. s - r \in 0 .. cap - 1 /\ h + (s - r) = (cap * q) + s
    BY <1>1, <1>2
  <2>2. (h + (s - r)) % cap = s
    BY <2>1, ModUnique
  <2> QED BY <2>1, <2>2 DEF Probe
<1>3. CASE s < r
  <2>1. (s + cap) - r \in 0 .. cap - 1 /\ h + ((s + cap) - r) = (cap * (q + 1)) + s
    <3>1. cap * (q + 1) = (cap * q) + cap
      OBVIOUS
    <3> PICK z \in Nat : z = cap * q
      OBVIOUS
    <3>2. h = z + r
      BY <1>1
    <3>3. (s + cap) - r \in 0 .. cap - 1
      BY <1>3
    <3>4. (z + r) + ((s + cap) - r) = (z + cap) + s
      BY ONLY z \in Nat, r \in 0 .. cap - 1, s \in 0 .. cap - 1, cap \in Nat \ {0}
    <3> QED BY <3>1, <3>2, <3>3, <3>4
  <2>2. (h + ((s + cap) - r)) % cap = s
    <3>1. q + 1 \in Nat
      OBVIOUS
    <3> QED BY <2>1, <3>1, ModUnique
  <2> QED BY <2>1, <2>2 DEF Probe
<1> QED BY <1>2, <1>3

\* A table of cap slots that holds the positions in L of the array c.
Indexed(c, ht, cap, L) ==
    /\ cap \in Nat \ {0} /\ L \subseteq Nat
    /\ ht \in [0 .. cap - 1 -> {Empty, Tomb} \cup L]
    /\ \A i \in L : c[i].key \in Key
    /\ \A i, j \in L : c[i].key = c[j].key => i = j
    /\ \A s, t \in 0 .. cap - 1 : ht[s] \in L /\ ht[t] = ht[s] => s = t
    /\ \A i \in L : \E j \in 0 .. cap - 1 :
          /\ ht[Probe(c[i].key, j, cap)] = i
          /\ \A m \in 0 .. j - 1 : ht[Probe(c[i].key, m, cap)] # Empty

\* Writing a slot keeps the type of the table.
LEMMA PutSlotType ==
    ASSUME NEW cap, NEW V, NEW ht \in [0 .. cap - 1 -> V], NEW k, NEW v \in V, NEW free
    PROVE  PutSlot(ht, cap, k, v, free) \in [0 .. cap - 1 -> V]
BY DEF PutSlot

\* A table larger than the number of its entries has a slot without one.
LEMMA FreeSlot ==
    ASSUME NEW cap \in Nat \ {0}, NEW L, IsFiniteSet(L), Cardinality(L) < cap, NEW F,
           NEW ht \in [0 .. cap - 1 -> F \cup L],
           \A s, t \in 0 .. cap - 1 : ht[s] \in L /\ ht[t] = ht[s] => s = t
    PROVE  \E s \in 0 .. cap - 1 : ht[s] \in F
<1> SUFFICES ASSUME \A s \in 0 .. cap - 1 : ht[s] \notin F PROVE FALSE
  OBVIOUS
<1>1. ht \in [0 .. cap - 1 -> L]
  OBVIOUS
<1>2. IsFiniteSet(0 .. cap - 1) /\ Cardinality(0 .. cap - 1) = cap
  BY FS_Interval
<1>3. PICK s, t \in 0 .. cap - 1 : s # t /\ ht[s] = ht[t]
  BY <1>1, <1>2, FS_PigeonHole
<1> QED BY <1>1, <1>3

\* A position is entered into the table, in a slot that is empty or may be used again.
LEMMA EnterSlot ==
    ASSUME hash \in [Key -> Nat], NEW c, NEW ht, NEW cap, NEW L, Indexed(c, ht, cap, L),
           IsFiniteSet(L), Cardinality(L) < cap,
           NEW free, free \in {{Empty}, {Empty, Tomb}},
           ht \in [0 .. cap - 1 -> free \cup L],
           NEW i \in Nat, i \notin L, c[i].key \in Key, \A j \in L : c[j].key # c[i].key
    PROVE  /\ Indexed(c, PutSlot(ht, cap, c[i].key, i, free), cap, L \cup {i})
           /\ PutSlot(ht, cap, c[i].key, i, free) \in [0 .. cap - 1 -> free \cup L \cup {i}]
<1> DEFINE k == c[i].key
           open == {m \in 0 .. cap - 1 : ht[Probe(k, m, cap)] \in free}
           u == Probe(k, First(open), cap)
           new == [ht EXCEPT ![u] = i]
           M == L \cup {i}
<1>0. /\ cap \in Nat \ {0} /\ L \subseteq Nat /\ ht \in [0 .. cap - 1 -> {Empty, Tomb} \cup L]
      /\ \A s, t \in 0 .. cap - 1 : ht[s] \in L /\ ht[t] = ht[s] => s = t
  BY DEF Indexed
<1>1. open # {} /\ open \subseteq Nat
  <2>1. PICK s \in 0 .. cap - 1 : ht[s] \in free
    BY <1>0, FreeSlot
  <2>2. PICK m \in 0 .. cap - 1 : Probe(k, m, cap) = s
    BY <1>0, ProbeMeetsAll
  <2> QED BY <1>0, <2>1, <2>2
<1>2. First(open) \in open /\ \A m \in open : First(open) <= m
  <2> HIDE DEF open
  <2> QED BY <1>1, FirstIsLeast
<1>3. u \in 0 .. cap - 1 /\ ht[u] \in free /\ First(open) \in 0 .. cap - 1
  <2>1. First(open) \in 0 .. cap - 1 /\ ht[u] \in free
    BY <1>2
  <2> HIDE DEF open
  <2> QED BY <1>0, <2>1, ProbeInTable
<1>4. PutSlot(ht, cap, k, i, free) = new
  BY <1>1 DEF PutSlot
<1> HIDE DEF u, k
<1>5. /\ new \in [0 .. cap - 1 -> free \cup M] /\ new \in [0 .. cap - 1 -> {Empty, Tomb} \cup M]
      /\ new[u] = i /\ \A s \in 0 .. cap - 1 : s # u => new[s] = ht[s]
  BY <1>0, <1>3
<1>6. ht[u] \notin L /\ Empty \notin Nat /\ Tomb \notin Nat
  BY <1>0, <1>3 DEF Empty, Tomb
<1>7. \A s, t \in 0 .. cap - 1 : new[s] \in M /\ new[t] = new[s] => s = t
  <2> SUFFICES ASSUME NEW s \in 0 .. cap - 1, NEW t \in 0 .. cap - 1, new[s] \in M, new[t] = new[s]
               PROVE  s = t
    OBVIOUS
  <2>1. \A x \in 0 .. cap - 1 : x # u => ht[x] # i
    BY <1>0, <1>6
  <2> HIDE DEF new
  <2> QED BY <1>0, <1>5, <2>1
<1> HIDE DEF new
<1>8. \A j \in M : c[j].key \in Key
  BY DEF Indexed
<1>9. \A a, b \in M : c[a].key = c[b].key => a = b
  BY DEF Indexed
<1>10. ASSUME NEW j \in M
       PROVE  \E m \in 0 .. cap - 1 : /\ new[Probe(c[j].key, m, cap)] = j
                                      /\ \A l \in 0 .. m - 1 : new[Probe(c[j].key, l, cap)] # Empty
  <2>1. CASE j = i
    <3>1. ASSUME NEW l \in 0 .. First(open) - 1 PROVE new[Probe(k, l, cap)] # Empty
      <4>1. l \notin open /\ l \in 0 .. cap - 1
        BY <1>0, <1>2, <1>3
      <4>2. ht[Probe(k, l, cap)] \notin free
        BY <4>1
      <4>3. Probe(k, l, cap) \in 0 .. cap - 1
        <5>1. l \in Nat /\ k \in Key
          BY <4>1 DEF k
        <5> QED BY <1>0, <5>1, ProbeInTable
      <4> HIDE DEF open
      <4> QED BY <1>5, <1>6, <4>2, <4>3
    <3>2. new[Probe(k, First(open), cap)] = i
      BY <1>5 DEF u
    <3> HIDE DEF open
    <3> QED BY <1>3, <2>1, <3>1, <3>2 DEF k
  <2>2. CASE j \in L
    <3>1. PICK m \in 0 .. cap - 1 : /\ ht[Probe(c[j].key, m, cap)] = j
                                    /\ \A l \in 0 .. m - 1 : ht[Probe(c[j].key, l, cap)] # Empty
      BY <2>2 DEF Indexed
    <3>2. \A l \in 0 .. cap - 1 : Probe(c[j].key, l, cap) \in 0 .. cap - 1
      <4>1. c[j].key \in Key /\ 0 .. cap - 1 \subseteq Nat
        BY <1>0, <1>8
      <4> QED BY <1>0, <4>1, ProbeInTable
    <3>3. new[Probe(c[j].key, m, cap)] = j
      BY <1>5, <1>6, <2>2, <3>1, <3>2
    <3>4. ASSUME NEW l \in 0 .. m - 1 PROVE new[Probe(c[j].key, l, cap)] # Empty
      <4>1. l \in 0 .. cap - 1
        BY <1>0
      <4> QED BY <1>5, <1>6, <3>1, <3>2, <4>1
    <3> QED BY <3>3, <3>4
  <2> QED BY <2>1, <2>2
<1>11. Indexed(c, new, cap, M)
  BY <1>0, <1>5, <1>7, <1>8, <1>9, <1>10 DEF Indexed
<1> QED BY <1>4, <1>5, <1>11 DEF k

\* A position is taken out: its slot becomes a tombstone.
LEMMA EraseSlot ==
    ASSUME hash \in [Key -> Nat], NEW c, NEW ht, NEW cap, NEW L, Indexed(c, ht, cap, L),
           NEW s \in 0 .. cap - 1, ht[s] \in L
    PROVE  Indexed(c, [ht EXCEPT ![s] = Tomb], cap, L \ {ht[s]})
<1> DEFINE new == [ht EXCEPT ![s] = Tomb]
           M == L \ {ht[s]}
<1>0. /\ cap \in Nat \ {0} /\ L \subseteq Nat /\ ht \in [0 .. cap - 1 -> {Empty, Tomb} \cup L]
      /\ \A t, u \in 0 .. cap - 1 : ht[t] \in L /\ ht[u] = ht[t] => t = u
      /\ \A i \in L : c[i].key \in Key
      /\ \A i, j \in L : c[i].key = c[j].key => i = j
  BY DEF Indexed
<1>1. Empty \notin Nat /\ Tomb \notin Nat /\ Empty # Tomb
  BY DEF Empty, Tomb
<1>2. new[s] = Tomb /\ \A t \in 0 .. cap - 1 : t # s => new[t] = ht[t]
  BY <1>0
<1>3. new \in [0 .. cap - 1 -> {Empty, Tomb} \cup M]
  BY <1>0
<1> HIDE DEF new
<1>4. \A t, u \in 0 .. cap - 1 : new[t] \in M /\ new[u] = new[t] => t = u
  BY <1>0, <1>1, <1>2
<1>5. ASSUME NEW j \in M
      PROVE  \E m \in 0 .. cap - 1 : /\ new[Probe(c[j].key, m, cap)] = j
                                     /\ \A l \in 0 .. m - 1 : new[Probe(c[j].key, l, cap)] # Empty
  <2>1. PICK m \in 0 .. cap - 1 : /\ ht[Probe(c[j].key, m, cap)] = j
                                  /\ \A l \in 0 .. m - 1 : ht[Probe(c[j].key, l, cap)] # Empty
    BY DEF Indexed
  <2>2. \A l \in 0 .. cap - 1 : Probe(c[j].key, l, cap) \in 0 .. cap - 1
    <3>1. c[j].key \in Key /\ 0 .. cap - 1 \subseteq Nat
      BY <1>0
    <3> QED BY <1>0, <3>1, ProbeInTable
  <2>3. new[Probe(c[j].key, m, cap)] = j
    BY <1>2, <2>1, <2>2
  <2>4. ASSUME NEW l \in 0 .. m - 1 PROVE new[Probe(c[j].key, l, cap)] # Empty
    <3>1. l \in 0 .. cap - 1
      BY <1>0
    <3> QED BY <1>1, <1>2, <2>1, <2>2, <3>1
  <2> QED BY <2>3, <2>4
<1>6. M \subseteq Nat /\ \A i \in M : c[i].key \in Key
  BY <1>0
<1>7. \A i, j \in M : c[i].key = c[j].key => i = j
  BY <1>0
<1>8. Indexed(c, new, cap, M)
  BY <1>0, <1>3, <1>4, <1>5, <1>6, <1>7 DEF Indexed
<1> QED BY <1>8 DEF new

\* Where a probe for k ends: at the slot of k's entry, or nowhere, or at an empty slot.
LEMMA Seek ==
    ASSUME hash \in [Key -> Nat], NEW x, NEW L, Indexed(x.cells, x.ht, Cap(x), L),
           x.count \in Int, \A i \in L : i < x.count, NEW k \in Key, NEW intact \in BOOLEAN
    PROVE  \/ /\ EndSlot(x, k, intact) \in 0 .. Cap(x) - 1
              /\ x.ht[EndSlot(x, k, intact)] \in L
              /\ x.cells[x.ht[EndSlot(x, k, intact)]].key = k
           \/ /\ \A i \in L : x.cells[i].key # k
              /\ EndSlot(x, k, intact) = -1 \/ x.ht[EndSlot(x, k, intact)] = Empty
<1> DEFINE cap == Cap(x)
           S == Stops(x, k, intact)
           f == First(S)
<1> HIDE DEF cap, f
<1>0. /\ cap \in Nat \ {0} /\ L \subseteq Nat /\ x.ht \in [0 .. cap - 1 -> {Empty, Tomb} \cup L]
      /\ \A i, j \in L : x.cells[i].key = x.cells[j].key => i = j
  BY DEF Indexed, cap
<1>1. \A m \in 0 .. cap - 1 : Probe(k, m, cap) \in 0 .. cap - 1
  <2>1. 0 .. cap - 1 \subseteq Nat
    BY <1>0
  <2> QED BY <1>0, <2>1, ProbeInTable
<1>2. Empty \notin Nat /\ Tomb \notin Nat /\ Empty # Tomb
  BY DEF Empty, Tomb
<1>3. \A m \in 0 .. cap - 1 :
        m \in S <=> \/ x.ht[Probe(k, m, cap)] = Empty
                    \/ /\ x.ht[Probe(k, m, cap)] \in L
                       /\ x.cells[x.ht[Probe(k, m, cap)]].key = k
  BY <1>0, <1>1, <1>2 DEF Stops, Matches, cap
<1>4. S \subseteq 0 .. cap - 1
  BY DEF Stops, cap
<1> HIDE DEF S
<1>5. CASE S = {}
  <2>1. EndSlot(x, k, intact) = -1
    BY <1>5 DEF EndSlot, S
  <2>2. ASSUME NEW i \in L, x.cells[i].key = k PROVE FALSE
    <3>1. PICK m \in 0 .. cap - 1 : x.ht[Probe(x.cells[i].key, m, cap)] = i
      BY DEF Indexed, cap
    <3> QED BY <1>3, <1>5, <2>2, <3>1
  <2> QED BY <2>1, <2>2
<1>6. CASE S # {}
  <2>1. f \in S /\ \A m \in S : f <= m
    <3>1. S \subseteq Nat
      BY <1>0, <1>4
    <3> QED BY <1>6, <3>1, FirstIsLeast DEF f
  <2>2. EndSlot(x, k, intact) = Probe(k, f, cap)
    BY <1>6 DEF EndSlot, S, f, cap
  <2>3. f \in 0 .. cap - 1
    BY <1>4, <2>1
  <2>4. CASE x.ht[Probe(k, f, cap)] \in L /\ x.cells[x.ht[Probe(k, f, cap)]].key = k
    BY <1>1, <2>2, <2>3, <2>4 DEF cap
  <2>5. CASE x.ht[Probe(k, f, cap)] = Empty
    <3>1. ASSUME NEW i \in L, x.cells[i].key = k PROVE FALSE
      <4>1. PICK m \in 0 .. cap - 1 : /\ x.ht[Probe(k, m, cap)] = i
                                      /\ \A l \in 0 .. m - 1 : x.ht[Probe(k, l, cap)] # Empty
        BY <3>1 DEF Indexed, cap
      <4>2. m \in S
        BY <1>3, <3>1, <4>1
      <4>3. f <= m /\ f # m
        BY <1>0, <1>2, <2>1, <2>5, <4>1, <4>2
      <4>4. f \in 0 .. m - 1
        BY <1>0, <2>3, <4>3
      <4> QED BY <2>5, <4>1, <4>4
    <3> QED BY <2>2, <2>5, <3>1
  <2> QED BY <1>3, <2>1, <2>3, <2>4, <2>5
<1> QED BY <1>5, <1>6

\* fg_ht_rebuild, as a loop over the cells.
FillTables(n) == [0 .. CapFor(n * 2 + Slack) - 1 -> {Empty, Tomb} \cup (0 .. n - 1)]

Fills(f, cells, n) ==
    /\ f[0] = EmptyTable(n * 2 + Slack)
    /\ \A i \in 1 .. n :
          f[i] = PutSlot(f[i - 1], CapFor(n * 2 + Slack), cells[i - 1].key, i - 1, {Empty})
    /\ \A i \in 0 .. n : f[i] \in FillTables(n)
    /\ Rebuild(cells, n) = f[n]

\* The filling loop of fg_ht_rebuild has a run.
LEMMA RebuildLoop ==
    ASSUME NEW cells, NEW n \in Nat \ {0}
    PROVE  \E f : Fills(f, cells, n)
<1> DEFINE S == FillTables(n)
           cap == CapFor(n * 2 + Slack)
           a == EmptyTable(n * 2 + Slack)
           Fill(t, i) == PutSlot(t, cap, cells[i - 1].key, i - 1, {Empty})
           G == [i \in 1 .. n |-> [t \in S |-> Fill(t, i)]]
           Loop(d) == d = [i \in 0 .. n |-> IF i = 0 THEN a ELSE Fill(d[i - 1], i)]
<1>1. a \in S
  BY DEF EmptyTable, FillTables
<1>2. \A i \in 1 .. n, t \in S : Fill(t, i) \in S
  <2> SUFFICES ASSUME NEW i \in 1 .. n, NEW t \in S PROVE Fill(t, i) \in S
    OBVIOUS
  <2>1. i - 1 \in {Empty, Tomb} \cup (0 .. n - 1)
    OBVIOUS
  <2> HIDE DEF cap
  <2> QED BY <2>1, PutSlotType DEF FillTables, cap
<1> HIDE DEF S, a, Fill
<1>3. G \in Steps(n, S)
  BY <1>2 DEF Steps
<1>4. PICK f : Iterates(f, n, S, a, G)
  <2>1. n \in Nat
    OBVIOUS
  <2> HIDE DEF G
  <2> QED BY <1>1, <1>3, <2>1, Recursion
<1>5. \A i \in 1 .. n : f[i] = Fill(f[i - 1], i)
  <2> SUFFICES ASSUME NEW i \in 1 .. n PROVE f[i] = Fill(f[i - 1], i)
    OBVIOUS
  <2>1. f[i - 1] \in S
    BY <1>4 DEF Iterates
  <2> QED BY <1>4, <2>1 DEF Iterates
<1>6. Loop(f)
  BY <1>4, <1>5 DEF Iterates
<1>7. PICK d : Loop(d) /\ Rebuild(cells, n) = d[n]
  <2>1. Rebuild(cells, n) = (CHOOSE d : Loop(d))[n]
    BY DEF Rebuild, Fill, a
  <2>2. Loop(CHOOSE d : Loop(d))
    <3> HIDE DEF Loop
    <3> QED BY <1>6
  <2> HIDE DEF Loop
  <2> QED BY <2>1, <2>2
<1>8. d[0] = a /\ \A i \in 1 .. n : d[i] = Fill(d[i - 1], i)
  BY <1>7
<1>9. \A i \in 0 .. n : d[i] \in S
  <2> DEFINE T == {i \in 0 .. n : d[i] \in S}
  <2>1. 0 \in T
    BY <1>1, <1>8
  <2>2. \A i \in 1 .. n : i - 1 \in T => i \in T
    BY <1>2, <1>8
  <2>3. \A i \in 0 .. n : i \in T
    <3>1. n \in Nat
      OBVIOUS
    <3> HIDE DEF T
    <3> QED BY <2>1, <2>2, <3>1, Induction
  <2> QED BY <2>3
<1>10. Fills(d, cells, n)
  BY <1>7, <1>8, <1>9 DEF Fills, S, a, Fill
<1> QED BY <1>10

\* The size of a rebuilt table.
RebuildCap(n) == IF n = 0 THEN CapFor(MinCap) ELSE CapFor(n * 2 + Slack)

\* A rebuilt table has more slots than it gets entries.
LEMMA RebuildCapLarge ==
    ASSUME NEW n \in Nat
    PROVE  RebuildCap(n) \in Nat \ {0} /\ RebuildCap(n) > n
<1>1. MinCap \in Nat /\ n * 2 + Slack \in Nat
  BY CapAssumption
<1>2. /\ CapFor(MinCap) \in Nat \ {0}
      /\ CapFor(n * 2 + Slack) \in Nat \ {0} /\ CapFor(n * 2 + Slack) >= n * 2 + Slack
  BY <1>1, CapForLoop
<1> QED BY <1>2, CapAssumption DEF RebuildCap

\* A rebuilt table holds the numbers of the cells it was built from.
LEMMA RebuildType ==
    ASSUME NEW cells, NEW n \in Nat
    PROVE  Rebuild(cells, n) \in [0 .. RebuildCap(n) - 1 -> {Empty, Tomb} \cup (0 .. n - 1)]
<1>1. CASE n = 0
  BY <1>1 DEF Rebuild, RebuildCap, EmptyTable
<1>2. CASE n # 0
  <2>1. Rebuild(cells, n) \in FillTables(n)
    <3>1. n \in Nat \ {0}
      BY <1>2
    <3>2. PICK f : Fills(f, cells, n)
      BY <3>1, RebuildLoop
    <3> QED BY <3>2 DEF Fills
  <2> QED BY <1>2, <2>1 DEF FillTables, RebuildCap
<1> QED BY <1>1, <1>2

\* A rebuilt table holds every cell, if no two have the same key.
LEMMA RebuildIndexes ==
    ASSUME hash \in [Key -> Nat], NEW cells, NEW n \in Nat,
           \A i \in 0 .. n - 1 : cells[i].key \in Key,
           \A i, j \in 0 .. n - 1 : cells[i].key = cells[j].key => i = j
    PROVE  Indexed(cells, Rebuild(cells, n), RebuildCap(n), 0 .. n - 1)
<1>1. CASE n = 0
  <2>1. /\ 0 .. n - 1 = {} /\ RebuildCap(n) \in Nat \ {0}
        /\ Rebuild(cells, n) = [s \in 0 .. RebuildCap(n) - 1 |-> Empty]
    BY <1>1, RebuildCapLarge DEF Rebuild, RebuildCap, EmptyTable
  <2> QED BY <2>1 DEF Indexed
<1>2. CASE n # 0
  <2> DEFINE cap == RebuildCap(n)
             Filled(t, i) == /\ Indexed(cells, t, cap, 0 .. i - 1)
                             /\ t \in [0 .. cap - 1 -> {Empty} \cup (0 .. i - 1)]
  <2> HIDE DEF cap
  <2>1. cap \in Nat \ {0} /\ cap > n /\ cap = CapFor(n * 2 + Slack)
    BY <1>2, RebuildCapLarge DEF cap, RebuildCap
  <2>2. PICK f : /\ f[0] = EmptyTable(n * 2 + Slack)
                 /\ \A i \in 1 .. n :
                       f[i] = PutSlot(f[i - 1], cap, cells[i - 1].key, i - 1, {Empty})
                 /\ Rebuild(cells, n) = f[n]
    <3>1. n \in Nat \ {0}
      BY <1>2
    <3>2. PICK f : Fills(f, cells, n)
      BY <3>1, RebuildLoop
    <3> QED BY <2>1, <3>2 DEF Fills
  <2> DEFINE T == {i \in 0 .. n : Filled(f[i], i)}
  <2>3. 0 \in T
    <3>1. f[0] = [s \in 0 .. cap - 1 |-> Empty] /\ 0 .. 0 - 1 = {}
      BY <2>1, <2>2 DEF EmptyTable
    <3>2. Filled(f[0], 0)
      BY <2>1, <3>1 DEF Indexed
    <3> HIDE DEF Filled
    <3> QED BY <3>2
  <2>4. \A i \in 1 .. n : i - 1 \in T => i \in T
    <3> SUFFICES ASSUME NEW i \in 1 .. n, i - 1 \in T PROVE i \in T
      OBVIOUS
    <3> DEFINE L == 0 .. (i - 1) - 1
               l == i - 1
    <3>1. Filled(f[l], l)
      <4> HIDE DEF Filled
      <4> QED OBVIOUS
    <3>2. IsFiniteSet(L) /\ Cardinality(L) = i - 1 /\ Cardinality(L) < cap
      <4>1. 0 \in Int /\ (i - 1) - 1 \in Int /\ i - 1 < cap
        BY <2>1
      <4>2. (IF 0 > (i - 1) - 1 THEN 0 ELSE ((i - 1) - 1) - 0 + 1) = i - 1
        OBVIOUS
      <4>3. IsFiniteSet(L) /\ Cardinality(L) = i - 1
        BY <4>1, <4>2, FS_Interval
      <4> QED BY <4>1, <4>3
    <3>3. /\ l \in Nat /\ l \notin L /\ l \in 0 .. n - 1 /\ L \subseteq 0 .. n - 1
          /\ L \cup {l} = 0 .. i - 1
      OBVIOUS
    <3>4. cells[l].key \in Key /\ \A j \in L : cells[j].key # cells[l].key
      BY <3>3
    <3>5. f[i] = PutSlot(f[l], cap, cells[l].key, l, {Empty})
      BY <2>2
    <3> HIDE DEF L, l
    <3>6. /\ Indexed(cells, PutSlot(f[l], cap, cells[l].key, l, {Empty}), cap, L \cup {l})
          /\ PutSlot(f[l], cap, cells[l].key, l, {Empty})
                \in [0 .. cap - 1 -> {Empty} \cup L \cup {l}]
      <4>1. Indexed(cells, f[l], cap, L) /\ f[l] \in [0 .. cap - 1 -> {Empty} \cup L]
        BY <3>1 DEF L, l
      <4>2. {Empty} \in {{Empty}, {Empty, Tomb}}
        OBVIOUS
      <4> QED BY <3>2, <3>3, <3>4, <4>1, <4>2, EnterSlot
    <3>7. Filled(f[i], i)
      <4>1. {Empty} \cup L \cup {l} = {Empty} \cup (0 .. i - 1)
        BY <3>3
      <4>2. f[i] \in [0 .. cap - 1 -> {Empty} \cup (0 .. i - 1)]
        BY ONLY <3>5, <3>6, <4>1
      <4>3. Indexed(cells, f[i], cap, 0 .. i - 1)
        BY <3>3, <3>5, <3>6
      <4> QED BY <4>2, <4>3
    <3> HIDE DEF Filled
    <3> QED BY <3>7
  <2>5. n \in T
    <3>1. \A i \in 0 .. n : i \in T
      <4> HIDE DEF T
      <4> QED BY <2>3, <2>4, Induction
    <3> QED BY <3>1
  <2> QED BY <2>2, <2>5 DEF cap
<1> QED BY <1>1, <1>2

\* Only the keys of the entries matter.
LEMMA SameKeys ==
    ASSUME NEW c, NEW d, NEW ht, NEW cap, NEW L, Indexed(c, ht, cap, L),
           \A i \in L : d[i].key = c[i].key
    PROVE  Indexed(d, ht, cap, L)
<1>1. \A i \in L : \E j \in 0 .. cap - 1 :
          /\ ht[Probe(d[i].key, j, cap)] = i
          /\ \A m \in 0 .. j - 1 : ht[Probe(d[i].key, m, cap)] # Empty
  <2> SUFFICES ASSUME NEW i \in L
               PROVE  \E j \in 0 .. cap - 1 :
                         /\ ht[Probe(d[i].key, j, cap)] = i
                         /\ \A m \in 0 .. j - 1 : ht[Probe(d[i].key, m, cap)] # Empty
    OBVIOUS
  <2>1. d[i].key = c[i].key
    OBVIOUS
  <2>2. PICK j \in 0 .. cap - 1 : /\ ht[Probe(c[i].key, j, cap)] = i
                                  /\ \A m \in 0 .. j - 1 : ht[Probe(c[i].key, m, cap)] # Empty
    BY DEF Indexed
  <2> QED BY ONLY <2>1, <2>2
<1>2. /\ \A i \in L : d[i].key \in Key
      /\ \A i, j \in L : d[i].key = d[j].key => i = j
  BY DEF Indexed
<1> QED BY <1>1, <1>2 DEF Indexed

-----------------------------------------------------------------------------
(* The struct *)

\* What a slot holds; what a table is; what a struct fastgit_index is.
Slot == {Empty, Tomb} \cup Cells
Tables == UNION {[0 .. n - 1 -> Slot] : n \in Nat \ {0}}
Shape == [cells : [Cells -> Entry \cup {NoEntry}], count : 0 .. MaxEntries, ht : Tables,
          sorted : BOOLEAN, dirty : BOOLEAN]

\* A well-formed index; one whose table holds exactly the live entries.
Good(x) == x \in Shape /\ \A i \in Live(x) : x.cells[i] \in Entry
InStep(x) == Indexed(x.cells, x.ht, Cap(x), Live(x))

\* The capacity of a table is the number of its slots.
LEMMA TableCap ==
    ASSUME NEW n \in Nat \ {0}, NEW V, NEW t \in [0 .. n - 1 -> V]
    PROVE  Cardinality(DOMAIN t) = n
<1>1. DOMAIN t = 0 .. n - 1 /\ 0 \in Int /\ n - 1 \in Int /\ ~(0 > n - 1) /\ (n - 1) - 0 + 1 = n
  OBVIOUS
<1> QED BY <1>1, FS_Interval

\* A well-formed index has a table of at least one slot.
LEMMA ShapeCap ==
    ASSUME NEW x \in Shape
    PROVE  Cap(x) \in Nat \ {0} /\ x.ht \in [0 .. Cap(x) - 1 -> Slot]
<1>1. x.ht \in Tables
  BY DEF Shape
<1>2. PICK n \in Nat \ {0} : x.ht \in [0 .. n - 1 -> Slot]
  BY <1>1 DEF Tables
<1>3. Cap(x) = n
  BY <1>2, TableCap DEF Cap
<1> QED BY <1>2, <1>3

\* What a table is.
LEMMA TableType ==
    ASSUME NEW n \in Nat \ {0}, NEW t \in [0 .. n - 1 -> Slot]
    PROVE  t \in Tables
<1> DEFINE F(m) == [0 .. m - 1 -> Slot]
<1>1. t \in F(n)
  OBVIOUS
<1> HIDE DEF F
<1>2. t \in UNION {F(m) : m \in Nat \ {0}}
  BY <1>1
<1> QED BY <1>2 DEF Tables, F

\* fg_ht_rebuild leaves a table.
LEMMA RebuildTable ==
    ASSUME NEW cells, NEW n \in 0 .. MaxEntries
    PROVE  Rebuild(cells, n) \in Tables
<1>1. n \in Nat /\ {Empty, Tomb} \cup (0 .. n - 1) \subseteq Slot
  BY BoundAssumption DEF Slot, Cells
<1>2. Rebuild(cells, n) \in [0 .. RebuildCap(n) - 1 -> {Empty, Tomb} \cup (0 .. n - 1)]
  BY <1>1, RebuildType
<1>3. Rebuild(cells, n) \in [0 .. RebuildCap(n) - 1 -> Slot]
  BY <1>1, <1>2
<1> QED BY <1>1, <1>3, RebuildCapLarge, TableType

\* What an entry is; a cell with a key that exists holds an entry.
LEMMA KeyOfEntry == /\ \A e \in Entry : e.key \in Key /\ e.oid \in Oid
                    /\ \A e \in Entry \cup {NoEntry} : e.key \in Key => e \in Entry
                    /\ \A e \in Entry, o \in Oid : [e EXCEPT !.oid = o] \in Entry
                    /\ \A k \in Key, o \in Oid : [key |-> k, oid |-> o] \in Entry
BY NoKeyAssumption DEF Entry, NoEntry

\* What a search returns, whatever the state of the table.
LEMMA FindRange ==
    ASSUME hash \in [Key -> Nat], NEW x \in Shape, NEW k \in Key, NEW intact \in BOOLEAN
    PROVE  \/ HtFind(x, k, intact) = -1
           \/ /\ HtFind(x, k, intact) \in Cells /\ HtFind(x, k, intact) \in Nat
              /\ x.cells[HtFind(x, k, intact)].key = k
<1> DEFINE S == Stops(x, k, intact)
           e == EndSlot(x, k, intact)
<1>1. Cap(x) \in Nat \ {0} /\ x.ht \in [0 .. Cap(x) - 1 -> Slot]
  BY ShapeCap
<1>2. CASE S = {}
  BY <1>2 DEF EndSlot, HtFind
<1>3. CASE S # {}
  <2>1. S \subseteq 0 .. Cap(x) - 1 /\ S \subseteq Nat
    BY <1>1 DEF Stops
  <2>2. First(S) \in S /\ e = Probe(k, First(S), Cap(x))
    <3>1. First(S) \in S
      <4> HIDE DEF S
      <4> QED BY <1>3, <2>1, FirstIsLeast
    <3> QED BY <1>3, <3>1 DEF EndSlot
  <2>3. x.ht[e] = Empty \/ Matches(x, x.ht[e], k, intact)
    BY <2>2 DEF Stops
  <2>4. e \in 0 .. Cap(x) - 1
    BY <1>1, <2>1, <2>2, ProbeInTable
  <2>5. x.ht[e] \in Slot /\ e # -1
    BY <1>1, <2>4
  <2> HIDE DEF e
  <2>6. HtFind(x, k, intact) = IF x.ht[e] = Empty THEN -1 ELSE x.ht[e]
    BY <2>5 DEF HtFind, e
  <2>7. CASE x.ht[e] = Empty
    BY <2>6, <2>7
  <2>8. CASE x.ht[e] # Empty
    <3>1. x.ht[e] \in Cells /\ x.cells[x.ht[e]].key = k
      BY <2>3, <2>5, <2>8 DEF Matches, Slot
    <3> QED BY <2>6, <2>8, <3>1, BoundAssumption DEF Cells
  <2> QED BY <2>7, <2>8
<1> QED BY <1>2, <1>3

\* fg_ht_remove changes slots only.
LEMMA RemoveShape ==
    ASSUME NEW x, Good(x), NEW k, NEW intact
    PROVE  /\ Good(HtRemove(x, k, intact)) /\ Cap(HtRemove(x, k, intact)) = Cap(x)
           /\ HtRemove(x, k, intact) = [x EXCEPT !.ht = HtRemove(x, k, intact).ht]
<1> DEFINE e == EndSlot(x, k, intact)
           t == [x.ht EXCEPT ![e] = Tomb]
<1>1. x \in Shape /\ Cap(x) \in Nat \ {0} /\ x.ht \in [0 .. Cap(x) - 1 -> Slot]
  BY ShapeCap DEF Good
<1>2. t \in [0 .. Cap(x) - 1 -> Slot] /\ DOMAIN t = DOMAIN x.ht
  BY <1>1 DEF Slot
<1>3. t \in Tables
  BY <1>1, <1>2, TableType
<1> HIDE DEF e, t
<1>4. HtRemove(x, k, intact) = x \/ HtRemove(x, k, intact) = [x EXCEPT !.ht = t]
  BY DEF HtRemove, e, t
<1>5. CASE HtRemove(x, k, intact) = x
  BY <1>1, <1>5 DEF Shape
<1>6. CASE HtRemove(x, k, intact) = [x EXCEPT !.ht = t]
  <2>1. [x EXCEPT !.ht = t] \in Shape
    BY <1>1, <1>3 DEF Shape
  <2> QED BY <1>1, <1>2, <1>6, <2>1 DEF Good, Shape, Live, Cap
<1> QED BY <1>4, <1>5, <1>6

\* fg_ht_insert changes the table only.
LEMMA InsertShape ==
    ASSUME NEW x, Good(x), NEW k, NEW i \in Cells
    PROVE  /\ Good(HtInsert(x, k, i))
           /\ HtInsert(x, k, i) = [x EXCEPT !.ht = HtInsert(x, k, i).ht]
<1> DEFINE h == IF MustGrow(x) THEN Rebuild(x.cells, x.count) ELSE x.ht
           t == PutSlot(h, Cardinality(DOMAIN h), k, i, {Empty, Tomb})
<1>1. x \in Shape /\ x.count \in 0 .. MaxEntries
  BY DEF Good, Shape
<1>2. h \in Tables
  BY <1>1, RebuildTable DEF Shape
<1>3. PICK n \in Nat \ {0} : h \in [0 .. n - 1 -> Slot]
  <2> HIDE DEF h
  <2> QED BY <1>2 DEF Tables
<1>4. t \in [0 .. n - 1 -> Slot]
  <2> HIDE DEF h
  <2>1. i \in Slot /\ Cardinality(DOMAIN h) = n
    BY <1>3, TableCap DEF Slot
  <2> QED BY <1>3, <2>1, PutSlotType
<1>5. t \in Tables
  BY <1>4, TableType
<1>6. HtInsert(x, k, i) = [x EXCEPT !.ht = t]
  BY DEF HtInsert
<1> HIDE DEF t
<1>7. [x EXCEPT !.ht = t] \in Shape
  BY <1>1, <1>5 DEF Shape
<1> QED BY <1>1, <1>6, <1>7 DEF Good, Shape, Live

\* Replacing or appending an entry keeps the index well-formed, by one cell at most.
LEMMA PutShape ==
    ASSUME hash \in [Key -> Nat], NEW x, Good(x), x.count < MaxEntries,
           NEW k \in Key, NEW o \in Oid, NEW intact \in BOOLEAN
    PROVE  Good(Put(x, k, o, intact)) /\ Put(x, k, o, intact).count <= x.count + 1
<1> DEFINE f == HtFind(x, k, intact)
           e == [key |-> k, oid |-> o]
           y == [x EXCEPT !.cells[x.count] = e]
           z == HtInsert(y, k, x.count)
           v == [x EXCEPT !.cells[f].oid = o]
           w == [z EXCEPT !.count = x.count + 1, !.sorted = FALSE]
<1>1. /\ x \in Shape /\ x.count \in 0 .. MaxEntries /\ x.count \in Cells /\ e \in Entry
      /\ x.cells \in [Cells -> Entry \cup {NoEntry}] /\ Live(x) \subseteq Cells
      /\ \A i \in Live(x) : x.cells[i] \in Entry
  BY BoundAssumption, KeyOfEntry DEF Good, Shape, Cells, Live
<1>2. CASE f >= 0
  <2>1. f \in Cells /\ x.cells[f].key = k
    BY <1>1, <1>2, FindRange
  <2>2. x.cells[f] \in Entry
    BY <1>1, <2>1, KeyOfEntry
  <2>3. [x.cells[f] EXCEPT !.oid = o] \in Entry
    BY <2>2, KeyOfEntry
  <2> HIDE DEF f
  <2>4. v = [x EXCEPT !.cells = [x.cells EXCEPT ![f] = [x.cells[f] EXCEPT !.oid = o]]]
    OBVIOUS
  <2>5. Good(v) /\ v.count = x.count
    BY <1>1, <2>1, <2>3, <2>4 DEF Good, Shape, Live
  <2> QED BY <1>1, <1>2, <2>5 DEF Put, f
<1>3. CASE ~(f >= 0)
  <2> HIDE DEF e
  <2>1. Good(y) /\ y.count = x.count /\ y.cells = [x.cells EXCEPT ![x.count] = e]
    BY <1>1 DEF Good, Shape, Live
  <2> HIDE DEF y
  <2>2. Good(z) /\ z = [y EXCEPT !.ht = z.ht]
    BY <1>1, <2>1, InsertShape
  <2> HIDE DEF z
  <2>3. z.cells = y.cells /\ z.count = x.count
    BY <2>1, <2>2 DEF Good, Shape
  <2>4. x.count + 1 \in 0 .. MaxEntries /\ Live(w) = 0 .. x.count
    BY <1>1, <2>2, BoundAssumption DEF Live, Good, Shape
  <2>5. w \in Shape /\ w.cells = z.cells /\ w.count = x.count + 1
    BY <2>2, <2>4 DEF Good, Shape
  <2>6. \A i \in 0 .. x.count : w.cells[i] \in Entry
    <3> SUFFICES ASSUME NEW i \in 0 .. x.count PROVE w.cells[i] \in Entry
      OBVIOUS
    <3>1. w.cells = [x.cells EXCEPT ![x.count] = e]
      BY <2>1, <2>3, <2>5
    <3>2. i = x.count \/ i \in Live(x)
      BY <1>1 DEF Live
    <3> HIDE DEF w
    <3> QED BY <1>1, <3>1, <3>2
  <2>7. Good(w)
    BY <2>4, <2>5, <2>6 DEF Good
  <2> HIDE DEF w
  <2> QED BY <1>1, <1>3, <2>5, <2>7 DEF Put, w, z, y, e
<1> QED BY <1>2, <1>3

-----------------------------------------------------------------------------
(* An index in step *)

\* fg_ht_find takes a live key to its entry and every other key nowhere.
LEMMA FindInStep ==
    ASSUME hash \in [Key -> Nat], NEW x, Good(x), InStep(x), NEW k \in Key, NEW intact \in BOOLEAN
    PROVE  IF \E i \in Live(x) : x.cells[i].key = k
           THEN /\ HtFind(x, k, intact) \in Live(x)
                /\ x.cells[HtFind(x, k, intact)].key = k
           ELSE HtFind(x, k, intact) = -1
<1> DEFINE e == EndSlot(x, k, intact)
<1>1. /\ x.count \in Int /\ \A i \in Live(x) : i < x.count
      /\ Indexed(x.cells, x.ht, Cap(x), Live(x))
  BY BoundAssumption DEF Good, Shape, Live, InStep
<1>2. \/ e \in 0 .. Cap(x) - 1 /\ x.ht[e] \in Live(x) /\ x.cells[x.ht[e]].key = k
      \/ (\A i \in Live(x) : x.cells[i].key # k) /\ (e = -1 \/ x.ht[e] = Empty)
  <2> PICK L : L = Live(x)
    OBVIOUS
  <2>1. Indexed(x.cells, x.ht, Cap(x), L) /\ \A i \in L : i < x.count
    BY <1>1
  <2> QED BY <1>1, <2>1, Seek
<1> HIDE DEF e
<1>3. CASE e \in 0 .. Cap(x) - 1 /\ x.ht[e] \in Live(x) /\ x.cells[x.ht[e]].key = k
  <2>1. e # -1 /\ x.ht[e] # Empty
    BY <1>1, <1>3 DEF Empty, Live, Indexed
  <2>2. HtFind(x, k, intact) = x.ht[e]
    BY <2>1 DEF HtFind, e
  <2> QED BY <1>3, <2>2
<1>4. CASE (\A i \in Live(x) : x.cells[i].key # k) /\ (e = -1 \/ x.ht[e] = Empty)
  <2>1. HtFind(x, k, intact) = -1
    BY <1>4 DEF HtFind, e
  <2> QED BY <1>4, <2>1
<1> QED BY <1>2, <1>3, <1>4

\* A set of live cells is finite, and no larger than their number.
LEMMA LiveSize ==
    ASSUME NEW n \in Nat, NEW L, L \subseteq 0 .. n - 1
    PROVE  IsFiniteSet(L) /\ Cardinality(L) \in Nat /\ Cardinality(L) <= n
<1>1. 0 \in Int /\ n - 1 \in Int /\ (IF 0 > n - 1 THEN 0 ELSE (n - 1) - 0 + 1) = n
  OBVIOUS
<1>2. IsFiniteSet(0 .. n - 1) /\ Cardinality(0 .. n - 1) = n
  BY <1>1, FS_Interval
<1>3. L \in SUBSET (0 .. n - 1)
  OBVIOUS
<1> QED BY <1>2, <1>3, FS_Subset, FS_CardinalityType

\* The table fg_ht_insert works on.
Grown(x) == IF MustGrow(x) THEN Rebuild(x.cells, x.count) ELSE x.ht

\* The table fg_ht_insert writes to holds what the old one held and has room.
LEMMA GrownIndexes ==
    ASSUME hash \in [Key -> Nat], NEW x, Good(x),
           NEW L, L \subseteq Live(x), Indexed(x.cells, x.ht, Cap(x), L),
           MustGrow(x) => L = Live(x)
    PROVE  /\ Indexed(x.cells, Grown(x), Cardinality(DOMAIN Grown(x)), L)
           /\ Cardinality(DOMAIN Grown(x)) \in Nat /\ x.count < Cardinality(DOMAIN Grown(x))
<1>1. /\ x \in Shape /\ x.count \in Nat /\ x.count \in 0 .. MaxEntries
      /\ \A i \in Live(x) : x.cells[i] \in Entry
  BY BoundAssumption DEF Good, Shape
<1>2. CASE MustGrow(x)
  <2> DEFINE n == RebuildCap(x.count)
             t == Rebuild(x.cells, x.count)
  <2>1. t \in [0 .. n - 1 -> {Empty, Tomb} \cup (0 .. x.count - 1)]
    BY <1>1, RebuildType
  <2>2. n \in Nat \ {0} /\ n > x.count
    BY <1>1, RebuildCapLarge
  <2>3. Cardinality(DOMAIN t) = n
    <3> HIDE DEF t, n
    <3> QED BY <2>1, <2>2, TableCap
  <2>4. /\ \A i \in 0 .. x.count - 1 : x.cells[i].key \in Key
        /\ \A i, j \in 0 .. x.count - 1 : x.cells[i].key = x.cells[j].key => i = j
    BY <1>2 DEF Indexed, Live
  <2>5. Indexed(x.cells, t, n, 0 .. x.count - 1)
    BY <1>1, <2>4, RebuildIndexes
  <2>6. Grown(x) = t
    BY <1>2 DEF Grown
  <2> HIDE DEF t, n
  <2> QED BY <1>1, <1>2, <2>2, <2>3, <2>5, <2>6 DEF Live
<1>3. CASE ~MustGrow(x)
  <2>1. Cap(x) \in Nat \ {0}
    BY <1>1, ShapeCap
  <2>2. x.count < Cap(x)
    BY <1>1, <1>3, <2>1, CapAssumption DEF MustGrow
  <2> QED BY <1>3, <2>1, <2>2 DEF Grown, Cap
<1> QED BY <1>2, <1>3

\* fg_ht_insert of a key that is not in the table.
LEMMA InsertIndexes ==
    ASSUME hash \in [Key -> Nat], NEW x, Good(x),
           NEW L, L \subseteq Live(x), Indexed(x.cells, x.ht, Cap(x), L),
           MustGrow(x) => L = Live(x),
           NEW i \in Cells, i \notin L, x.cells[i].key \in Key,
           \A j \in L : x.cells[j].key # x.cells[i].key
    PROVE  LET y == HtInsert(x, x.cells[i].key, i)
           IN  Indexed(x.cells, y.ht, Cap(y), L \cup {i})
<1> DEFINE h == Grown(x)
           n == Cardinality(DOMAIN h)
           k == x.cells[i].key
           t == PutSlot(h, n, k, i, {Empty, Tomb})
           y == HtInsert(x, k, i)
<1>1. x \in Shape /\ x.count \in Nat
  BY BoundAssumption DEF Good, Shape
<1>2. Indexed(x.cells, h, n, L) /\ n \in Nat /\ x.count < n
  BY GrownIndexes
<1> HIDE DEF h, n
<1>3. IsFiniteSet(L) /\ Cardinality(L) < n
  <2>1. L \subseteq 0 .. x.count - 1
    BY DEF Live
  <2>2. IsFiniteSet(L) /\ Cardinality(L) \in Nat /\ Cardinality(L) <= x.count
    BY <1>1, <2>1, LiveSize
  <2> QED BY <1>1, <1>2, <2>2
<1>4. i \in Nat /\ h \in [0 .. n - 1 -> {Empty, Tomb} \cup L]
  BY <1>2, BoundAssumption DEF Indexed, Cells
<1>5. Indexed(x.cells, t, n, L \cup {i}) /\ t \in [0 .. n - 1 -> {Empty, Tomb} \cup L \cup {i}]
  BY <1>2, <1>3, <1>4, EnterSlot
<1>6. y = [x EXCEPT !.ht = t]
  BY DEF HtInsert, Grown, h, n
<1>7. y.ht = t
  <2> HIDE DEF t
  <2> QED BY <1>1, <1>6 DEF Shape
<1>8. Cap(y) = n
  <2> HIDE DEF t
  <2>1. n \in Nat \ {0}
    BY <1>2 DEF Indexed
  <2>2. Cardinality(DOMAIN t) = n
    BY <1>5, <2>1, TableCap
  <2> QED BY <1>7, <2>2 DEF Cap
<1> HIDE DEF t, y, k
<1>9. Indexed(x.cells, y.ht, Cap(y), L \cup {i})
  BY <1>5, <1>7, <1>8
<1> QED BY <1>9 DEF y, k

\* fg_ht_remove of a key in the table takes its position out.
LEMMA RemoveIndexes ==
    ASSUME hash \in [Key -> Nat], NEW x, Good(x),
           NEW L, L \subseteq Live(x), Indexed(x.cells, x.ht, Cap(x), L),
           NEW i \in L, NEW intact \in BOOLEAN
    PROVE  LET y == HtRemove(x, x.cells[i].key, intact)
           IN  Indexed(x.cells, y.ht, Cap(x), L \ {i})
<1> DEFINE k == x.cells[i].key
           e == EndSlot(x, k, intact)
           t == [x.ht EXCEPT ![e] = Tomb]
           y == HtRemove(x, k, intact)
<1>1. /\ x \in Shape /\ x.count \in Int /\ \A j \in L : j < x.count
      /\ k \in Key /\ L \subseteq Nat
  BY BoundAssumption DEF Good, Shape, Indexed, Live
<1>2. e \in 0 .. Cap(x) - 1 /\ x.ht[e] \in L /\ x.cells[x.ht[e]].key = k
  <2> HIDE DEF k
  <2>1. \/ e \in 0 .. Cap(x) - 1 /\ x.ht[e] \in L /\ x.cells[x.ht[e]].key = k
        \/ (\A j \in L : x.cells[j].key # k) /\ (e = -1 \/ x.ht[e] = Empty)
    BY <1>1, Seek
  <2> QED BY <2>1 DEF k
<1> HIDE DEF e
<1>3. x.ht[e] = i /\ e # -1 /\ x.ht[e] # Empty
  <2>1. x.ht[e] = i
    BY <1>2 DEF Indexed
  <2>2. Cap(x) \in Nat
    BY DEF Indexed
  <2> QED BY <1>1, <1>2, <2>1, <2>2 DEF Empty
<1>4. Indexed(x.cells, t, Cap(x), L \ {i})
  <2>1. Indexed(x.cells, [x.ht EXCEPT ![e] = Tomb], Cap(x), L \ {x.ht[e]})
    BY <1>2, EraseSlot
  <2> QED BY <1>3, <2>1
<1>5. y = [x EXCEPT !.ht[e] = Tomb]
  BY <1>3 DEF HtRemove, e
<1>6. y.ht = t
  BY <1>1, <1>5 DEF Shape
<1> HIDE DEF y, t, k
<1>7. Indexed(x.cells, y.ht, Cap(x), L \ {i})
  BY <1>4, <1>6
<1> QED BY <1>7 DEF y, k

\* Put keeps table and array in step.
LEMMA PutInStep ==
    ASSUME hash \in [Key -> Nat], NEW x, Good(x), InStep(x), x.count < MaxEntries,
           NEW k \in Key, NEW o \in Oid, NEW intact \in BOOLEAN
    PROVE  InStep(Put(x, k, o, intact))
<1> DEFINE f == HtFind(x, k, intact)
           c == [key |-> k, oid |-> o]
           y == [x EXCEPT !.cells[x.count] = c]
           z == HtInsert(y, k, x.count)
           v == [x EXCEPT !.cells[f].oid = o]
           w == [z EXCEPT !.count = x.count + 1, !.sorted = FALSE]
<1>1. /\ x \in Shape /\ x.count \in Nat /\ x.count \in Cells /\ c \in Entry /\ c.key = k
      /\ x.cells \in [Cells -> Entry \cup {NoEntry}] /\ Live(x) \subseteq Cells
      /\ Indexed(x.cells, x.ht, Cap(x), Live(x))
  BY BoundAssumption, KeyOfEntry DEF Good, Shape, Cells, Live, InStep
<1>2. CASE f >= 0
  <2>1. f \in Cells /\ x.cells[f].key = k
    BY <1>1, <1>2, FindRange
  <2> HIDE DEF f
  <2>2. v.ht = x.ht /\ v.count = x.count /\ v.cells = [x.cells EXCEPT ![f].oid = o]
    BY <1>1 DEF Shape
  <2> HIDE DEF v
  <2>3. x.cells[f] \in Entry
    BY <1>1, <2>1, KeyOfEntry
  <2>4. \A i \in Live(x) : v.cells[i].key = x.cells[i].key
    BY <1>1, <2>1, <2>2, <2>3 DEF Entry
  <2>5. Indexed(v.cells, x.ht, Cap(x), Live(x))
    BY <1>1, <2>4, SameKeys
  <2>6. InStep(v)
    BY <2>2, <2>5 DEF InStep, Live, Cap
  <2> QED BY <1>2, <2>6 DEF Put, f, v
<1>3. CASE ~(f >= 0)
  <2> HIDE DEF c
  <2>1. Good(y) /\ y.count = x.count /\ y.ht = x.ht /\ y.cells = [x.cells EXCEPT ![x.count] = c]
    BY <1>1 DEF Good, Shape, Live
  <2> HIDE DEF y
  <2>2. /\ Live(y) = Live(x) /\ Cap(y) = Cap(x)
        /\ \A i \in Live(x) : i # x.count
    BY <1>1, <2>1 DEF Live, Cap
  <2>3. \A i \in Live(x) : y.cells[i].key = x.cells[i].key
    BY <1>1, <2>1, <2>2
  <2>4. Indexed(y.cells, y.ht, Cap(y), Live(y))
    <3>1. Indexed(y.cells, x.ht, Cap(x), Live(x))
      BY <1>1, <2>3, SameKeys
    <3> QED BY <2>1, <2>2, <3>1
  <2>5. y.cells[x.count].key = k
    BY <1>1, <2>1
  <2>6. \A j \in Live(y) : y.cells[j].key # k
    <3>1. \A j \in Live(x) : x.cells[j].key # k
      <4>1. IF \E i \in Live(x) : x.cells[i].key = k
            THEN f \in Live(x) /\ x.cells[f].key = k
            ELSE f = -1
        BY FindInStep
      <4> HIDE DEF f
      <4> QED BY <1>1, <1>3, <4>1 DEF Live
    <3> QED BY <2>2, <2>3, <3>1
  <2>7. Indexed(y.cells, z.ht, Cap(z), Live(y) \cup {x.count})
    <3>1. x.count \notin Live(y)
      BY <2>2
    <3> QED BY <1>1, <2>1, <2>4, <2>5, <2>6, <3>1, InsertIndexes
  <2>8. Good(z) /\ z = [y EXCEPT !.ht = z.ht]
    BY <1>1, <2>1, InsertShape
  <2> HIDE DEF z
  <2>9. z.cells = y.cells
    BY <2>1, <2>8 DEF Good, Shape
  <2>10. w.cells = z.cells /\ w.ht = z.ht /\ w.count = x.count + 1
    BY <2>8 DEF Good, Shape
  <2> HIDE DEF w
  <2>11. Live(w) = Live(y) \cup {x.count} /\ Cap(w) = Cap(z)
    BY <1>1, <2>1, <2>10 DEF Live, Cap
  <2>12. InStep(w)
    BY <2>7, <2>9, <2>10, <2>11 DEF InStep
  <2> QED BY <1>3, <2>12 DEF Put, w, z, y, c, f
<1> QED BY <1>2, <1>3

\* Forgetting dead cells changes no live one.
LEMMA ForgetIs ==
    ASSUME NEW x \in Shape
    PROVE  /\ Forget(x) \in Shape
           /\ Forget(x) = [x EXCEPT !.cells = Forget(x).cells]
           /\ \A i \in Live(x) : Forget(x).cells[i] = x.cells[i]
<1> DEFINE P == {x.ht[s] : s \in DOMAIN x.ht}
           c == [i \in Cells |-> IF i < x.count \/ i \in P THEN x.cells[i] ELSE NoEntry]
<1>1. Forget(x) = [x EXCEPT !.cells = c]
  BY DEF Forget
<1>2. /\ x.cells \in [Cells -> Entry \cup {NoEntry}] /\ x.count \in 0 .. MaxEntries
      /\ Live(x) \subseteq Cells /\ \A i \in Live(x) : i < x.count
  BY BoundAssumption DEF Shape, Live, Cells
<1> HIDE DEF P
<1>3. c \in [Cells -> Entry \cup {NoEntry}]
  BY <1>2
<1>4. \A i \in Live(x) : c[i] = x.cells[i]
  BY <1>2
<1> HIDE DEF c
<1> QED BY <1>1, <1>3, <1>4 DEF Shape

\* Forgetting dead cells keeps the index well-formed.
LEMMA ForgetShape ==
    ASSUME NEW x, Good(x)
    PROVE  /\ Good(Forget(x)) /\ Forget(x).count = x.count /\ Live(Forget(x)) = Live(x)
           /\ Forget(x).sorted = x.sorted /\ Forget(x).dirty = x.dirty
<1> PICK y : y = Forget(x)
  OBVIOUS
<1>1. /\ x \in Shape /\ y \in Shape /\ y = [x EXCEPT !.cells = y.cells]
      /\ \A i \in Live(x) : y.cells[i] = x.cells[i]
  BY ForgetIs DEF Good
<1>2. y.count = x.count /\ y.sorted = x.sorted /\ y.dirty = x.dirty
  BY <1>1 DEF Shape
<1> QED BY <1>1, <1>2 DEF Good, Live

\* Forgetting dead cells keeps the table in step.
LEMMA ForgetInStep ==
    ASSUME NEW x \in Shape, InStep(x)
    PROVE  InStep(Forget(x))
<1> PICK y : y = Forget(x)
  OBVIOUS
<1>1. /\ x \in Shape /\ y = [x EXCEPT !.cells = y.cells]
      /\ \A i \in Live(x) : y.cells[i].key = x.cells[i].key
  BY ForgetIs
<1>2. y.count = x.count /\ y.ht = x.ht
  BY <1>1 DEF Shape
<1>3. Indexed(y.cells, x.ht, Cap(x), Live(x))
  BY <1>1, SameKeys DEF InStep
<1> QED BY <1>2, <1>3 DEF InStep, Live, Cap

\* Rebuilding restores the agreement where no key occurs twice.
LEMMA RebuiltShape ==
    ASSUME NEW x, Good(x)
    PROVE  Good(Rebuilt(x)) /\ Rebuilt(x) = [x EXCEPT !.ht = Rebuild(x.cells, x.count)]
<1>1. x \in Shape /\ x.count \in 0 .. MaxEntries
  BY DEF Good, Shape
<1>2. Rebuild(x.cells, x.count) \in Tables
  BY <1>1, RebuildTable
<1>3. [x EXCEPT !.ht = Rebuild(x.cells, x.count)] \in Shape
  BY <1>1, <1>2 DEF Shape
<1> QED BY <1>1, <1>3 DEF Rebuilt, Good, Shape, Live

\* fg_ht_rebuild brings the table in step when no key occurs twice.
LEMMA RebuiltInStep ==
    ASSUME hash \in [Key -> Nat], NEW x, Good(x), Unique(x), NEW y,
           y.cells = x.cells, y.count = x.count, y.ht = Rebuild(x.cells, x.count)
    PROVE  InStep(y)
<1>1. x.count \in Nat /\ \A i \in 0 .. x.count - 1 : x.cells[i].key \in Key
  BY BoundAssumption, KeyOfEntry DEF Good, Shape, Live
<1>2. Indexed(x.cells, Rebuild(x.cells, x.count), RebuildCap(x.count), 0 .. x.count - 1)
  BY <1>1, RebuildIndexes DEF Unique
<1>3. Cap(y) = RebuildCap(x.count)
  <2>1. y.ht \in [0 .. RebuildCap(x.count) - 1 -> {Empty, Tomb} \cup (0 .. x.count - 1)]
    BY <1>1, RebuildType
  <2>2. RebuildCap(x.count) \in Nat \ {0}
    BY <1>1, RebuildCapLarge
  <2> QED BY <2>1, <2>2, TableCap DEF Cap
<1> QED BY <1>2, <1>3 DEF InStep, Live

\* Forgetting dead cells hides no duplicate key.
LEMMA ForgetUnique == ASSUME NEW x \in Shape, Unique(Forget(x)) PROVE Unique(x)
<1> PICK y : y = Forget(x)
  OBVIOUS
<1>1. y = [x EXCEPT !.cells = y.cells] /\ \A i \in Live(x) : y.cells[i] = x.cells[i]
  BY ForgetIs
<1>2. y.count = x.count
  BY <1>1 DEF Shape
<1> QED BY <1>1, <1>2 DEF Unique, Live

\* fastgit_index_remove: the last entry moves into the hole.
Hole(x, f, intact) == IF f # x.count - 1 THEN Moved(x, f, intact) ELSE x
Shrunk(y, n) == [y EXCEPT !.count = n - 1, !.dirty = TRUE, !.sorted = FALSE]

\* Moving the last entry into the hole keeps the index well-formed.
LEMMA HoleShape ==
    ASSUME NEW x, Good(x), x.count > 0, NEW f \in Cells, NEW intact
    PROVE  /\ Good(Shrunk(Hole(x, f, intact), x.count))
           /\ Shrunk(Hole(x, f, intact), x.count).count = x.count - 1
<1> DEFINE e == x.cells[x.count - 1]
           y == [x EXCEPT !.cells[f] = e]
           z == HtRemove(y, e.key, intact)
           w == HtInsert(z, e.key, f)
<1>1. /\ x \in Shape /\ x.count \in Nat /\ x.count \in 0 .. MaxEntries /\ x.count - 1 \in Live(x)
      /\ e \in Entry /\ Live(x) \subseteq Cells
      /\ x.cells \in [Cells -> Entry \cup {NoEntry}]
  BY BoundAssumption DEF Good, Shape, Live, Cells
<1> HIDE DEF e
<1>2. Good(y) /\ y.count = x.count
  BY <1>1 DEF Good, Shape, Live
<1> HIDE DEF y
<1>3. Good(z) /\ z.count = x.count
  <2>1. Good(z) /\ z = [y EXCEPT !.ht = z.ht]
    BY <1>2, RemoveShape
  <2> HIDE DEF z
  <2> QED BY <1>2, <2>1 DEF Good, Shape
<1> HIDE DEF z
<1>4. Good(w) /\ w.count = x.count
  <2>1. Good(w) /\ w = [z EXCEPT !.ht = w.ht]
    BY <1>3, InsertShape
  <2> HIDE DEF w
  <2> QED BY <1>3, <2>1 DEF Good, Shape
<1> HIDE DEF w
<1>5. Hole(x, f, intact) = x \/ Hole(x, f, intact) = w
  BY DEF Hole, Moved, w, z, y, e
<1>6. ASSUME NEW v, Good(v), v.count = x.count
      PROVE  Good(Shrunk(v, x.count)) /\ Shrunk(v, x.count).count = x.count - 1
  <2>1. /\ Shrunk(v, x.count) \in Shape /\ Shrunk(v, x.count).count = x.count - 1
        /\ Shrunk(v, x.count).cells = v.cells
    <3>1. x.count - 1 \in 0 .. MaxEntries /\ v \in Shape
      BY <1>1, <1>6, BoundAssumption DEF Good
    <3> QED BY <3>1 DEF Shape, Shrunk
  <2>2. Live(Shrunk(v, x.count)) \subseteq Live(v)
    BY <1>1, <1>6, <2>1 DEF Live
  <2> QED BY <1>6, <2>1, <2>2 DEF Good
<1> QED BY <1>4, <1>5, <1>6

\* Moving the last entry into the hole keeps the table in step, unless it has to grow.
LEMMA HoleInStep ==
    ASSUME hash \in [Key -> Nat], NEW x, Good(x), NEW f \in Live(x), NEW intact \in BOOLEAN,
           Indexed(x.cells, x.ht, Cap(x), Live(x) \ {f}),
           \A i \in Live(x) : x.cells[i].key = x.cells[f].key => i = f,
           f # x.count - 1 => ~MustGrow(x)
    PROVE  InStep(Shrunk(Hole(x, f, intact), x.count))
<1> DEFINE l == x.count - 1
           e == x.cells[l]
           y == [x EXCEPT !.cells[f] = e]
           z == HtRemove(y, e.key, intact)
           w == HtInsert(z, e.key, f)
<1>1. /\ x \in Shape /\ x.count \in Nat /\ l \in Live(x) /\ Live(x) \subseteq Cells
      /\ e \in Entry /\ e.key \in Key /\ x.cells \in [Cells -> Entry \cup {NoEntry}]
      /\ \A i \in Live(x) : i \in Nat
  BY BoundAssumption, KeyOfEntry DEF Good, Shape, Live, Cells
<1>2. ASSUME NEW v \in Shape, Indexed(v.cells, v.ht, Cap(v), Live(x) \ {l})
      PROVE  InStep(Shrunk(v, x.count))
  <2>1. /\ Shrunk(v, x.count).cells = v.cells /\ Shrunk(v, x.count).ht = v.ht
        /\ Shrunk(v, x.count).count = l
    BY <1>2 DEF Shape, Shrunk
  <2>2. Live(Shrunk(v, x.count)) = Live(x) \ {l}
    BY <1>1, <2>1 DEF Live
  <2> QED BY <1>2, <2>1, <2>2 DEF InStep, Cap
<1>3. CASE f = l
  BY <1>1, <1>2, <1>3 DEF Hole
<1>4. CASE f # l
  <2> HIDE DEF l, e
  <2> DEFINE L == Live(x) \ {f}
             M == Live(x) \ {f, l}
  <2>1. /\ Good(y) /\ y.count = x.count /\ y.ht = x.ht
        /\ y.cells = [x.cells EXCEPT ![f] = e]
    BY <1>1 DEF Good, Shape, Live
  <2>2. y.cells[f] = e /\ e = x.cells[l] /\ \A i \in L : y.cells[i] = x.cells[i]
    BY <1>1, <2>1 DEF e
  <2> HIDE DEF y
  <2>3. Live(y) = Live(x) /\ Cap(y) = Cap(x) /\ l \in L /\ y.cells[l] = e
    BY <1>1, <1>4, <2>1, <2>2 DEF Live, Cap
  <2> HIDE DEF L
  <2>4. Indexed(y.cells, y.ht, Cap(y), L)
    <3>1. Indexed(x.cells, x.ht, Cap(x), L)
      BY DEF L
    <3>2. Indexed(y.cells, x.ht, Cap(x), L)
      BY <2>2, <3>1, SameKeys
    <3> QED BY <2>1, <2>3, <3>2
  <2>5. Indexed(y.cells, z.ht, Cap(y), M)
    <3>1. L \subseteq Live(y) /\ L \ {l} = M
      BY <2>3 DEF L
    <3>2. z = HtRemove(y, y.cells[l].key, intact)
      BY <2>3
    <3>3. Indexed(y.cells, z.ht, Cap(y), L \ {l})
      BY <2>1, <2>3, <2>4, <3>1, <3>2, RemoveIndexes
    <3> QED BY <3>1, <3>3
  <2>6. Good(z) /\ Cap(z) = Cap(y) /\ z = [y EXCEPT !.ht = z.ht]
    BY <2>1, RemoveShape
  <2> HIDE DEF z
  <2>7. z.count = x.count /\ z.cells = y.cells /\ Live(z) = Live(x) /\ ~MustGrow(z)
    <3>1. z.count = x.count /\ z.cells = y.cells
      BY <2>1, <2>6 DEF Good, Shape
    <3> QED BY <1>4, <2>3, <2>6, <3>1 DEF Live, MustGrow, l
  <2>8. \A j \in M : z.cells[j].key # e.key
    <3> SUFFICES ASSUME NEW j \in M, x.cells[j].key = x.cells[l].key PROVE FALSE
      BY <2>2, <2>7 DEF L
    <3>1. j \in L /\ j # l
      BY DEF L
    <3> QED BY <2>3, <3>1 DEF Indexed, L
  <2>9. Indexed(z.cells, w.ht, Cap(w), M \cup {f})
    <3>1. f \in Cells /\ f \notin M /\ M \subseteq Live(z) /\ z.cells[f].key = e.key
      BY <1>1, <2>2, <2>7
    <3>2. Indexed(z.cells, z.ht, Cap(z), M)
      BY <2>5, <2>6, <2>7
    <3> HIDE DEF M
    <3>3. w = HtInsert(z, z.cells[f].key, f)
      BY <3>1
    <3>4. z.cells[f].key \in Key /\ \A j \in M : z.cells[j].key # z.cells[f].key
      BY <1>1, <2>8, <3>1
    <3> QED BY <2>6, <2>7, <3>1, <3>2, <3>3, <3>4, InsertIndexes
  <2>10. w \in Shape /\ w.cells = z.cells
    <3>1. Good(w) /\ w = [z EXCEPT !.ht = w.ht]
      BY <1>1, <2>6, InsertShape
    <3> HIDE DEF w
    <3> QED BY <2>6, <3>1 DEF Good, Shape
  <2> HIDE DEF w
  <2>11. M \cup {f} = Live(x) \ {l}
    BY <1>4
  <2>12. InStep(Shrunk(w, x.count))
    BY <1>2, <2>9, <2>10, <2>11
  <2>13. Hole(x, f, intact) = w
    BY <1>4 DEF Hole, Moved, w, z, y, e, l
  <2> QED BY <2>12, <2>13
<1> QED BY <1>3, <1>4

-----------------------------------------------------------------------------
(* Sorting and leaving out *)

\* index_entry_cmp is a strict weak order.
LEMMA LessOrders ==
    ASSUME NEW k \in Key, NEW l \in Key, NEW m \in Key
    PROVE  /\ Less(k, l) => ~Less(l, k)
           /\ ~Less(l, k) /\ ~Less(m, l) => ~Less(m, k)
<1>1. /\ k[1] \in Nat /\ l[1] \in Nat /\ m[1] \in Nat
      /\ k[2] \in Int /\ l[2] \in Int /\ m[2] \in Int
  <2>1. Path \subseteq Nat /\ Stage \subseteq Int
    BY PathAssumption, StageAssumption
  <2>2. ASSUME NEW x \in Key PROVE x[1] \in Path /\ x[2] \in Stage
    BY DEF Key
  <2> QED BY <2>1, <2>2
<1> QED BY <1>1 DEF Less

\* p puts the first n cells of c in order.
Sorts(p, c, n) ==
    /\ p \in [0 .. n - 1 -> 0 .. n - 1]
    /\ \A i, j \in 0 .. n - 1 : p[i] = p[j] => i = j
    /\ \A i, j \in 0 .. n - 1 : i < j => ~Less(c[p[j]].key, c[p[i]].key)

\* One more cell can be put in its place.
LEMMA SortOneMore ==
    ASSUME NEW c, NEW l \in Nat, \A i \in 0 .. l : c[i].key \in Key, NEW p, Sorts(p, c, l)
    PROVE  \E r : Sorts(r, c, l + 1)
<1> DEFINE Q == {j \in 0 .. l : j = l \/ Less(c[l].key, c[p[j]].key)}
           q == First(Q)
           r == [i \in 0 .. l |-> IF i < q THEN p[i] ELSE IF i = q THEN l ELSE p[i - 1]]
<1>1. q \in 0 .. l /\ (q = l \/ Less(c[l].key, c[p[q]].key))
      /\ \A j \in 0 .. l : j < q => ~Less(c[l].key, c[p[j]].key)
  <2>1. Q \subseteq Nat /\ l \in Q
    OBVIOUS
  <2>2. q \in Q /\ \A j \in Q : q <= j
    <3> HIDE DEF Q
    <3> QED BY <2>1, FirstIsLeast
  <2> HIDE DEF q
  <2> QED BY <2>2
<1> HIDE DEF Q, q
<1>2. /\ p \in [0 .. l - 1 -> 0 .. l - 1]
      /\ \A i, j \in 0 .. l - 1 : p[i] = p[j] => i = j
      /\ \A i, j \in 0 .. l - 1 : i < j => ~Less(c[p[j]].key, c[p[i]].key)
  BY DEF Sorts
<1>3. /\ \A i \in 0 .. l : i < q => i \in 0 .. l - 1 /\ r[i] = p[i] /\ p[i] \in 0 .. l - 1
      /\ r[q] = l
      /\ \A i \in 0 .. l : i > q => /\ i - 1 \in 0 .. l - 1 /\ r[i] = p[i - 1]
                                    /\ p[i - 1] \in 0 .. l - 1
  BY <1>1, <1>2
<1>4. \A i \in 0 .. l : i < q \/ i = q \/ i > q
  BY <1>1
<1>5. r \in [0 .. l -> 0 .. l]
  <2>1. \A i \in 0 .. l : r[i] \in 0 .. l
    BY <1>3, <1>4
  <2>2. DOMAIN r = 0 .. l /\ r = [i \in 0 .. l |-> r[i]]
    OBVIOUS
  <2> HIDE DEF r
  <2> QED BY <2>1, <2>2
<1> HIDE DEF r
<1>6. ASSUME NEW i \in 0 .. l, NEW j \in 0 .. l, r[i] = r[j] PROVE i = j
  <2>1. ASSUME NEW a \in 0 .. l, NEW b \in 0 .. l, a < q, ~(b < q), r[a] = r[b] PROVE FALSE
    <3>1. CASE b = q
      BY <1>3, <2>1, <3>1
    <3>2. CASE b > q
      <4>1. p[a] = p[b - 1] /\ a \in 0 .. l - 1 /\ b - 1 \in 0 .. l - 1
        BY <1>3, <2>1, <3>2
      <4>2. a = b - 1
        BY <1>2, <4>1
      <4> QED BY <1>1, <2>1, <3>2, <4>2
    <3> QED BY <1>4, <2>1, <3>1, <3>2
  <2>2. CASE i < q
    <3>1. j < q
      BY <1>6, <2>1, <2>2
    <3> QED BY <1>2, <1>3, <1>6, <2>2, <3>1
  <2>3. CASE j < q
    <3>1. i < q
      BY <1>6, <2>1, <2>3
    <3> QED BY <1>2, <1>3, <1>6, <2>3, <3>1
  <2>4. CASE i = q /\ j > q
    BY <1>3, <1>6, <2>4
  <2>5. CASE j = q /\ i > q
    BY <1>3, <1>6, <2>5
  <2>6. CASE i > q /\ j > q
    <3>1. p[i - 1] = p[j - 1] /\ i - 1 \in 0 .. l - 1 /\ j - 1 \in 0 .. l - 1
      BY <1>3, <1>6, <2>6
    <3>2. i - 1 = j - 1
      BY <1>2, <3>1
    <3> QED BY <3>2
  <2> QED BY <1>4, <2>2, <2>3, <2>4, <2>5, <2>6
<1>7. ASSUME NEW i \in 0 .. l, NEW j \in 0 .. l, i < j PROVE ~Less(c[r[j]].key, c[r[i]].key)
  <2>1. CASE j < q
    <3>1. i < q
      BY <1>1, <1>7, <2>1
    <3>2. i \in 0 .. l - 1 /\ j \in 0 .. l - 1 /\ r[i] = p[i] /\ r[j] = p[j]
      BY <1>3, <2>1, <3>1
    <3> QED BY <1>2, <1>7, <3>2
  <2>2. CASE j = q
    BY <1>1, <1>3, <1>7, <2>2
  <2>3. CASE j > q /\ i < q
    <3>1. i < j - 1 /\ i \in 0 .. l - 1 /\ j - 1 \in 0 .. l - 1 /\ r[i] = p[i] /\ r[j] = p[j - 1]
      <4>1. i < j - 1
        BY <1>1, <2>3
      <4> QED BY <1>3, <2>3, <4>1
    <3> QED BY <1>2, <3>1
  <2>4. CASE j > q /\ i > q
    <3>1. /\ i - 1 < j - 1 /\ i - 1 \in 0 .. l - 1 /\ j - 1 \in 0 .. l - 1
          /\ r[i] = p[i - 1] /\ r[j] = p[j - 1]
      BY <1>3, <1>7, <2>4
    <3> QED BY <1>2, <3>1
  <2>5. CASE j > q /\ i = q
    <3>1. /\ r[i] = l /\ r[j] = p[j - 1] /\ j - 1 \in 0 .. l - 1 /\ q \in 0 .. l - 1
          /\ p[q] \in 0 .. l - 1 /\ p[j - 1] \in 0 .. l - 1
      BY <1>1, <1>2, <1>3, <2>5
    <3>2. Less(c[l].key, c[p[q]].key)
      BY <1>1, <3>1
    <3>3. /\ c[l].key \in Key /\ c[p[q]].key \in Key /\ c[p[j - 1]].key \in Key
      BY <3>1
    <3>4. ~Less(c[p[j - 1]].key, c[p[q]].key)
      <4>1. CASE j - 1 = q
        BY <3>3, <4>1, LessOrders
      <4>2. CASE q < j - 1
        BY <1>2, <3>1, <4>2
      <4> QED BY <2>5, <1>1, <4>1, <4>2
    <3>5. ~Less(c[p[q]].key, c[l].key)
      BY <3>2, <3>3, LessOrders
    <3> QED BY <3>1, <3>3, <3>4, <3>5, LessOrders
  <2> QED BY <1>4, <2>1, <2>2, <2>3, <2>4, <2>5
<1>8. Sorts(r, c, l + 1)
  <2>1. (l + 1) - 1 = l
    OBVIOUS
  <2> QED BY <1>5, <1>6, <1>7, <2>1 DEF Sorts
<1> QED BY <1>8

\* Any number of cells can be put in order.
LEMMA Sortable ==
    ASSUME NEW c, NEW n \in Nat, \A i \in 0 .. n - 1 : c[i].key \in Key
    PROVE  \E p : Sorts(p, c, n)
<1> DEFINE T == {m \in 0 .. n : \E p : Sorts(p, c, m)}
<1>1. 0 \in T
  <2>1. Sorts([i \in 0 .. 0 - 1 |-> 0], c, 0)
    BY DEF Sorts
  <2> QED BY <2>1
<1>2. \A m \in 1 .. n : m - 1 \in T => m \in T
  <2> SUFFICES ASSUME NEW m \in 1 .. n, m - 1 \in T PROVE m \in T
    OBVIOUS
  <2>1. PICK p : Sorts(p, c, m - 1)
    OBVIOUS
  <2>2. m - 1 \in Nat /\ (m - 1) + 1 = m /\ \A i \in 0 .. m - 1 : c[i].key \in Key
    OBVIOUS
  <2>3. \E r : Sorts(r, c, (m - 1) + 1)
    BY <2>1, <2>2, SortOneMore
  <2> QED BY <2>2, <2>3
<1>3. n \in T
  <2>1. \A i \in 0 .. n : i \in T
    <3> HIDE DEF T
    <3> QED BY <1>1, <1>2, Induction
  <2> QED BY <2>1
<1> QED BY <1>3

\* qsort permutes the live cells and changes nothing else.
LEMMA SortShape ==
    ASSUME NEW x, Good(x)
    PROVE  /\ Good(Sort(x)) /\ Sort(x) = [x EXCEPT !.cells = Sort(x).cells]
           /\ \E p : /\ Sorts(p, x.cells, x.count)
                     /\ \A i \in Live(x) : Sort(x).cells[i] = x.cells[p[i]]
<1> DEFINE N == 0 .. x.count - 1
           P(p) == /\ \A i, j \in N : p[i] = p[j] => i = j
                   /\ \A i, j \in N : i < j => ~Less(x.cells[p[j]].key, x.cells[p[i]].key)
           p == CHOOSE p \in [N -> N] : P(p)
           c == [i \in Cells |-> IF i \in N THEN x.cells[p[i]] ELSE x.cells[i]]
<1>1. /\ x \in Shape /\ x.count \in Nat /\ N \subseteq Cells /\ \A i \in N : x.cells[i] \in Entry
      /\ x.cells \in [Cells -> Entry \cup {NoEntry}]
  BY BoundAssumption DEF Good, Shape, Live, Cells
<1>2. p \in [N -> N] /\ P(p)
  <2>1. \A i \in 0 .. x.count - 1 : x.cells[i].key \in Key
    BY <1>1, KeyOfEntry
  <2>2. PICK q : Sorts(q, x.cells, x.count)
    BY <1>1, <2>1, Sortable
  <2>3. q \in [N -> N] /\ P(q)
    BY <2>2 DEF Sorts
  <2> HIDE DEF N, P
  <2> QED BY <2>3
<1>3. Sorts(p, x.cells, x.count)
  <2> HIDE DEF p
  <2> QED BY <1>2 DEF Sorts
<1>4. Sort(x) = [x EXCEPT !.cells = c]
  BY DEF Sort
<1> HIDE DEF p, P
<1>5. /\ c \in [Cells -> Entry \cup {NoEntry}]
      /\ \A i \in N : c[i] = x.cells[p[i]] /\ c[i] \in Entry
  <2>1. \A i \in N : p[i] \in N
    BY <1>2
  <2> HIDE DEF N
  <2> QED BY <1>1, <2>1
<1> HIDE DEF c
<1>6. [x EXCEPT !.cells = c] \in Shape
  BY <1>1, <1>5 DEF Shape
<1>7. Good(Sort(x)) /\ Sort(x) = [x EXCEPT !.cells = Sort(x).cells] /\ Sort(x).cells = c
  BY <1>1, <1>4, <1>5, <1>6 DEF Good, Shape, Live
<1> QED BY <1>3, <1>5, <1>7 DEF Live

\* The number of kept cells before j.
Rank(K, j) == Cardinality({l \in K : l < j})

\* There is an i-th one among the cells that are kept.
LEMMA RankMet ==
    ASSUME NEW n \in Nat, NEW K, K \subseteq 0 .. n - 1, NEW i \in Nat, i < Cardinality(K)
    PROVE  \E j \in K : Rank(K, j) = i
<1> DEFINE B(j) == {l \in K : l < j}
           g(j) == Cardinality(B(j))
           Q == {j \in 0 .. n : g(j) > i}
<1>1. IsFiniteSet(K) /\ \A l \in K : l \in Nat /\ l < n
  <2>1. IsFiniteSet(K)
    BY LiveSize
  <2> QED BY <2>1
<1>2. \A j \in 0 .. n : g(j) \in Nat /\ IsFiniteSet(B(j))
  <2> SUFFICES ASSUME NEW j \in 0 .. n PROVE g(j) \in Nat /\ IsFiniteSet(B(j))
    OBVIOUS
  <2>1. B(j) \in SUBSET K
    OBVIOUS
  <2> QED BY <1>1, <2>1, FS_Subset, FS_CardinalityType
<1>3. g(0) = 0
  <2>0. \A l \in K : ~(l < 0)
    BY <1>1
  <2>1. B(0) = {}
    BY ONLY <2>0
  <2> QED BY <2>1, FS_EmptySet
<1>4. g(n) > i
  <2>1. B(n) = K
    BY <1>1
  <2> QED BY <2>1
<1>5. ASSUME NEW j \in 0 .. n - 1 PROVE g(j + 1) = IF j \in K THEN g(j) + 1 ELSE g(j)
  <2>0. \A l \in K : l < j + 1 <=> l < j \/ l = j
    BY <1>1
  <2>1. j \notin B(j) /\ B(j + 1) = IF j \in K THEN B(j) \cup {j} ELSE B(j)
    <3>1. ~(j < j)
      OBVIOUS
    <3>2. CASE j \in K
      <4>1. B(j + 1) = B(j) \cup {j}
        BY ONLY <2>0, <3>2
      <4> QED BY <3>1, <3>2, <4>1
    <3>3. CASE j \notin K
      <4>1. B(j + 1) = B(j)
        BY ONLY <2>0, <3>3
      <4> QED BY <3>1, <3>3, <4>1
    <3> QED BY <3>2, <3>3
  <2>2. IsFiniteSet(B(j)) /\ j \in 0 .. n
    BY <1>2
  <2> HIDE DEF B
  <2>3. Cardinality(B(j) \cup {j}) = Cardinality(B(j)) + 1
    BY <2>1, <2>2, FS_AddElement
  <2> QED BY <2>1, <2>3
<1> HIDE DEF g
<1>6. PICK m \in Q : \A j \in Q : m <= j
  <2>1. Q \subseteq Nat /\ n \in Q
    BY <1>4
  <2> HIDE DEF Q
  <2> QED BY <2>1, Least
<1>7. m # 0 /\ m - 1 \in 0 .. n - 1 /\ m - 1 \in 0 .. n /\ (m - 1) + 1 = m
  BY <1>3
<1>8. ~(g(m - 1) > i) /\ g(m) > i
  BY <1>6, <1>7
<1>9. g(m) = IF m - 1 \in K THEN g(m - 1) + 1 ELSE g(m - 1)
  BY <1>5, <1>7
<1>10. m - 1 \in K /\ g(m - 1) = i
  <2>1. g(m - 1) \in Nat
    BY <1>2, <1>7
  <2> QED BY <1>8, <1>9, <2>1
<1> QED BY <1>10 DEF g, Rank

\* Leaving out the entries of a path keeps the index well-formed.
LEMMA WithoutShape ==
    ASSUME NEW x, Good(x), NEW p
    PROVE  /\ Good(Without(x, p)) /\ Without(x, p).count <= x.count
           /\ Without(x, p) = [x EXCEPT !.cells = Without(x, p).cells,
                                        !.count = Without(x, p).count]
<1> DEFINE K == {i \in 0 .. x.count - 1 : x.cells[i].key[1] # p}
           at(i) == CHOOSE j \in K : Cardinality({l \in K : l < j}) = i
           n == Cardinality(K)
           c == [i \in Cells |-> IF i < n THEN x.cells[at(i)] ELSE x.cells[i]]
<1>1. /\ x \in Shape /\ x.count \in Nat /\ 0 .. x.count - 1 \subseteq Cells
      /\ x.count \in 0 .. MaxEntries
      /\ \A i \in 0 .. x.count - 1 : x.cells[i] \in Entry
      /\ x.cells \in [Cells -> Entry \cup {NoEntry}]
  BY BoundAssumption DEF Good, Shape, Live, Cells
<1>2. K \subseteq 0 .. x.count - 1
  OBVIOUS
<1>3. Without(x, p) = [x EXCEPT !.cells = c, !.count = n]
  BY DEF Without
<1> HIDE DEF K
<1>4. n \in Nat /\ n <= x.count
  BY <1>1, <1>2, LiveSize
<1>5. ASSUME NEW i \in Nat, i < n PROVE at(i) \in K
  <2>1. \E j \in K : Rank(K, j) = i
    BY <1>1, <1>2, <1>5, RankMet
  <2>2. at(i) = CHOOSE j \in K : Rank(K, j) = i
    BY DEF Rank
  <2> QED BY <2>1, <2>2
<1> HIDE DEF at, n
<1>6. ASSUME NEW i \in Nat, i < n PROVE x.cells[at(i)] \in Entry
  BY <1>1, <1>2, <1>5, <1>6
<1>7. c \in [Cells -> Entry \cup {NoEntry}]
  BY <1>1, <1>6, BoundAssumption DEF Cells
<1>8. \A i \in 0 .. n - 1 : c[i] \in Entry
  BY <1>1, <1>4, <1>6 DEF Cells
<1> HIDE DEF c
<1>9. n \in 0 .. MaxEntries
  BY <1>1, <1>4, BoundAssumption
<1>10. [x EXCEPT !.cells = c, !.count = n] \in Shape
  BY <1>1, <1>7, <1>9 DEF Shape
<1> QED BY <1>1, <1>3, <1>4, <1>8, <1>10 DEF Good, Shape, Live

-----------------------------------------------------------------------------
(* Appending *)

\* Appending a cell keeps the index well-formed.
LEMMA AppendShape ==
    ASSUME NEW x, Good(x), x.count < MaxEntries, NEW k \in Key, NEW o \in Oid
    PROVE  Good(AppendCell(x, k, o)) /\ AppendCell(x, k, o).count = x.count + 1
<1> DEFINE e == [key |-> k, oid |-> o]
           c == [x.cells EXCEPT ![x.count] = e]
<1>1. /\ x \in Shape /\ x.count \in Nat /\ x.count + 1 \in 0 .. MaxEntries /\ x.count \in Cells
      /\ x.cells \in [Cells -> Entry \cup {NoEntry}] /\ e \in Entry
      /\ \A i \in 0 .. x.count - 1 : i \in Cells /\ x.cells[i] \in Entry
  BY BoundAssumption, KeyOfEntry DEF Good, Shape, Cells, Live
<1> HIDE DEF e
<1>2. c \in [Cells -> Entry \cup {NoEntry}]
  BY <1>1
<1>3. \A i \in 0 .. x.count : c[i] \in Entry
  <2> SUFFICES ASSUME NEW i \in 0 .. x.count PROVE c[i] \in Entry
    OBVIOUS
  <2>1. i = x.count \/ i \in 0 .. x.count - 1
    BY <1>1
  <2> QED BY <1>1, <2>1
<1>4. AppendCell(x, k, o) = [x EXCEPT !.cells = c, !.count = x.count + 1]
  BY <1>1 DEF AppendCell, Shape, e
<1> HIDE DEF c
<1>5. [x EXCEPT !.cells = c, !.count = x.count + 1] \in Shape
  BY <1>1, <1>2 DEF Shape
<1>6. /\ AppendCell(x, k, o) \in Shape /\ AppendCell(x, k, o).cells = c
      /\ AppendCell(x, k, o).count = x.count + 1
  BY <1>1, <1>4, <1>5 DEF Shape
<1>7. Live(AppendCell(x, k, o)) = 0 .. x.count
  BY <1>1, <1>6 DEF Live
<1> QED BY <1>3, <1>6, <1>7 DEF Good

\* The number of elements of W up to i.
UpTo(W, i) == Cardinality(W \cap (1 .. i))

\* UpTo counts the elements of W one by one.
Counts(W, n) ==
    /\ UpTo(W, 0) = 0 /\ UpTo(W, n) = Cardinality(W) /\ Cardinality(W) \in Nat
    /\ \A i \in 0 .. n : UpTo(W, i) \in Nat /\ UpTo(W, i) <= Cardinality(W)
    /\ \A i \in 1 .. n : UpTo(W, i) = IF i \in W THEN UpTo(W, i - 1) + 1 ELSE UpTo(W, i - 1)

\* Counting one by one ends with the number of elements.
LEMMA UpToCounts ==
    ASSUME NEW n \in Nat, NEW W, W \subseteq 1 .. n
    PROVE  Counts(W, n)
<1>1. IsFiniteSet(W) /\ Cardinality(W) \in Nat
  <2>1. IsFiniteSet(1 .. n)
    BY FS_Interval
  <2>2. W \in SUBSET (1 .. n)
    OBVIOUS
  <2> QED BY <2>1, <2>2, FS_Subset, FS_CardinalityType
<1>2. ASSUME NEW i \in 0 .. n
      PROVE  UpTo(W, i) \in Nat /\ UpTo(W, i) <= Cardinality(W) /\ IsFiniteSet(W \cap (1 .. i))
  <2>1. W \cap (1 .. i) \in SUBSET W
    OBVIOUS
  <2> QED BY <1>1, <2>1, FS_Subset, FS_CardinalityType DEF UpTo
<1>3. UpTo(W, 0) = 0
  <2>1. W \cap (1 .. 0) = {}
    OBVIOUS
  <2> QED BY <2>1, FS_EmptySet DEF UpTo
<1>4. UpTo(W, n) = Cardinality(W)
  <2>1. W \cap (1 .. n) = W
    OBVIOUS
  <2> QED BY <2>1 DEF UpTo
<1>5. ASSUME NEW i \in 1 .. n
      PROVE  UpTo(W, i) = IF i \in W THEN UpTo(W, i - 1) + 1 ELSE UpTo(W, i - 1)
  <2>1. CASE i \in W
    <3>1. W \cap (1 .. i) = (W \cap (1 .. i - 1)) \cup {i} /\ i \notin W \cap (1 .. i - 1)
      BY <2>1
    <3>2. IsFiniteSet(W \cap (1 .. i - 1))
      BY <1>2
    <3> QED BY <2>1, <3>1, <3>2, FS_AddElement DEF UpTo
  <2>2. CASE i \notin W
    <3>1. W \cap (1 .. i) = W \cap (1 .. i - 1)
      BY <2>2
    <3> QED BY <2>2, <3>1 DEF UpTo
  <2> QED BY <2>1, <2>2
<1> QED BY <1>1, <1>2, <1>3, <1>4, <1>5 DEF Counts

\* d[i] is a with the keys K[1], ..., K[i] appended, as far as they are in W.
Appends(d, n, a, K, W, o) ==
    /\ d[0] = a
    /\ \A i \in 1 .. n : d[i] = IF i \in W THEN AppendCell(d[i - 1], K[i], o) ELSE d[i - 1]

\* A loop that appends leaves a well-formed index with as many cells more.
LEMMA AppendsShape ==
    ASSUME NEW n \in Nat, NEW a, Good(a), NEW W, W \subseteq 1 .. n,
           NEW K, \A i \in W : K[i] \in Key,
           NEW o \in Oid, a.count + Cardinality(W) <= MaxEntries, NEW d, Appends(d, n, a, K, W, o)
    PROVE  Good(d[n]) /\ d[n].count = a.count + Cardinality(W)
<1> DEFINE P(i) == Good(d[i]) /\ d[i].count = a.count + UpTo(W, i)
           T == {i \in 0 .. n : P(i)}
<1>0. a.count \in Nat /\ Cardinality(W) \in Nat /\ MaxEntries \in Nat /\ Counts(W, n)
  <2>1. Counts(W, n)
    BY UpToCounts
  <2>2. a.count \in Nat
    BY BoundAssumption DEF Good, Shape
  <2> QED BY <2>1, <2>2, BoundAssumption DEF Counts
<1>1. 0 \in T
  BY <1>0 DEF Appends, Counts
<1>2. \A i \in 1 .. n : i - 1 \in T => i \in T
  <2> SUFFICES ASSUME NEW i \in 1 .. n, i - 1 \in T PROVE P(i)
    OBVIOUS
  <2>1. Good(d[i - 1]) /\ d[i - 1].count = a.count + UpTo(W, i - 1)
    OBVIOUS
  <2>2. /\ UpTo(W, i - 1) \in Nat /\ UpTo(W, i) \in Nat /\ UpTo(W, i) <= Cardinality(W)
        /\ UpTo(W, i) = IF i \in W THEN UpTo(W, i - 1) + 1 ELSE UpTo(W, i - 1)
    <3>1. i \in 0 .. n /\ i - 1 \in 0 .. n
      OBVIOUS
    <3> QED BY <1>0, <3>1 DEF Counts
  <2>3. CASE i \in W
    <3>1. d[i] = AppendCell(d[i - 1], K[i], o) /\ K[i] \in Key
      BY <2>3 DEF Appends
    <3>2. d[i - 1].count < MaxEntries
      BY <1>0, <2>1, <2>2, <2>3
    <3>3. Good(d[i]) /\ d[i].count = d[i - 1].count + 1
      BY <2>1, <3>1, <3>2, AppendShape
    <3> QED BY <1>0, <2>1, <2>2, <2>3, <3>3
  <2>4. CASE i \notin W
    BY <2>1, <2>2, <2>4 DEF Appends
  <2> QED BY <2>3, <2>4
<1>3. n \in T
  <2>1. \A i \in 0 .. n : i \in T
    <3> HIDE DEF T
    <3> QED BY <1>1, <1>2, Induction
  <2> QED BY <2>1
<1> QED BY <1>0, <1>3 DEF Counts

\* A loop that appends has a run.
LEMMA AppendsExist ==
    ASSUME NEW n \in Nat, NEW a, Good(a), NEW W, W \subseteq 1 .. n,
           NEW K, \A i \in W : K[i] \in Key,
           NEW o \in Oid, a.count + Cardinality(W) <= MaxEntries
    PROVE  \E d : d = [i \in 0 .. n |-> d[i]] /\ Appends(d, n, a, K, W, o)
<1> DEFINE S == {x \in Shape : Good(x)}
           Add1(x, i) == IF i \in W /\ x.count < MaxEntries THEN AppendCell(x, K[i], o) ELSE x
           G == [i \in 1 .. n |-> [x \in S |-> Add1(x, i)]]
<1>0. a.count \in Nat /\ Cardinality(W) \in Nat /\ MaxEntries \in Nat /\ Counts(W, n)
  <2>1. Counts(W, n)
    BY UpToCounts
  <2>2. a.count \in Nat
    BY BoundAssumption DEF Good, Shape
  <2> QED BY <2>1, <2>2, BoundAssumption DEF Counts
<1>1. a \in S /\ \A x \in S : Good(x)
  BY DEF Good
<1>2. ASSUME NEW x \in S, NEW i \in 1 .. n PROVE Add1(x, i) \in S
  <2>1. CASE i \in W /\ x.count < MaxEntries
    <3>1. Good(AppendCell(x, K[i], o))
      BY <1>1, <2>1, AppendShape
    <3> QED BY <2>1, <3>1 DEF Good
  <2>2. CASE ~(i \in W /\ x.count < MaxEntries)
    BY <2>2
  <2> QED BY <2>1, <2>2
<1> HIDE DEF S
<1>3. G \in Steps(n, S)
  <2> HIDE DEF Add1
  <2> QED BY <1>2 DEF Steps
<1>4. PICK f : Iterates(f, n, S, a, G)
  <2> HIDE DEF G
  <2> QED BY <1>1, <1>3, Recursion
<1>5. f = [i \in 0 .. n |-> f[i]] /\ f[0] = a /\ \A i \in 0 .. n : f[i] \in S
  BY <1>4 DEF Iterates
<1>6. \A i \in 1 .. n : f[i] = Add1(f[i - 1], i)
  <2> SUFFICES ASSUME NEW i \in 1 .. n PROVE f[i] = Add1(f[i - 1], i)
    OBVIOUS
  <2>1. f[i - 1] \in S
    BY <1>5
  <2> HIDE DEF Add1
  <2> QED BY <1>4, <2>1 DEF Iterates
<1> DEFINE T == {i \in 0 .. n : f[i].count = a.count + UpTo(W, i)}
<1>7. 0 \in T
  BY <1>0, <1>5 DEF Counts
<1>8. ASSUME NEW i \in 1 .. n, i - 1 \in T
      PROVE  i \in T /\ f[i] = IF i \in W THEN AppendCell(f[i - 1], K[i], o) ELSE f[i - 1]
  <2>1. /\ UpTo(W, i - 1) \in Nat /\ UpTo(W, i) \in Nat /\ UpTo(W, i) <= Cardinality(W)
        /\ UpTo(W, i) = IF i \in W THEN UpTo(W, i - 1) + 1 ELSE UpTo(W, i - 1)
    <3>1. i \in 0 .. n /\ i - 1 \in 0 .. n
      OBVIOUS
    <3> QED BY <1>0, <3>1 DEF Counts
  <2>2. f[i - 1].count = a.count + UpTo(W, i - 1) /\ Good(f[i - 1])
    BY <1>1, <1>5, <1>8
  <2>3. CASE i \in W
    <3>1. f[i - 1].count < MaxEntries
      BY <1>0, <2>1, <2>2, <2>3
    <3>2. f[i] = AppendCell(f[i - 1], K[i], o)
      BY <1>6, <2>3, <3>1
    <3>3. f[i].count = f[i - 1].count + 1
      BY <2>2, <2>3, <3>1, <3>2, AppendShape
    <3> QED BY <1>0, <2>1, <2>2, <2>3, <3>2, <3>3
  <2>4. CASE i \notin W
    BY <1>6, <2>1, <2>2, <2>4
  <2> QED BY <2>3, <2>4
<1>9. \A i \in 0 .. n : i \in T
  <2> HIDE DEF T
  <2> QED BY <1>7, <1>8, Induction
<1>10. \A i \in 1 .. n : f[i] = IF i \in W THEN AppendCell(f[i - 1], K[i], o) ELSE f[i - 1]
  <2>1. \A i \in 1 .. n : i - 1 \in 0 .. n
    OBVIOUS
  <2> HIDE DEF T
  <2> QED BY <1>8, <1>9, <2>1
<1>11. Appends(f, n, a, K, W, o)
  BY <1>5, <1>10 DEF Appends
<1> QED BY <1>5, <1>11

-----------------------------------------------------------------------------
(* What the calls leave *)

\* After a rebuild the table holds the entries, unless two of them have the same key.
Restored(x) == Good(x) /\ (Unique(x) => InStep(x))

\* Setting sorted or dirty changes nothing else.
LEMMA Flags ==
    ASSUME NEW x, Good(x), NEW d \in BOOLEAN, NEW s \in BOOLEAN, NEW y,
           y \in {[x EXCEPT !.dirty = d], [x EXCEPT !.sorted = s],
                  [x EXCEPT !.dirty = d, !.sorted = s]}
    PROVE  /\ Good(y) /\ y.count = x.count
           /\ InStep(x) => InStep(y)
           /\ Restored(x) => Restored(y)
<1>1. y \in Shape /\ y.cells = x.cells /\ y.count = x.count /\ y.ht = x.ht
  <2>1. x \in Shape
    BY DEF Good
  <2>2. CASE y = [x EXCEPT !.dirty = d]
    BY <2>1, <2>2 DEF Shape
  <2>3. CASE y = [x EXCEPT !.sorted = s]
    BY <2>1, <2>3 DEF Shape
  <2>4. CASE y = [x EXCEPT !.dirty = d, !.sorted = s]
    BY <2>1, <2>4 DEF Shape
  <2> QED BY <2>2, <2>3, <2>4
<1>2. Good(y)
  BY <1>1 DEF Good, Live
<1>3. InStep(x) => InStep(y)
  BY <1>1 DEF InStep, Live, Cap
<1>4. Unique(y) => Unique(x)
  BY <1>1 DEF Unique
<1> QED BY <1>1, <1>2, <1>3, <1>4 DEF Restored

\* Forgetting dead cells after a rebuild.
LEMMA ForgetRestored ==
    ASSUME NEW x, Restored(x)
    PROVE  Restored(Forget(x))
<1>1. Good(x) /\ x \in Shape
  BY DEF Restored, Good
<1>2. Good(Forget(x))
  BY <1>1, ForgetShape
<1>3. ASSUME Unique(Forget(x)) PROVE InStep(Forget(x))
  <2>1. Unique(x)
    BY <1>1, <1>3, ForgetUnique
  <2>2. InStep(x)
    BY <2>1 DEF Restored
  <2> QED BY <1>1, <2>2, ForgetInStep
<1> QED BY <1>2, <1>3 DEF Restored

\* fg_ht_rebuild, whether or not a key occurs twice.
LEMMA RebuiltRestored ==
    ASSUME hash \in [Key -> Nat], NEW x, Good(x)
    PROVE  Restored(Rebuilt(x))
<1> PICK y : y = Rebuilt(x)
  OBVIOUS
<1>1. Good(y) /\ y = [x EXCEPT !.ht = Rebuild(x.cells, x.count)]
  BY RebuiltShape
<1>2. y.cells = x.cells /\ y.count = x.count /\ y.ht = Rebuild(x.cells, x.count)
  BY <1>1 DEF Good, Shape
<1>3. Unique(y) => InStep(y)
  <2>1. Unique(y) => Unique(x)
    BY <1>2 DEF Unique
  <2> QED BY <1>2, <2>1, RebuiltInStep
<1> QED BY <1>1, <1>3 DEF Restored

\* fastgit_index_clear leaves an empty index in step.
LEMMA ClearedInStep ==
    ASSUME hash \in [Key -> Nat], NEW x, Good(x)
    PROVE  Good(Cleared(x)) /\ Cleared(x).count = 0 /\ InStep(Cleared(x))
<1> DEFINE y == [x EXCEPT !.count = 0, !.dirty = TRUE, !.sorted = TRUE]
<1>1. y \in Shape /\ y.count = 0
  <2>1. x \in Shape /\ 0 \in 0 .. MaxEntries
    BY BoundAssumption DEF Good
  <2> QED BY <2>1 DEF Shape
<1>2. Good(y)
  BY <1>1 DEF Good, Live
<1>3. Cleared(x) = Rebuilt(y)
  BY DEF Cleared
<1> HIDE DEF y
<1>4. Restored(Rebuilt(y)) /\ Rebuilt(y) = [y EXCEPT !.ht = Rebuild(y.cells, y.count)]
  BY <1>2, RebuiltShape, RebuiltRestored
<1>5. Rebuilt(y).count = 0
  BY <1>1, <1>4 DEF Shape
<1>6. Unique(Rebuilt(y))
  BY <1>5 DEF Unique
<1> QED BY <1>3, <1>4, <1>5, <1>6 DEF Restored

\* Sorting and rebuilding, as find and the write functions do.
LEMMA SortedRestored ==
    ASSUME hash \in [Key -> Nat], NEW x, Good(x)
    PROVE  Restored([Rebuilt(Sort(x)) EXCEPT !.sorted = TRUE])
<1> PICK y : y = Rebuilt(Sort(x))
  OBVIOUS
<1>1. Good(Sort(x))
  BY SortShape
<1>2. Restored(y)
  BY <1>1, RebuiltRestored
<1>3. Good(y)
  BY <1>2 DEF Restored
<1>4. Restored([y EXCEPT !.sorted = TRUE])
  BY <1>2, <1>3, Flags
<1> QED BY <1>4

\* fastgit_index_remove: the entry is found, its slot tombstoned, the last entry moved.
LEMMA TakenOut ==
    ASSUME hash \in [Key -> Nat], NEW x, Good(x), x.count > 0, NEW k \in Key,
           NEW intact \in BOOLEAN, NEW f, f = HtFind(x, k, intact), f >= 0,
           NEW y, y = HtRemove(x, k, intact)
    PROVE  /\ y.count = x.count
           /\ Good(Shrunk(Hole(y, f, intact), x.count))
           /\ InStep(x) /\ ~(f # y.count - 1 /\ MustGrow(y))
                 => InStep(Shrunk(Hole(y, f, intact), x.count))
<1>1. f \in Cells /\ f # -1
  <2>1. x \in Shape
    BY DEF Good
  <2> QED BY <2>1, FindRange
<1>2. Good(y) /\ Cap(y) = Cap(x) /\ y = [x EXCEPT !.ht = y.ht]
  BY RemoveShape
<1>3. y.count = x.count /\ y.cells = x.cells /\ Live(y) = Live(x)
  BY <1>2 DEF Good, Shape, Live
<1>4. Good(Shrunk(Hole(y, f, intact), x.count))
  BY <1>1, <1>2, <1>3, HoleShape
<1>5. ASSUME InStep(x), ~(f # y.count - 1 /\ MustGrow(y))
      PROVE  InStep(Shrunk(Hole(y, f, intact), x.count))
  <2>1. f \in Live(x) /\ x.cells[f].key = k
    BY <1>1, <1>5, FindInStep
  <2>2. Indexed(x.cells, x.ht, Cap(x), Live(x))
    BY <1>5 DEF InStep
  <2>3. Indexed(x.cells, y.ht, Cap(x), Live(x) \ {f})
    BY <2>1, <2>2, RemoveIndexes
  <2>4. Indexed(y.cells, y.ht, Cap(y), Live(y) \ {f})
    BY <1>2, <1>3, <2>3
  <2>5. \A i \in Live(y) : y.cells[i].key = y.cells[f].key => i = f
    BY <1>3, <2>1, <2>2 DEF Indexed
  <2>6. InStep(Shrunk(Hole(y, f, intact), y.count))
    BY <1>2, <1>3, <1>5, <2>1, <2>4, <2>5, HoleInStep
  <2> QED BY <1>3, <2>6
<1> QED BY <1>3, <1>4, <1>5

\* What the walk of fastgit_index_read_tree has appended.
Loaded(x, files, o) ==
    LET n == Cardinality(DOMAIN files)
        load[i \in 0 .. n] ==
            IF i = 0 THEN Cleared(x)
            ELSE AppendCell(load[i - 1], <<files[i], 0>>, o)
    IN  load[n]

\* The keys of a tree's files, in the walk's order.
FileKeys(files) == [i \in 1 .. Cardinality(DOMAIN files) |-> <<files[i], 0>>]

\* The walk appends the tree's files, one by one, to the cleared index.
LEMMA LoadedLoop ==
    ASSUME hash \in [Key -> Nat], NEW x, Good(x), NEW files \in Trees, NEW o \in Oid,
           Cardinality(DOMAIN files) <= MaxEntries
    PROVE  LET n == Cardinality(DOMAIN files)
           IN  /\ n \in Nat /\ files \in [1 .. n -> Path]
               /\ \A i \in 1 .. n : FileKeys(files)[i] \in Key
               /\ Cleared(x).count + Cardinality(1 .. n) <= MaxEntries
               /\ \E d : /\ Appends(d, n, Cleared(x), FileKeys(files), 1 .. n, o)
                         /\ Loaded(x, files, o) = d[n]
<1> DEFINE n == Cardinality(DOMAIN files)
           a == Cleared(x)
           W == 1 .. n
           K == FileKeys(files)
           Loop(d) == d = [i \in 0 .. n |-> IF i = 0 THEN a
                                            ELSE AppendCell(d[i - 1], <<files[i], 0>>, o)]
<1>1. n \in Nat /\ files \in [1 .. n -> Path]
  BY TreesAssumption, FS_CardinalityType
<1>2. Good(a) /\ a.count = 0 /\ InStep(a)
  BY ClearedInStep
<1>3. \A i \in W : K[i] \in Key
  BY <1>1, StageAssumption DEF Key, FileKeys
<1>4. Cardinality(W) = n
  BY <1>1, FS_Interval
<1>5. n <= MaxEntries /\ \A i \in W : K[i] = <<files[i], 0>>
  BY DEF FileKeys
<1>6. Loaded(x, files, o) = (CHOOSE d : Loop(d))[n]
  BY DEF Loaded
<1> HIDE DEF a, n
<1>7. a.count + Cardinality(W) <= MaxEntries
  BY <1>1, <1>2, <1>4, <1>5
<1>8. \A d : d = [i \in 0 .. n |-> d[i]] /\ Appends(d, n, a, K, W, o) => Loop(d)
  <2> SUFFICES ASSUME NEW d, d = [i \in 0 .. n |-> d[i]], Appends(d, n, a, K, W, o) PROVE Loop(d)
    OBVIOUS
  <2>1. d[0] = a /\ \A i \in 1 .. n : d[i] = AppendCell(d[i - 1], <<files[i], 0>>, o)
    BY <1>5 DEF Appends
  <2>2. \A i \in 0 .. n : d[i] = IF i = 0 THEN a ELSE AppendCell(d[i - 1], <<files[i], 0>>, o)
    <3> SUFFICES ASSUME NEW i \in 0 .. n
                 PROVE  d[i] = IF i = 0 THEN a ELSE AppendCell(d[i - 1], <<files[i], 0>>, o)
      OBVIOUS
    <3>1. i = 0 \/ i \in 1 .. n
      BY ONLY <1>1, i \in 0 .. n
    <3>2. 0 \notin 1 .. n
      BY ONLY <1>1
    <3> QED BY ONLY <2>1, <3>1, <3>2
  <2> QED BY <2>2
<1>9. \A d : Loop(d) => Appends(d, n, a, K, W, o)
  <2> SUFFICES ASSUME NEW d, Loop(d) PROVE Appends(d, n, a, K, W, o)
    OBVIOUS
  <2>1. 0 \in 0 .. n /\ \A i \in 1 .. n : i \in 0 .. n /\ i # 0
    BY <1>1
  <2>2. d[0] = a /\ \A i \in 1 .. n : d[i] = AppendCell(d[i - 1], <<files[i], 0>>, o)
    BY ONLY <2>1, Loop(d)
  <2> QED BY <1>5, <2>2 DEF Appends
<1> HIDE DEF K
<1>10. PICK e : e = [i \in 0 .. n |-> e[i]] /\ Appends(e, n, a, K, W, o)
  BY <1>1, <1>2, <1>3, <1>7, AppendsExist
<1>11. PICK d : Loop(d) /\ Loaded(x, files, o) = d[n]
  <2>1. Loop(e)
    BY <1>8, <1>10
  <2> HIDE DEF Loop
  <2>2. Loop(CHOOSE d : Loop(d))
    BY <2>1
  <2> QED BY <1>6, <2>2
<1>12. Appends(d, n, a, K, W, o)
  BY <1>9, <1>11
<1> QED BY <1>1, <1>3, <1>7, <1>11, <1>12 DEF a, n, K

\* Reading a tree leaves a well-formed index; an empty tree one that is in step.
LEMMA LoadedShape ==
    ASSUME hash \in [Key -> Nat], NEW x, Good(x), NEW files \in Trees, NEW o \in Oid,
           Cardinality(DOMAIN files) <= MaxEntries
    PROVE  /\ Good(Loaded(x, files, o))
           /\ Cardinality(DOMAIN files) = 0 => InStep(Loaded(x, files, o))
<1> PICK n : n = Cardinality(DOMAIN files)
  OBVIOUS
<1> PICK K : K = FileKeys(files)
  OBVIOUS
<1> PICK a : a = Cleared(x)
  OBVIOUS
<1>1. /\ n \in Nat /\ \A i \in 1 .. n : K[i] \in Key
      /\ a.count + Cardinality(1 .. n) <= MaxEntries
  BY LoadedLoop
<1>2. PICK d : Appends(d, n, a, K, 1 .. n, o) /\ Loaded(x, files, o) = d[n]
  BY LoadedLoop
<1>3. Good(a) /\ InStep(a)
  BY ClearedInStep
<1>4. Good(d[n])
  BY <1>1, <1>2, <1>3, AppendsShape
<1>5. n = 0 => d[n] = a
  BY <1>2 DEF Appends
<1> QED BY <1>2, <1>3, <1>4, <1>5

\* The sides of a conflict that fastgit_index_conflict_add has appended.
Joined(x, p, sides, o) ==
    LET x0 == Without(x, p)
        side[s \in 0 .. 3] ==
            LET y == IF s = 0 THEN x0 ELSE side[s - 1]
            IN  IF s \in sides THEN AppendCell(y, <<p, s>>, o) ELSE y
    IN  side[3]

\* The keys of the sides of a conflict.
SideKeys(p) == [i \in 1 .. 3 |-> <<p, i>>]

\* The sides are appended, one by one, to the array without the path.
LEMMA JoinedLoop ==
    ASSUME NEW x, Good(x), NEW p \in Path, NEW sides \in Sides, NEW o \in Oid,
           Without(x, p).count + Cardinality(sides) <= MaxEntries
    PROVE  /\ Good(Without(x, p)) /\ sides \subseteq 1 .. 3
           /\ \A i \in sides : SideKeys(p)[i] = <<p, i>> /\ SideKeys(p)[i] \in Key
           /\ \E d : /\ Appends(d, 3, Without(x, p), SideKeys(p), sides, o)
                     /\ Joined(x, p, sides, o) = d[3]
<1> DEFINE a == Without(x, p)
           K == SideKeys(p)
           At(d, s) == IF s = 0 THEN a ELSE d[s - 1]
           Loop(d) == d = [s \in 0 .. 3 |-> IF s \in sides THEN AppendCell(At(d, s), <<p, s>>, o)
                                                          ELSE At(d, s)]
<1>1. Good(a)
  BY WithoutShape
<1>2. sides \subseteq 1 .. 3 /\ 0 \notin sides /\ \A i \in sides : i \in Stage
  <2>1. sides \subseteq Stage \ {0}
    BY SidesAssumption
  <2> QED BY <2>1, StageAssumption
<1>3. \A i \in sides : K[i] = <<p, i>> /\ K[i] \in Key
  BY <1>2 DEF Key, SideKeys
<1>4. Joined(x, p, sides, o) = (CHOOSE d : Loop(d))[3]
  BY DEF Joined
<1>5. a.count + Cardinality(sides) <= MaxEntries
  OBVIOUS
<1> HIDE DEF a
<1>6. \A d : d = [i \in 0 .. 3 |-> d[i]] /\ Appends(d, 3, a, K, sides, o) => Loop(d)
  <2> SUFFICES ASSUME NEW d, d = [i \in 0 .. 3 |-> d[i]], Appends(d, 3, a, K, sides, o)
               PROVE  Loop(d)
    OBVIOUS
  <2>1. /\ d[0] = a
        /\ \A i \in 1 .. 3 : d[i] = IF i \in sides THEN AppendCell(d[i - 1], <<p, i>>, o)
                                                   ELSE d[i - 1]
    BY <1>3 DEF Appends
  <2>2. \A s \in 0 .. 3 : d[s] = IF s \in sides THEN AppendCell(At(d, s), <<p, s>>, o)
                                                ELSE At(d, s)
    BY <1>2, <2>1
  <2> HIDE DEF At
  <2> QED BY <2>2
<1>7. \A d : Loop(d) => Appends(d, 3, a, K, sides, o)
  <2> SUFFICES ASSUME NEW d, Loop(d) PROVE Appends(d, 3, a, K, sides, o)
    OBVIOUS
  <2>1. d[0] = a
    BY <1>2
  <2>2. \A i \in 1 .. 3 : d[i] = IF i \in sides THEN AppendCell(d[i - 1], <<p, i>>, o)
                                               ELSE d[i - 1]
    OBVIOUS
  <2> QED BY <1>3, <2>1, <2>2 DEF Appends
<1> HIDE DEF K
<1>8. PICK e : e = [i \in 0 .. 3 |-> e[i]] /\ Appends(e, 3, a, K, sides, o)
  BY <1>1, <1>2, <1>3, <1>5, AppendsExist
<1>9. PICK d : Loop(d) /\ Joined(x, p, sides, o) = d[3]
  <2>1. Loop(e)
    BY <1>6, <1>8
  <2> HIDE DEF Loop
  <2>2. Loop(CHOOSE d : Loop(d))
    BY <2>1
  <2> QED BY <1>4, <2>2
<1>10. Appends(d, 3, a, K, sides, o)
  BY <1>7, <1>9
<1> QED BY <1>1, <1>2, <1>3, <1>9, <1>10 DEF a, K

\* Adding the sides of a conflict leaves a well-formed index.
LEMMA JoinedShape ==
    ASSUME NEW x, Good(x), NEW p \in Path, NEW sides \in Sides, NEW o \in Oid,
           Without(x, p).count + Cardinality(sides) <= MaxEntries
    PROVE  Good(Joined(x, p, sides, o))
<1> PICK a : a = Without(x, p)
  OBVIOUS
<1> PICK K : K = SideKeys(p)
  OBVIOUS
<1>1. Good(a) /\ sides \subseteq 1 .. 3 /\ \A i \in sides : K[i] \in Key
  BY JoinedLoop
<1>2. PICK d : Appends(d, 3, a, K, sides, o) /\ Joined(x, p, sides, o) = d[3]
  BY JoinedLoop
<1>3. Good(d[3])
  BY <1>1, <1>2, AppendsShape
<1> QED BY <1>2, <1>3

-----------------------------------------------------------------------------
(* The inductive invariant *)

\* The file holds as many entries as it was written with.
Saved == \E n \in 0 .. MaxEntries : disk \in [1 .. n -> Entry]

\* What a call returns: a code or, from find, an object id.
Returns == {"OK", "ENOENT", "EIO", "ERROR", "EINVAL"} \cup Oid

\* An index whose table is in step has every live entry in its table and nothing else; of one
\* that is not, only the form is known.
IInv ==
    /\ hash \in Hashes
    /\ Good(ix)
    /\ Saved
    /\ ret \in Returns
    /\ stale \in Nat
    /\ stale = 0 => InStep(ix)

\* What a call must leave; the hash function never changes.
LEMMA Concludes ==
    ASSUME IInv, hash' = hash, Saved', Good(ix'), ret' \in Returns, stale' \in Nat,
           stale' = 0 => InStep(ix')
    PROVE  IInv'
<1>1. Good(ix)'
  BY DEF Good, Live
<1>2. InStep(ix') => InStep(ix)'
  BY DEF InStep, Indexed, Probe, Cap, Live
<1> QED BY <1>1, <1>2 DEF IInv, Returns

\* A call that does not write leaves the file.
LEMMA SavedStays == ASSUME Saved, disk' = disk PROVE Saved'
BY DEF Saved

\* The hash of a key is a number.
LEMMA HashType == IInv => hash \in [Key -> Nat]
BY HashAssumption DEF IInv

\* A freed path is intact or not.
LEMMA IntactType == Intact \subseteq BOOLEAN
BY DEF Intact

\* A path with a stage is a key.
LEMMA KeyPair == \A p \in Path, s \in Stage : <<p, s>> \in Key /\ <<p, 0>> \in Key
BY StageAssumption DEF Key

\* A new index is empty and in step.
LEMMA InitHolds == Init => IInv
<1> SUFFICES ASSUME Init PROVE IInv
  OBVIOUS
<1> DEFINE c == [i \in Cells |-> NoEntry]
<1>1. hash \in Hashes /\ hash \in [Key -> Nat] /\ ret \in Returns /\ stale = 0 /\ disk = <<>>
  BY HashAssumption DEF Init, Returns
<1>2. Saved
  <2>1. disk \in [1 .. 0 -> Entry] /\ 0 \in 0 .. MaxEntries
    BY <1>1, BoundAssumption
  <2> QED BY <2>1 DEF Saved
<1>3. Rebuild(c, 0) = EmptyTable(MinCap)
  BY DEF Rebuild
<1>4. EmptyTable(MinCap) \in Tables
  <2>1. 0 \in 0 .. MaxEntries
    BY BoundAssumption
  <2> HIDE DEF c
  <2> QED BY <1>3, <2>1, RebuildTable
<1>5. ix \in Shape /\ ix.count = 0 /\ ix.cells = c /\ ix.ht = Rebuild(c, 0)
  <2>1. c \in [Cells -> Entry \cup {NoEntry}] /\ 0 \in 0 .. MaxEntries
    BY BoundAssumption
  <2>2. ix = [cells |-> c, count |-> 0, ht |-> EmptyTable(MinCap), sorted |-> TRUE,
              dirty |-> FALSE]
    BY DEF Init, NewIndex
  <2> HIDE DEF c
  <2> QED BY <1>3, <1>4, <2>1, <2>2 DEF Shape
<1>6. Good(ix)
  BY <1>5 DEF Good, Live
<1>7. InStep(ix)
  <2>1. Unique(ix)
    BY <1>5 DEF Unique
  <2> QED BY <1>1, <1>5, <1>6, <2>1, RebuiltInStep
<1> QED BY <1>1, <1>2, <1>6, <1>7 DEF IInv

-----------------------------------------------------------------------------
(* One lemma per call *)

\* fastgit_index_add keeps the invariant.
LEMMA AddStep ==
    ASSUME IInv, NEW p \in Path, NEW o \in Oid, NEW b \in BOOLEAN, Add(p, o, b)
    PROVE  IInv'
<1> PICK x : x = Put(ix, <<p, 0>>, o, b)
  OBVIOUS
<1> PICK y : y = [x EXCEPT !.dirty = TRUE]
  OBVIOUS
<1>1. hash \in [Key -> Nat] /\ <<p, 0>> \in Key /\ Good(ix) /\ stale \in Nat /\ Saved
  BY HashType, KeyPair, StageAssumption DEF IInv
<1>2. /\ ix.count < MaxEntries /\ ix' = Forget(y) /\ ret' = "OK" /\ hash' = hash /\ disk' = disk
      /\ stale' = IF stale = 0 THEN 0 ELSE stale + 1
  BY DEF Add, Keeps
<1>3. Good(x) /\ (stale = 0 => InStep(x))
  BY <1>1, <1>2, PutShape, PutInStep DEF IInv
<1>4. Good(y) /\ (stale = 0 => InStep(y))
  BY <1>3, Flags
<1>5. Good(ix') /\ (stale = 0 => InStep(ix'))
  BY <1>2, <1>4, ForgetShape, ForgetInStep DEF Good
<1>6. stale' \in Nat /\ (stale' = 0 => stale = 0) /\ ret' \in Returns
  BY <1>1, <1>2 DEF Returns
<1>7. Saved'
  BY <1>1, <1>2, SavedStays
<1> QED BY <1>2, <1>5, <1>6, <1>7, Concludes

\* fastgit_index_add_many keeps the invariant.
LEMMA AddManyStep ==
    ASSUME IInv, NEW p \in Path, NEW o \in Oid, NEW q \in Path, NEW r \in Oid,
           NEW b \in BOOLEAN, AddMany(p, o, q, r, b)
    PROVE  IInv'
<1> PICK x : x = Put(ix, <<p, 0>>, o, b)
  OBVIOUS
<1> PICK z : z = Put(x, <<q, 0>>, r, b)
  OBVIOUS
<1> PICK y : y = [z EXCEPT !.dirty = TRUE, !.sorted = FALSE]
  OBVIOUS
<1>1. /\ hash \in [Key -> Nat] /\ <<p, 0>> \in Key /\ <<q, 0>> \in Key /\ Good(ix)
      /\ stale \in Nat /\ Saved
  BY HashType, KeyPair, StageAssumption DEF IInv
<1>2. /\ ix.count + 2 <= MaxEntries /\ ix' = Forget(y) /\ ret' = "OK" /\ hash' = hash
      /\ disk' = disk /\ stale' = IF stale = 0 THEN 0 ELSE stale + 1
  BY DEF AddMany, Keeps
<1>3. ix.count \in Nat /\ ix.count < MaxEntries
  BY <1>1, <1>2, BoundAssumption DEF Good, Shape
<1>4. Good(x) /\ x.count <= ix.count + 1 /\ (stale = 0 => InStep(x))
  BY <1>1, <1>3, PutShape, PutInStep DEF IInv
<1>5. x.count < MaxEntries
  <2>1. x.count \in Nat
    BY <1>4, BoundAssumption DEF Good, Shape
  <2> QED BY <1>2, <1>3, <1>4, <2>1, BoundAssumption
<1>6. Good(z) /\ (stale = 0 => InStep(z))
  BY <1>1, <1>4, <1>5, PutShape, PutInStep
<1>7. Good(y) /\ (stale = 0 => InStep(y))
  BY <1>6, Flags
<1>8. Good(ix') /\ (stale = 0 => InStep(ix'))
  BY <1>2, <1>7, ForgetShape, ForgetInStep DEF Good
<1>9. stale' \in Nat /\ (stale' = 0 => stale = 0) /\ ret' \in Returns
  BY <1>1, <1>2 DEF Returns
<1>10. Saved'
  BY <1>1, <1>2, SavedStays
<1> QED BY <1>2, <1>8, <1>9, <1>10, Concludes

\* A call that changes nothing.
LEMMA NothingChanges ==
    ASSUME IInv, hash' = hash, ix' = ix, disk' = disk, ret' \in Returns, Keeps(TRUE)
    PROVE  IInv'
<1>1. Good(ix) /\ stale \in Nat /\ Saved /\ (stale = 0 => InStep(ix))
  BY DEF IInv
<1>2. stale' \in Nat /\ (stale' = 0 => stale = 0)
  BY <1>1 DEF Keeps
<1>3. Good(ix') /\ (stale' = 0 => InStep(ix'))
  BY <1>1, <1>2
<1>4. Saved'
  BY <1>1, SavedStays
<1> QED BY <1>2, <1>3, <1>4, Concludes

\* fastgit_index_remove keeps the invariant; a table that grew in the middle is out of step.
LEMMA RemoveStep ==
    ASSUME IInv, NEW p \in Path, NEW s \in Stage, NEW b \in BOOLEAN, Remove(p, s, b)
    PROVE  IInv'
<1> PICK k : k = <<p, s>>
  OBVIOUS
<1> PICK f : f = HtFind(ix, k, b)
  OBVIOUS
<1> PICK x : x = HtRemove(ix, k, b)
  OBVIOUS
<1> PICK y : y = Shrunk(Hole(x, f, b), ix.count)
  OBVIOUS
<1>1. hash \in [Key -> Nat] /\ k \in Key /\ Good(ix) /\ stale \in Nat /\ Saved
  BY HashType, KeyPair DEF IInv
<1>2. CASE f < 0
  <2>1. /\ hash' = hash /\ ix' = ix /\ disk' = disk /\ ret' = "ENOENT" /\ Keeps(TRUE)
    <3>1. ~(f >= 0)
      <4>1. f = -1 \/ f \in Nat
        BY <1>1, FindRange DEF Good
      <4> QED BY <1>2, <4>1
    <3> QED BY <3>1 DEF Remove
  <2> QED BY <2>1, NothingChanges DEF Returns
<1>3. CASE ~(f < 0)
  <2>1. /\ f >= 0 /\ ix.count > 0 /\ ret' = "OK" /\ hash' = hash /\ disk' = disk /\ ix' = Forget(y)
        /\ Keeps(~(f # x.count - 1 /\ MustGrow(x)))
    BY <1>3 DEF Remove, Shrunk, Hole
  <2>2. Good(y) /\ (InStep(ix) /\ ~(f # x.count - 1 /\ MustGrow(x)) => InStep(y))
    BY <1>1, <2>1, TakenOut
  <2>3. stale' \in Nat /\ (stale' = 0 => stale = 0 /\ ~(f # x.count - 1 /\ MustGrow(x)))
    BY <1>1, <2>1 DEF Keeps
  <2>4. Good(ix') /\ (InStep(y) => InStep(ix'))
    BY <2>1, <2>2, ForgetShape, ForgetInStep DEF Good
  <2>5. stale' = 0 => InStep(ix')
    BY <2>2, <2>3, <2>4 DEF IInv
  <2>6. Saved' /\ ret' \in Returns
    BY <1>1, <2>1, SavedStays DEF Returns
  <2> QED BY <2>1, <2>3, <2>4, <2>5, <2>6, Concludes
<1> QED BY <1>2, <1>3

\* fastgit_index_clear keeps the invariant.
LEMMA ClearStep == ASSUME IInv, Clear PROVE IInv'
<1> PICK x : x = Cleared(ix)
  OBVIOUS
<1>1. hash \in [Key -> Nat] /\ Good(ix) /\ stale \in Nat /\ Saved
  BY HashType DEF IInv
<1>2. /\ ix' = Forget(x) /\ ret' = "OK" /\ hash' = hash /\ disk' = disk
      /\ stale' = IF Unique(ix') THEN 0 ELSE stale + 1
  BY DEF Clear, Restores
<1>3. Good(x) /\ InStep(x)
  BY <1>1, ClearedInStep
<1>4. Good(ix') /\ InStep(ix')
  BY <1>2, <1>3, ForgetShape, ForgetInStep DEF Good
<1>5. stale' \in Nat /\ ret' \in Returns /\ Saved'
  BY <1>1, <1>2, SavedStays DEF Returns
<1> QED BY <1>2, <1>4, <1>5, Concludes

\* What a call that may rebuild the table does to the agreement.
LEMMA RestoresStep ==
    ASSUME stale \in Nat, Restored(ix'), Restores
    PROVE  Good(ix') /\ stale' \in Nat /\ (stale' = 0 => InStep(ix'))
<1>1. stale' = IF Unique(ix') THEN 0 ELSE stale + 1
  BY DEF Restores
<1>2. stale' \in Nat /\ (stale' = 0 => Unique(ix'))
  BY <1>1
<1> QED BY <1>2 DEF Restored

\* What a search answers is a return code or the object id of an entry.
LEMMA FoundType ==
    ASSUME hash \in [Key -> Nat], NEW x, Good(x), NEW k \in Key, NEW b \in BOOLEAN
    PROVE  (IF HtFind(x, k, b) >= 0 THEN x.cells[HtFind(x, k, b)].oid ELSE "ENOENT") \in Returns
<1> PICK g : g = HtFind(x, k, b)
  OBVIOUS
<1>1. g = -1 \/ (g \in Cells /\ x.cells[g].key = k)
  BY FindRange DEF Good
<1>2. CASE g = -1
  BY <1>2 DEF Returns
<1>3. CASE g \in Cells /\ x.cells[g].key = k
  <2>1. x.cells[g] \in Entry
    BY <1>3, KeyOfEntry DEF Good, Shape
  <2> QED BY <2>1, KeyOfEntry DEF Returns
<1> QED BY <1>1, <1>2, <1>3

\* fastgit_index_find: a miss may sort the array and rebuild the table.
LEMMA FindStep ==
    ASSUME IInv, NEW p \in Path, NEW s \in Stage, NEW b \in BOOLEAN, Find(p, s, b)
    PROVE  IInv'
<1> PICK k : k = <<p, s>>
  OBVIOUS
<1> DEFINE retry == HtFind(ix, k, b) < 0 /\ MustSort(ix)
           Found(x) == IF HtFind(x, k, b) >= 0 THEN x.cells[HtFind(x, k, b)].oid ELSE "ENOENT"
<1>1. hash \in [Key -> Nat] /\ k \in Key /\ Good(ix) /\ stale \in Nat /\ Saved
  BY HashType, KeyPair DEF IInv
<1>2. hash' = hash /\ disk' = disk
  BY DEF Find
<1>3. Saved'
  BY <1>1, <1>2, SavedStays
<1>4. CASE retry
  <2> DEFINE x == [Rebuilt(Sort(ix)) EXCEPT !.sorted = TRUE]
  <2>1. ix' = Forget(x) /\ ret' = Found(x) /\ Restores
    BY <1>4 DEF Find
  <2>2. Restored(x) /\ Good(x)
    BY <1>1, SortedRestored DEF Restored
  <2> HIDE DEF x
  <2>3. Good(ix') /\ stale' \in Nat /\ (stale' = 0 => InStep(ix'))
    BY <1>1, <2>1, <2>2, ForgetRestored, RestoresStep
  <2>4. ret' \in Returns
    BY <1>1, <2>1, <2>2, FoundType
  <2> QED BY <1>2, <1>3, <2>3, <2>4, Concludes
<1>5. CASE ~retry
  <2>1. ix' = Forget(ix) /\ ret' = Found(ix) /\ Keeps(TRUE)
    BY <1>5 DEF Find
  <2>2. stale' \in Nat /\ (stale' = 0 => stale = 0)
    BY <1>1, <2>1 DEF Keeps
  <2>3. Good(ix') /\ (InStep(ix) => InStep(ix'))
    BY <1>1, <2>1, ForgetShape, ForgetInStep DEF Good
  <2>4. stale' = 0 => InStep(ix')
    BY <2>2, <2>3 DEF IInv
  <2>5. ret' \in Returns
    BY <1>1, <2>1, FoundType
  <2> QED BY <1>2, <1>3, <2>2, <2>3, <2>4, <2>5, Concludes
<1> QED BY <1>4, <1>5

\* fastgit_index_write_to keeps the invariant, whether or not the write succeeds.
LEMMA WriteToStep == ASSUME IInv, NEW ok \in BOOLEAN, WriteTo(ok) PROVE IInv'
<1> DEFINE d == IF ok THEN FALSE ELSE ix.dirty
<1> PICK x : x = ForWrite(ix)
  OBVIOUS
<1> PICK y : y = [x EXCEPT !.dirty = d]
  OBVIOUS
<1>1. hash \in [Key -> Nat] /\ Good(ix) /\ stale \in Nat /\ Saved /\ d \in BOOLEAN
  BY HashType DEF IInv, Good, Shape
<1>2. /\ ix' = Forget(y) /\ ret' = (IF ok THEN "OK" ELSE "EIO") /\ hash' = hash
      /\ disk' = IF ok THEN [i \in 1 .. x.count |-> x.cells[i - 1]] ELSE disk
      /\ IF MustSort(ix) THEN Restores ELSE Keeps(TRUE)
  BY DEF WriteTo
<1> HIDE DEF d
<1>3. Good(x) /\ (MustSort(ix) => Restored(x)) /\ (~MustSort(ix) /\ InStep(ix) => InStep(x))
  <2>1. CASE MustSort(ix)
    <3>1. x = [Rebuilt(Sort(ix)) EXCEPT !.sorted = TRUE]
      BY <2>1 DEF ForWrite
    <3> QED BY <1>1, <2>1, <3>1, SortedRestored DEF Restored
  <2>2. CASE ~MustSort(ix)
    <3>1. x = [ix EXCEPT !.sorted = TRUE]
      BY <2>2 DEF ForWrite
    <3> QED BY <1>1, <2>2, <3>1, Flags
  <2> QED BY <2>1, <2>2
<1>4. Good(y) /\ (Restored(x) => Restored(y)) /\ (InStep(x) => InStep(y))
  BY <1>1, <1>3, Flags
<1>5. Good(ix') /\ stale' \in Nat /\ (stale' = 0 => InStep(ix'))
  <2>1. CASE MustSort(ix)
    BY <1>1, <1>2, <1>3, <1>4, <2>1, ForgetRestored, RestoresStep
  <2>2. CASE ~MustSort(ix)
    <3>1. stale' \in Nat /\ (stale' = 0 => stale = 0)
      BY <1>1, <1>2, <2>2 DEF Keeps
    <3>2. Good(ix') /\ (InStep(ix) => InStep(ix'))
      BY <1>2, <1>3, <1>4, <2>2, ForgetShape, ForgetInStep DEF Good
    <3> QED BY <3>1, <3>2 DEF IInv
  <2> QED BY <2>1, <2>2
<1>6. Saved'
  <2>1. CASE ok
    <3>1. x.count \in 0 .. MaxEntries /\ \A i \in 0 .. x.count - 1 : x.cells[i] \in Entry
      BY <1>3 DEF Good, Shape, Live
    <3>2. \A i \in 1 .. x.count : x.cells[i - 1] \in Entry
      BY <3>1
    <3>3. disk' \in [1 .. x.count -> Entry]
      BY <1>2, <2>1, <3>2
    <3> QED BY <3>1, <3>3 DEF Saved
  <2>2. CASE ~ok
    BY <1>1, <1>2, <2>2, SavedStays
  <2> QED BY <2>1, <2>2
<1>7. ret' \in Returns
  BY <1>2 DEF Returns
<1> QED BY <1>2, <1>5, <1>6, <1>7, Concludes

\* fastgit_index_open keeps the invariant.
LEMMA OpenStep == ASSUME IInv, Open PROVE IInv'
<1> PICK n : n = Cardinality(DOMAIN disk)
  OBVIOUS
<1> PICK c : c = [i \in Cells |-> IF i < n THEN disk[i + 1] ELSE NoEntry]
  OBVIOUS
<1> PICK x : x = [cells |-> c, count |-> n, ht |-> Rebuild(c, n), sorted |-> TRUE,
                  dirty |-> FALSE]
  OBVIOUS
<1>1. hash \in [Key -> Nat] /\ stale \in Nat /\ Saved
  BY HashType DEF IInv
<1>2. ix' = x /\ ret' = "OK" /\ Restores /\ hash' = hash /\ disk' = disk
  BY DEF Open
<1>3. n \in 0 .. MaxEntries /\ disk \in [1 .. n -> Entry]
  <2>1. PICK m \in 0 .. MaxEntries : disk \in [1 .. m -> Entry]
    BY <1>1 DEF Saved
  <2>2. Cardinality(1 .. m) = m
    <3>1. m \in Nat
      BY BoundAssumption
    <3> QED BY <3>1, FS_Interval
  <2> QED BY <2>1, <2>2
<1>4. \A i \in 0 .. n - 1 : i \in Cells /\ i < n /\ disk[i + 1] \in Entry
  BY <1>3, BoundAssumption DEF Cells
<1>5. c \in [Cells -> Entry \cup {NoEntry}]
  <2>1. \A i \in Cells : i < n => i \in 0 .. n - 1
    BY <1>3, BoundAssumption DEF Cells
  <2> QED BY <1>4, <2>1
<1>6. \A i \in 0 .. n - 1 : c[i] \in Entry
  BY <1>4
<1>7. Rebuild(c, n) \in Tables
  BY <1>3, RebuildTable
<1>8. /\ x \in Shape /\ x.cells = c /\ x.count = n /\ x.ht = Rebuild(c, n)
  BY <1>3, <1>5, <1>7 DEF Shape
<1>9. Good(x)
  BY <1>6, <1>8 DEF Good, Live
<1>10. Restored(x)
  <2>1. Unique(x) => InStep(x)
    BY <1>1, <1>8, <1>9, RebuiltInStep
  <2> QED BY <1>9, <2>1 DEF Restored
<1>11. Good(ix') /\ stale' \in Nat /\ (stale' = 0 => InStep(ix'))
  BY <1>1, <1>2, <1>10, RestoresStep
<1>12. Saved' /\ ret' \in Returns
  BY <1>1, <1>2, SavedStays DEF Returns
<1> QED BY <1>2, <1>11, <1>12, Concludes

\* A call that leaves the table out of step.
LEMMA BreaksStep ==
    ASSUME IInv, hash' = hash, disk' = disk, ret' \in Returns, NEW x, Good(x), ix' = Forget(x),
           Breaks
    PROVE  IInv'
<1>1. stale \in Nat /\ Saved
  BY DEF IInv
<1>2. stale' \in Nat /\ stale' # 0
  BY <1>1 DEF Breaks
<1>3. Good(ix')
  BY ForgetShape
<1>4. Saved'
  BY <1>1, SavedStays
<1> QED BY <1>2, <1>3, <1>4, Concludes

\* fastgit_index_conflict_remove keeps the invariant.
LEMMA ConflictRemoveStep == ASSUME IInv, NEW p \in Path, ConflictRemove(p) PROVE IInv'
<1> PICK x : x = Without(ix, p)
  OBVIOUS
<1> PICK y : y = [x EXCEPT !.dirty = TRUE]
  OBVIOUS
<1>1. CASE x.count = ix.count
  <2>1. hash' = hash /\ ix' = ix /\ disk' = disk /\ ret' = "ENOENT" /\ Keeps(TRUE)
    BY <1>1 DEF ConflictRemove
  <2> QED BY <2>1, NothingChanges DEF Returns
<1>2. CASE x.count # ix.count
  <2>1. hash' = hash /\ ix' = Forget(y) /\ disk' = disk /\ ret' = "OK" /\ Breaks
    BY <1>2 DEF ConflictRemove
  <2>2. Good(x)
    BY WithoutShape DEF IInv
  <2>3. Good(y)
    BY <2>2, Flags
  <2> QED BY <2>1, <2>3, BreaksStep DEF Returns
<1> QED BY <1>1, <1>2

\* fastgit_index_conflict_add keeps the invariant.
LEMMA ConflictAddStep ==
    ASSUME IInv, NEW p \in Path, NEW sides \in Sides, NEW o \in Oid, ConflictAdd(p, sides, o)
    PROVE  IInv'
<1> PICK x : x = Joined(ix, p, sides, o)
  OBVIOUS
<1> PICK y : y = [x EXCEPT !.dirty = TRUE, !.sorted = FALSE]
  OBVIOUS
<1>1. /\ Without(ix, p).count + Cardinality(sides) <= MaxEntries
      /\ ix' = Forget(y) /\ ret' = "OK" /\ Breaks /\ hash' = hash /\ disk' = disk
  BY DEF ConflictAdd, Joined
<1>2. Good(x)
  BY <1>1, JoinedShape DEF IInv
<1>3. Good(y)
  BY <1>2, Flags
<1> QED BY <1>1, <1>3, BreaksStep DEF Returns

\* fastgit_index_read_tree keeps the invariant.
LEMMA ReadTreeStep ==
    ASSUME IInv, NEW files \in Trees, NEW o \in Oid, NEW ok \in BOOLEAN, ReadTree(files, o, ok)
    PROVE  IInv'
<1> PICK x : x = Loaded(ix, files, o)
  OBVIOUS
<1> PICK y : y = [x EXCEPT !.sorted = ~ok]
  OBVIOUS
<1>1. hash \in [Key -> Nat] /\ Good(ix) /\ stale \in Nat /\ Saved
  BY HashType DEF IInv
<1>2. /\ Cardinality(DOMAIN files) <= MaxEntries
      /\ ix' = Forget(y) /\ ret' = (IF ok THEN "OK" ELSE "ERROR") /\ hash' = hash /\ disk' = disk
      /\ IF Cardinality(DOMAIN files) = 0 THEN Restores ELSE Breaks
  BY DEF ReadTree, Loaded
<1>3. Good(x) /\ (Cardinality(DOMAIN files) = 0 => InStep(x))
  BY <1>1, <1>2, LoadedShape
<1>4. Good(y) /\ (InStep(x) => InStep(y))
  BY <1>3, Flags
<1>5. ret' \in Returns
  BY <1>2 DEF Returns
<1>6. CASE Cardinality(DOMAIN files) = 0
  <2>1. Good(ix') /\ InStep(ix')
    BY <1>2, <1>3, <1>4, <1>6, ForgetShape, ForgetInStep DEF Good
  <2>2. stale' \in Nat
    BY <1>1, <1>2, <1>6 DEF Restores
  <2>3. Saved'
    BY <1>1, <1>2, SavedStays
  <2> QED BY <1>2, <1>5, <2>1, <2>2, <2>3, Concludes
<1>7. CASE Cardinality(DOMAIN files) # 0
  BY <1>2, <1>4, <1>5, <1>7, BreaksStep
<1> QED BY <1>6, <1>7

\* fastgit_index_write_tree keeps the invariant.
LEMMA WriteTreeStep == ASSUME IInv, WriteTree PROVE IInv'
<1> PICK y : y = [Sort(ix) EXCEPT !.sorted = TRUE]
  OBVIOUS
<1>1. CASE HasConflicts(ix)
  <2>1. hash' = hash /\ ix' = ix /\ disk' = disk /\ ret' = "EINVAL" /\ Keeps(TRUE)
    BY <1>1 DEF WriteTree
  <2> QED BY <2>1, NothingChanges DEF Returns
<1>2. CASE ~HasConflicts(ix) /\ ~MustSort(ix)
  <2>1. hash' = hash /\ ix' = ix /\ disk' = disk /\ ret' = "OK" /\ Keeps(TRUE)
    BY <1>2 DEF WriteTree, Keeps
  <2> QED BY <2>1, NothingChanges DEF Returns
<1>3. CASE ~HasConflicts(ix) /\ MustSort(ix)
  <2>1. /\ hash' = hash /\ ix' = Forget(y) /\ disk' = disk /\ ret' = "OK"
        /\ stale' = stale + 1
    BY <1>3 DEF WriteTree, Keeps
  <2>2. Good(Sort(ix))
    BY SortShape DEF IInv
  <2>3. Good(y)
    BY <2>2, Flags
  <2>4. Breaks
    BY <2>1 DEF Breaks
  <2> QED BY <2>1, <2>3, <2>4, BreaksStep DEF Returns
<1> QED BY <1>1, <1>2, <1>3

\* Every call keeps the invariant.
LEMMA NextStep == IInv /\ [Next]_vars => IInv'
<1> SUFFICES ASSUME IInv, [Next]_vars PROVE IInv'
  OBVIOUS
<1>1. CASE UNCHANGED vars
  <2>1. hash' = hash /\ ix' = ix /\ disk' = disk /\ ret' = ret /\ stale' = stale
    BY <1>1 DEF vars
  <2>2. Saved' /\ Good(ix') /\ (stale = 0 => InStep(ix')) /\ ret' \in Returns /\ stale' \in Nat
    BY <2>1, SavedStays DEF IInv
  <2> QED BY <2>1, <2>2, Concludes
<1>2. CASE \E p \in Path, o \in Oid, b \in Intact : Add(p, o, b)
  BY <1>2, AddStep, IntactType
<1>3. CASE \E p, q \in Path, o, r \in Oid, b \in Intact : p # q /\ AddMany(p, o, q, r, b)
  BY <1>3, AddManyStep, IntactType
<1>4. CASE \E p \in Path, s \in Stage, b \in Intact : Remove(p, s, b) \/ Find(p, s, b)
  BY <1>4, RemoveStep, FindStep, IntactType
<1>5. CASE Clear
  BY <1>5, ClearStep
<1>6. CASE \E ok \in BOOLEAN : WriteTo(ok)
  BY <1>6, WriteToStep
<1>7. CASE Open
  BY <1>7, OpenStep
<1>8. CASE \E p \in Path : ConflictRemove(p)
  BY <1>8, ConflictRemoveStep
<1>9. CASE \E p \in Path, sides \in Sides, o \in Oid : ConflictAdd(p, sides, o)
  BY <1>9, ConflictAddStep
<1>10. CASE \E files \in Trees, o \in Oid, ok \in BOOLEAN : ReadTree(files, o, ok)
  BY <1>10, ReadTreeStep
<1>11. CASE WriteTree
  BY <1>11, WriteTreeStep
<1> QED BY <1>1, <1>2, <1>3, <1>4, <1>5, <1>6, <1>7, <1>8, <1>9, <1>10, <1>11
        DEF Next, CoreNext, BypassNext

-----------------------------------------------------------------------------
(* The theorems *)

\* The invariant holds in every state of every history of calls.
THEOREM Invariance == Spec => []IInv
BY InitHolds, NextStep, PTL DEF Spec

\* Every field of the struct has its type after every call: no slot of the table is ever
\* beyond the array, through growth, rebuilds and moves.
THEOREM TypeCorrect == Spec => []TypeOK
<1>1. IInv => TypeOK
  <2> SUFFICES ASSUME IInv PROVE TypeOK
    OBVIOUS
  <2>1. ix \in Shape /\ Saved
    BY DEF IInv, Good
  <2>2. ix.ht \in [0 .. Cap(ix) - 1 -> {Empty, Tomb} \cup Cells]
    BY <2>1, ShapeCap DEF Slot
  <2>3. \A i \in DOMAIN disk : disk[i] \in Entry
    BY <2>1 DEF Saved
  <2>4. /\ ix.cells \in [Cells -> Entry \cup {NoEntry}] /\ ix.count \in 0 .. MaxEntries
        /\ ix.sorted \in BOOLEAN /\ ix.dirty \in BOOLEAN
    BY <2>1 DEF Shape
  <2> QED BY <2>2, <2>3, <2>4 DEF IInv, Returns, TypeOK
<1> QED BY <1>1, Invariance, PTL

\* Whatever the hash function, the size of the table and the calls made, a table in step
\* (fg_ht_find) takes each live key to its one entry and every other key nowhere.
THEOREM TableCorrect == Spec => []TableAgrees
<1>1. IInv => TableAgrees
  <2> SUFFICES ASSUME IInv, stale = 0
               PROVE  /\ Unique(ix)
                      /\ \A k \in Key, intact \in BOOLEAN :
                           IF \E i \in Live(ix) : ix.cells[i].key = k
                           THEN /\ HtFind(ix, k, intact) \in Live(ix)
                                /\ ix.cells[HtFind(ix, k, intact)].key = k
                           ELSE HtFind(ix, k, intact) = -1
    BY DEF TableAgrees
  <2>1. hash \in [Key -> Nat] /\ Good(ix) /\ InStep(ix)
    BY HashType DEF IInv
  <2>2. Unique(ix)
    BY <2>1 DEF InStep, Indexed, Live, Unique
  <2> QED BY <2>1, <2>2, FindInStep
<1> QED BY <1>1, Invariance, PTL

\* Whatever the hash function, the size of the table and the calls made, the slots of a table
\* in step point to live entries, one slot to each: no probe reads a freed path.
THEOREM SlotsCorrect == Spec => []SlotsAreLive
<1>1. IInv => SlotsAreLive
  <2> SUFFICES ASSUME IInv, stale = 0 PROVE SlotsAreLive
    BY DEF SlotsAreLive
  <2> PICK cap : cap = Cap(ix)
    OBVIOUS
  <2> PICK L : L = Live(ix)
    OBVIOUS
  <2>1. hash \in [Key -> Nat] /\ Indexed(ix.cells, ix.ht, cap, L)
    BY HashType DEF IInv, InStep
  <2>2. /\ cap \in Nat \ {0} /\ ix.ht \in [0 .. cap - 1 -> {Empty, Tomb} \cup L]
        /\ \A s, t \in 0 .. cap - 1 : ix.ht[s] \in L /\ ix.ht[t] = ix.ht[s] => s = t
    BY <2>1 DEF Indexed
  <2>3. ASSUME NEW i \in L PROVE \E s \in 0 .. cap - 1 : ix.ht[s] = i
    <3>1. PICK j \in 0 .. cap - 1 : ix.ht[Probe(ix.cells[i].key, j, cap)] = i
      BY <2>1 DEF Indexed
    <3>2. Probe(ix.cells[i].key, j, cap) \in 0 .. cap - 1
      <4>1. ix.cells[i].key \in Key /\ j \in Nat
        BY <2>1, <2>2 DEF Indexed
      <4> QED BY <2>1, <2>2, <4>1, ProbeInTable
    <3> QED BY <3>1, <3>2
  <2>4. DOMAIN ix.ht = 0 .. cap - 1
    BY <2>2
  <2>5. \A s \in DOMAIN ix.ht : ix.ht[s] \in {Empty, Tomb} \cup L
    BY <2>2
  <2>6. \A i \in L : \E s \in DOMAIN ix.ht :
            ix.ht[s] = i /\ \A t \in DOMAIN ix.ht : ix.ht[t] = i => t = s
    BY <2>2, <2>3, <2>4
  <2> QED BY <2>5, <2>6 DEF SlotsAreLive
<1> QED BY <1>1, Invariance, PTL

-----------------------------------------------------------------------------
(* The map that the cells hold *)

\* The first n cells of c hold the map m: an entry has the object id m has at its key, and m
\* has no other.
Holds(c, n, m) ==
    /\ m \in [Key -> Oid \cup {NoOid}]
    /\ \A i \in 0 .. n - 1 : c[i] \in Entry /\ m[c[i].key] = c[i].oid
    /\ \A k \in Key : m[k] # NoOid => \E i \in 0 .. n - 1 : c[i].key = k

\* The map in the first n cells of c.
MapOf(c, n) ==
    [k \in Key |-> LET held == {i \in 0 .. n - 1 : c[i].key = k}
                   IN  IF held = {} THEN NoOid ELSE c[CHOOSE i \in held : TRUE].oid]

\* Cells hold one map.
LEMMA HoldsOne == ASSUME NEW c, NEW n, NEW m, Holds(c, n, m) PROVE m = MapOf(c, n)
<1>1. ASSUME NEW k \in Key PROVE m[k] = MapOf(c, n)[k]
  <2> PICK h : h = {i \in 0 .. n - 1 : c[i].key = k}
    OBVIOUS
  <2>1. MapOf(c, n)[k] = IF h = {} THEN NoOid ELSE c[CHOOSE i \in h : TRUE].oid
    BY DEF MapOf
  <2>2. CASE h = {}
    BY <2>1, <2>2 DEF Holds
  <2>3. CASE h # {}
    <3>1. (CHOOSE i \in h : TRUE) \in h
      BY <2>3
    <3> PICK j : j = CHOOSE i \in h : TRUE
      OBVIOUS
    <3>2. j \in 0 .. n - 1 /\ c[j].key = k
      BY <3>1
    <3>3. m[k] = c[j].oid
      BY <3>2 DEF Holds
    <3> QED BY <2>1, <2>3, <3>3
  <2> QED BY <2>2, <2>3
<1>2. m = [k \in Key |-> m[k]] /\ MapOf(c, n) = [k \in Key |-> MapOf(c, n)[k]]
  BY DEF Holds, MapOf
<1> PICK w : w = MapOf(c, n)
  OBVIOUS
<1> QED BY <1>1, <1>2

\* Cells without a duplicate key hold a map.
LEMMA UniqueHolds ==
    ASSUME NEW x, Good(x), Unique(x)
    PROVE  Holds(x.cells, x.count, MapOf(x.cells, x.count))
<1> PICK c : c = x.cells
  OBVIOUS
<1> PICK n : n = x.count
  OBVIOUS
<1> PICK m : m = MapOf(c, n)
  OBVIOUS
<1>0. /\ \A i \in 0 .. n - 1 : c[i] \in Entry
      /\ \A i, j \in 0 .. n - 1 : c[i].key = c[j].key => i = j
  BY DEF Good, Live, Unique
<1>1. ASSUME NEW k \in Key
      PROVE  \/ m[k] = NoOid /\ \A i \in 0 .. n - 1 : c[i].key # k
             \/ \E i \in 0 .. n - 1 : c[i].key = k /\ m[k] = c[i].oid
  <2> PICK h : h = {i \in 0 .. n - 1 : c[i].key = k}
    OBVIOUS
  <2>1. m[k] = IF h = {} THEN NoOid ELSE c[CHOOSE i \in h : TRUE].oid
    BY DEF MapOf
  <2>2. CASE h = {}
    BY <2>1, <2>2
  <2>3. CASE h # {}
    <3>1. (CHOOSE i \in h : TRUE) \in h
      BY <2>3
    <3> PICK j : j = CHOOSE i \in h : TRUE
      OBVIOUS
    <3> QED BY <2>1, <2>3, <3>1
  <2> QED BY <2>2, <2>3
<1>2. \A i \in 0 .. n - 1 : c[i].key \in Key /\ c[i].oid \in Oid
  BY <1>0, KeyOfEntry
<1>3. m \in [Key -> Oid \cup {NoOid}]
  <2>1. \A k \in Key : m[k] \in Oid \cup {NoOid}
    BY <1>1, <1>2
  <2>2. m = [k \in Key |-> m[k]]
    BY DEF MapOf
  <2> QED BY <2>1, <2>2
<1>4. ASSUME NEW i \in 0 .. n - 1 PROVE m[c[i].key] = c[i].oid
  <2>1. c[i].key \in Key
    BY <1>2
  <2> QED BY <1>0, <1>1, <2>1
<1>5. \A k \in Key : m[k] # NoOid => \E i \in 0 .. n - 1 : c[i].key = k
  BY <1>1
<1>6. Holds(c, n, m)
  BY <1>0, <1>3, <1>4, <1>5 DEF Holds
<1> QED BY <1>6

\* The abstract map of the index and of the file are the maps in their cells.
LEMMA MapInMemory == Staged = MapOf(ix.cells, ix.count) /\ Staged' = MapOf(ix'.cells, ix'.count)
BY DEF Staged, StagedMap, InMemory, MapOf

\* The map in the first n entries of a file.
FileMap(d, n) ==
    [k \in Key |-> LET held == {i \in 0 .. n - 1 : d[i + 1].key = k}
                   IN  IF held = {} THEN NoOid ELSE d[(CHOOSE i \in held : TRUE) + 1].oid]

\* The abstract map of the file is the map in its entries.
LEMMA MapInFile == /\ OnFile = FileMap(disk, Cardinality(DOMAIN disk))
                   /\ OnFile' = FileMap(disk', Cardinality(DOMAIN disk'))
BY DEF OnFile, StagedMap, InFile, FileMap

\* A file of n entries has the map of the cells they are read into or were written from.
LEMMA FileHas ==
    ASSUME NEW c, NEW n \in Nat, NEW V, NEW d \in [1 .. n -> V],
           \A i \in 0 .. n - 1 : d[i + 1] = c[i]
    PROVE  FileMap(d, Cardinality(DOMAIN d)) = MapOf(c, n)
<1> DEFINE W(k) == {i \in 0 .. n - 1 : d[i + 1].key = k}
           H(k) == {i \in 0 .. n - 1 : c[i].key = k}
<1>1. Cardinality(DOMAIN d) = n
  <2>1. DOMAIN d = 1 .. n
    OBVIOUS
  <2> QED BY <2>1, FS_Interval
<1>2. ASSUME NEW k \in Key PROVE FileMap(d, n)[k] = MapOf(c, n)[k]
  <2>1. MapOf(c, n)[k] = IF H(k) = {} THEN NoOid ELSE c[CHOOSE i \in H(k) : TRUE].oid
    BY DEF MapOf
  <2>2. W(k) = H(k)
    OBVIOUS
  <2>3. FileMap(d, n)[k] = IF W(k) = {} THEN NoOid ELSE d[(CHOOSE i \in W(k) : TRUE) + 1].oid
    BY DEF FileMap
  <2> PICK h : h = H(k)
    OBVIOUS
  <2>4. /\ MapOf(c, n)[k] = IF h = {} THEN NoOid ELSE c[CHOOSE i \in h : TRUE].oid
        /\ FileMap(d, n)[k] = IF h = {} THEN NoOid ELSE d[(CHOOSE i \in h : TRUE) + 1].oid
    <3> HIDE DEF W, H
    <3> QED BY <2>1, <2>2, <2>3
  <2>5. CASE h = {}
    BY <2>4, <2>5
  <2>6. CASE h # {}
    <3>1. (CHOOSE i \in h : TRUE) \in h
      BY <2>6
    <3> PICK j : j = CHOOSE i \in h : TRUE
      OBVIOUS
    <3>2. j \in 0 .. n - 1
      BY <3>1
    <3>3. d[j + 1] = c[j]
      BY <3>2
    <3> QED BY <2>4, <2>6, <3>3
  <2> QED BY <2>5, <2>6
<1>3. /\ FileMap(d, n) = [k \in Key |-> FileMap(d, n)[k]]
      /\ MapOf(c, n) = [k \in Key |-> MapOf(c, n)[k]]
  BY DEF MapOf, FileMap
<1> PICK v : v = MapOf(c, n)
  OBVIOUS
<1> PICK w : w = FileMap(d, n)
  OBVIOUS
<1> QED BY <1>1, <1>2, <1>3

\* The map m without the keys in D.
Drop(m, D) == [k \in Key |-> IF k \in D THEN NoOid ELSE m[k]]

\* The first l cells of d are those of the first n of c, by way of g, whose key is not in D.
Picks(g, c, n, d, l, D) ==
    /\ \A i \in 0 .. l - 1 : g[i] \in 0 .. n - 1 /\ d[i] = c[g[i]] /\ c[g[i]].key \notin D
    /\ \A j \in 0 .. n - 1 : c[j].key \notin D => \E i \in 0 .. l - 1 : g[i] = j

\* Cells picked from others hold the map of the others, without what was left.
LEMMA HoldsPicked ==
    ASSUME NEW c, NEW n, NEW m, Holds(c, n, m), NEW d, NEW l, NEW g, NEW D,
           Picks(g, c, n, d, l, D)
    PROVE  Holds(d, l, Drop(m, D))
<1> PICK w : w = Drop(m, D)
  OBVIOUS
<1>1. /\ \A i \in 0 .. l - 1 : g[i] \in 0 .. n - 1 /\ d[i] = c[g[i]] /\ c[g[i]].key \notin D
      /\ \A j \in 0 .. n - 1 : c[j].key \notin D => \E i \in 0 .. l - 1 : g[i] = j
  BY DEF Picks
<1>2. w = [k \in Key |-> IF k \in D THEN NoOid ELSE m[k]]
  BY DEF Drop
<1>3. /\ m \in [Key -> Oid \cup {NoOid}]
      /\ \A i \in 0 .. n - 1 : c[i] \in Entry /\ m[c[i].key] = c[i].oid
      /\ \A k \in Key : m[k] # NoOid => \E i \in 0 .. n - 1 : c[i].key = k
  BY DEF Holds
<1>4. w \in [Key -> Oid \cup {NoOid}]
  BY <1>2, <1>3
<1>5. ASSUME NEW i \in 0 .. l - 1 PROVE d[i] \in Entry /\ w[d[i].key] = d[i].oid
  <2>1. c[g[i]] \in Entry /\ c[g[i]].key \notin D /\ m[c[g[i]].key] = c[g[i]].oid
    BY <1>1, <1>3
  <2>2. c[g[i]].key \in Key
    BY <2>1, KeyOfEntry
  <2>3. w[c[g[i]].key] = m[c[g[i]].key]
    BY <1>2, <2>1, <2>2
  <2> QED BY <1>1, <2>1, <2>3
<1>6. ASSUME NEW k \in Key, w[k] # NoOid PROVE \E i \in 0 .. l - 1 : d[i].key = k
  <2>1. k \notin D /\ m[k] # NoOid
    BY <1>2, <1>6
  <2>2. PICK j \in 0 .. n - 1 : c[j].key = k
    BY <1>3, <2>1
  <2>3. PICK i \in 0 .. l - 1 : g[i] = j
    BY <1>1, <2>1, <2>2
  <2> QED BY <1>1, <2>2, <2>3
<1> QED BY <1>4, <1>5, <1>6 DEF Holds

\* The same cells hold the same map.
LEMMA HoldsSame ==
    ASSUME NEW c, NEW n, NEW m, Holds(c, n, m), NEW d, \A i \in 0 .. n - 1 : d[i] = c[i]
    PROVE  Holds(d, n, m)
BY DEF Holds

\* An entry replaced in place.
LEMMA HoldsReplaced ==
    ASSUME NEW c, NEW n, NEW m, Holds(c, n, m), NEW f \in 0 .. n - 1, NEW o \in Oid, NEW d,
           \A i \in 0 .. n - 1 : c[i].key = c[f].key => i = f,
           d[f] = [key |-> c[f].key, oid |-> o],
           \A i \in 0 .. n - 1 : i # f => d[i] = c[i]
    PROVE  Holds(d, n, [m EXCEPT ![c[f].key] = o])
<1> PICK q : q = c[f].key
  OBVIOUS
<1> PICK w : w = [m EXCEPT ![q] = o]
  OBVIOUS
<1>0. /\ m \in [Key -> Oid \cup {NoOid}]
      /\ \A i \in 0 .. n - 1 : c[i] \in Entry /\ m[c[i].key] = c[i].oid
      /\ \A k \in Key : m[k] # NoOid => \E i \in 0 .. n - 1 : c[i].key = k
  BY DEF Holds
<1>1. q \in Key /\ \A i \in 0 .. n - 1 : c[i].key \in Key
  BY <1>0, KeyOfEntry
<1>2. w \in [Key -> Oid \cup {NoOid}] /\ w[q] = o /\ \A k \in Key : k # q => w[k] = m[k]
  BY <1>0, <1>1
<1>3. d[f] \in Entry /\ d[f].key = q /\ d[f].oid = o
  BY <1>1 DEF Entry
<1>4. ASSUME NEW i \in 0 .. n - 1 PROVE d[i] \in Entry /\ w[d[i].key] = d[i].oid
  <2>1. CASE i = f
    BY <1>2, <1>3, <2>1
  <2>2. CASE i # f
    BY <1>0, <1>1, <1>2, <2>2
  <2> QED BY <2>1, <2>2
<1>5. ASSUME NEW k \in Key, w[k] # NoOid PROVE \E i \in 0 .. n - 1 : d[i].key = k
  <2>1. CASE k = q
    BY <1>3, <2>1
  <2>2. CASE k # q
    BY <1>0, <1>2, <1>5, <2>2
  <2> QED BY <2>1, <2>2
<1> QED BY <1>2, <1>4, <1>5 DEF Holds

\* An entry appended, whose key the map does not have or has with this object id.
LEMMA HoldsAppended ==
    ASSUME NEW c, NEW n \in Nat, NEW m, Holds(c, n, m), NEW q \in Key, NEW o \in Oid, NEW d,
           m[q] \in {NoOid, o},
           d[n] = [key |-> q, oid |-> o],
           \A i \in 0 .. n - 1 : d[i] = c[i]
    PROVE  Holds(d, n + 1, [m EXCEPT ![q] = o])
<1> PICK w : w = [m EXCEPT ![q] = o]
  OBVIOUS
<1>0. /\ m \in [Key -> Oid \cup {NoOid}]
      /\ \A i \in 0 .. n - 1 : c[i] \in Entry /\ m[c[i].key] = c[i].oid
      /\ \A k \in Key : m[k] # NoOid => \E i \in 0 .. n - 1 : c[i].key = k
  BY DEF Holds
<1>1. \A i \in 0 .. n - 1 : c[i].key \in Key /\ c[i].oid \in Oid
  BY <1>0, KeyOfEntry
<1>2. w \in [Key -> Oid \cup {NoOid}] /\ w[q] = o /\ \A k \in Key : k # q => w[k] = m[k]
  BY <1>0
<1>3. d[n] \in Entry /\ d[n].key = q /\ d[n].oid = o
  BY DEF Entry
<1>4. ASSUME NEW i \in 0 .. n PROVE d[i] \in Entry /\ w[d[i].key] = d[i].oid
  <2>1. CASE i = n
    BY <1>2, <1>3, <2>1
  <2>2. CASE i # n
    <3>1. i \in 0 .. n - 1
      BY <2>2
    <3>2. c[i].key = q => c[i].oid = o
      BY <1>0, <1>1, <3>1, NoOidAssumption
    <3> QED BY <1>0, <1>1, <1>2, <3>1, <3>2
  <2> QED BY <2>1, <2>2
<1>5. ASSUME NEW k \in Key, w[k] # NoOid PROVE \E i \in 0 .. n : d[i].key = k
  <2>1. CASE k = q
    BY <1>3, <2>1
  <2>2. CASE k # q
    <3>1. PICK i \in 0 .. n - 1 : c[i].key = k
      BY <1>0, <1>2, <1>5, <2>2
    <3> QED BY <3>1
  <2> QED BY <2>1, <2>2
<1>6. (n + 1) - 1 = n
  OBVIOUS
<1> QED BY <1>2, <1>4, <1>5, <1>6 DEF Holds

\* The live entries of x hold the map m.
Has(x, m) == Holds(x.cells, x.count, m)

\* What the model forgets is not in the map.
LEMMA ForgetHas == ASSUME NEW x \in Shape, NEW m, Has(x, m) PROVE Has(Forget(x), m)
<1> PICK y : y = Forget(x)
  OBVIOUS
<1>1. y = [x EXCEPT !.cells = y.cells] /\ \A i \in Live(x) : y.cells[i] = x.cells[i]
  BY ForgetIs
<1>2. y.count = x.count
  BY <1>1 DEF Shape
<1> QED BY <1>1, <1>2, HoldsSame DEF Has, Live

\* An injection of a finite range of numbers into itself meets them all.
LEMMA Permutes ==
    ASSUME NEW n \in Nat, NEW p \in [0 .. n - 1 -> 0 .. n - 1],
           \A i, j \in 0 .. n - 1 : p[i] = p[j] => i = j, NEW j \in 0 .. n - 1
    PROVE  \E i \in 0 .. n - 1 : p[i] = j
<1> PICK N : N = 0 .. n - 1
  OBVIOUS
<1>1. IsFiniteSet(N)
  BY FS_Interval
<1>2. p \in Injection(N, N)
  BY DEF Injection, IsInjective
<1>3. p \in Surjection(N, N)
  BY <1>1, <1>2, FS_Injection
<1> QED BY <1>3 DEF Surjection

\* A sorted array holds the same map.
LEMMA SortHas == ASSUME NEW x, Good(x), NEW m, Has(x, m) PROVE Has(Sort(x), m)
<1> PICK y : y = Sort(x)
  OBVIOUS
<1> PICK n : n = x.count
  OBVIOUS
<1> PICK c : c = x.cells
  OBVIOUS
<1> PICK d : d = y.cells
  OBVIOUS
<1>1. n \in Nat
  BY BoundAssumption DEF Good, Shape
<1>2. PICK p : Sorts(p, c, n) /\ \A i \in 0 .. n - 1 : d[i] = c[p[i]]
  BY SortShape DEF Live
<1>3. y.count = n
  BY SortShape DEF Good, Shape
<1>4. /\ p \in [0 .. n - 1 -> 0 .. n - 1]
      /\ \A i, j \in 0 .. n - 1 : p[i] = p[j] => i = j
  BY <1>2 DEF Sorts
<1>5. \A j \in 0 .. n - 1 : \E i \in 0 .. n - 1 : p[i] = j
  BY <1>1, <1>4, Permutes
<1>6. Holds(c, n, m)
  BY DEF Has
<1>7. Picks(p, c, n, d, n, {})
  BY <1>2, <1>4, <1>5 DEF Picks
<1>8. Holds(d, n, Drop(m, {}))
  BY <1>6, <1>7, HoldsPicked
<1>9. m = Drop(m, {})
  BY <1>6 DEF Holds, Drop
<1> QED BY <1>3, <1>8, <1>9 DEF Has

\* Replacing or appending an entry sets its key in the map.
LEMMA PutHas ==
    ASSUME hash \in [Key -> Nat], NEW x, Good(x), InStep(x), x.count < MaxEntries,
           NEW k \in Key, NEW o \in Oid, NEW intact \in BOOLEAN, NEW m, Has(x, m)
    PROVE  Has(Put(x, k, o, intact), [m EXCEPT ![k] = o])
<1> DEFINE f == HtFind(x, k, intact)
           e == [key |-> k, oid |-> o]
           y == [x EXCEPT !.cells[x.count] = e]
           z == HtInsert(y, k, x.count)
           v == [x EXCEPT !.cells[f].oid = o]
           w == [z EXCEPT !.count = x.count + 1, !.sorted = FALSE]
<1>1. /\ x \in Shape /\ x.count \in Nat /\ x.count \in Cells /\ e \in Entry
      /\ x.cells \in [Cells -> Entry \cup {NoEntry}] /\ 0 .. x.count - 1 \subseteq Cells
      /\ \A i \in 0 .. x.count - 1 : x.cells[i] \in Entry
  BY BoundAssumption, KeyOfEntry DEF Good, Shape, Cells, Live
<1>2. /\ Holds(x.cells, x.count, m) /\ m \in [Key -> Oid \cup {NoOid}]
      /\ \A i, j \in 0 .. x.count - 1 : x.cells[i].key = x.cells[j].key => i = j
  BY DEF Has, Holds, InStep, Indexed, Live
<1>3. CASE \E i \in Live(x) : x.cells[i].key = k
  <2>1. f \in 0 .. x.count - 1 /\ x.cells[f].key = k
    BY <1>3, FindInStep DEF Live
  <2>2. Put(x, k, o, intact) = v
    <3>1. f >= 0
      BY <1>1, <2>1
    <3> QED BY <3>1 DEF Put
  <2> HIDE DEF f
  <2>3. v.cells = [x.cells EXCEPT ![f] = [x.cells[f] EXCEPT !.oid = o]] /\ v.count = x.count
    BY <1>1 DEF Shape
  <2> HIDE DEF v
  <2>4. x.cells[f] \in Entry /\ f \in Cells
    BY <1>1, <2>1
  <2>5. [x.cells[f] EXCEPT !.oid = o] = [key |-> k, oid |-> o]
    BY <2>1, <2>4 DEF Entry
  <2>6. /\ v.cells[f] = [key |-> x.cells[f].key, oid |-> o]
        /\ \A i \in 0 .. x.count - 1 : i # f => v.cells[i] = x.cells[i]
    BY <1>1, <2>1, <2>3, <2>4, <2>5
  <2>7. Holds(v.cells, x.count, [m EXCEPT ![k] = o])
    BY <1>2, <2>1, <2>6, HoldsReplaced
  <2> QED BY <2>2, <2>3, <2>7 DEF Has
<1>4. CASE ~(\E i \in Live(x) : x.cells[i].key = k)
  <2>1. Put(x, k, o, intact) = w
    <3>1. f = -1
      BY <1>4, FindInStep
    <3> QED BY <3>1 DEF Put
  <2> HIDE DEF e
  <2>2. Good(y) /\ y.count = x.count /\ y.cells = [x.cells EXCEPT ![x.count] = e]
    BY <1>1 DEF Good, Shape, Live
  <2> HIDE DEF y
  <2>3. Good(z) /\ z = [y EXCEPT !.ht = z.ht]
    BY <1>1, <2>2, InsertShape
  <2> HIDE DEF z
  <2>4. z.cells = y.cells
    BY <2>2, <2>3 DEF Good, Shape
  <2>5. w.cells = z.cells /\ w.count = x.count + 1
    BY <2>3 DEF Good, Shape
  <2> HIDE DEF w
  <2>6. w.cells[x.count] = e /\ \A i \in 0 .. x.count - 1 : w.cells[i] = x.cells[i]
    <3>1. \A i \in 0 .. x.count - 1 : i # x.count
      BY <1>1
    <3> QED BY <1>1, <2>2, <2>4, <2>5, <3>1
  <2>7. m[k] = NoOid
    BY <1>2, <1>4 DEF Holds, Live
  <2>8. Holds(w.cells, x.count + 1, [m EXCEPT ![k] = o])
    <3> PICK n : n = x.count
      OBVIOUS
    <3> PICK d : d = w.cells
      OBVIOUS
    <3>1. d[n] = [key |-> k, oid |-> o] /\ m[k] \in {NoOid, o}
      BY <2>6, <2>7 DEF e
    <3>2. n \in Nat /\ Holds(x.cells, n, m) /\ \A i \in 0 .. n - 1 : d[i] = x.cells[i]
      BY <1>1, <1>2, <2>6
    <3>3. Holds(d, n + 1, [m EXCEPT ![k] = o])
      BY <3>1, <3>2, HoldsAppended
    <3> QED BY <3>3
  <2> QED BY <2>1, <2>5, <2>8 DEF Has
<1> QED BY <1>3, <1>4

\* Removing an entry takes its key out of the map, whether or not the table had to grow.
LEMMA TakenOutHas ==
    ASSUME hash \in [Key -> Nat], NEW x, Good(x), InStep(x), NEW k \in Key,
           NEW intact \in BOOLEAN, NEW f, f = HtFind(x, k, intact), f >= 0,
           NEW y, y = HtRemove(x, k, intact), NEW m, Has(x, m)
    PROVE  /\ m[k] # NoOid
           /\ Has(Shrunk(Hole(y, f, intact), x.count), [m EXCEPT ![k] = NoOid])
<1> DEFINE l == x.count - 1
           e == y.cells[l]
           z == [y EXCEPT !.cells[f] = e]
           u == HtRemove(z, e.key, intact)
           v == HtInsert(u, e.key, f)
<1> PICK c : c = x.cells
  OBVIOUS
<1>1. /\ x.count \in Nat /\ 0 .. x.count - 1 \subseteq Cells
      /\ c \in [Cells -> Entry \cup {NoEntry}]
      /\ \A i \in 0 .. x.count - 1 : c[i] \in Entry
  BY BoundAssumption DEF Good, Shape, Cells, Live
<1>2. f \in 0 .. x.count - 1 /\ c[f].key = k
  <2>1. f # -1
    OBVIOUS
  <2> QED BY <2>1, FindInStep DEF Live
<1>3. /\ Holds(c, x.count, m) /\ m \in [Key -> Oid \cup {NoOid}]
      /\ \A i, j \in 0 .. x.count - 1 : c[i].key = c[j].key => i = j
  BY DEF Has, Holds, InStep, Indexed, Live
<1>4. m[k] # NoOid
  <2>1. m[k] = c[f].oid /\ c[f].oid \in Oid
    BY <1>1, <1>2, <1>3, KeyOfEntry DEF Holds
  <2> QED BY <2>1, NoOidAssumption
<1>5. Good(y) /\ y.count = x.count /\ y.cells = c
  <2>1. Good(y) /\ y = [x EXCEPT !.ht = y.ht]
    BY RemoveShape
  <2> QED BY <2>1 DEF Good, Shape
<1>6. /\ l \in 0 .. x.count - 1 /\ l \in Cells /\ f \in Cells /\ e = c[l] /\ e \in Entry
  BY <1>1, <1>2, <1>5
<1> HIDE DEF e
<1>7. Good(z) /\ z.count = x.count /\ z.cells = [c EXCEPT ![f] = e]
  BY <1>5, <1>6 DEF Good, Shape, Live
<1> HIDE DEF z
<1>8. Good(u) /\ u.count = x.count /\ u.cells = z.cells
  <2>1. Good(u) /\ u = [z EXCEPT !.ht = u.ht]
    BY <1>7, RemoveShape
  <2> HIDE DEF u
  <2> QED BY <1>7, <2>1 DEF Good, Shape
<1> HIDE DEF u
<1>9. Good(v) /\ v.count = x.count /\ v.cells = z.cells
  <2>1. Good(v) /\ v = [u EXCEPT !.ht = v.ht]
    BY <1>6, <1>8, InsertShape
  <2> HIDE DEF v
  <2> QED BY <1>8, <2>1 DEF Good, Shape
<1> HIDE DEF v
<1>10. Hole(y, f, intact) = IF f # l THEN v ELSE y
  BY <1>5 DEF Hole, Moved, v, u, z, e
<1> PICK h : h = Hole(y, f, intact)
  OBVIOUS
<1> PICK s : s = Shrunk(h, x.count)
  OBVIOUS
<1>11. s.count = l /\ s.cells = h.cells
  <2>1. Good(h)
    BY <1>5, <1>9, <1>10
  <2> QED BY <2>1 DEF Good, Shape, Shrunk
<1> DEFINE g == [i \in 0 .. l - 1 |-> IF i = f THEN l ELSE i]
<1>12. \A i \in 0 .. l - 1 : g[i] \in 0 .. x.count - 1 /\ g[i] # f
  BY <1>1, <1>2
<1>13. ASSUME NEW i \in 0 .. l - 1 PROVE s.cells[i] = c[g[i]]
  <2>0. i \in Cells
    BY <1>1
  <2>1. CASE f = l
    <3>1. g[i] = i /\ s.cells = c
      BY <1>1, <1>5, <1>10, <1>11, <2>1
    <3> QED BY <3>1
  <2>2. CASE f # l
    <3>1. s.cells = [c EXCEPT ![f] = e]
      BY <1>7, <1>9, <1>10, <1>11, <2>2
    <3> QED BY <1>1, <1>6, <2>0, <3>1
  <2> QED BY <2>1, <2>2
<1>14. \A j \in 0 .. x.count - 1 : j # f => \E i \in 0 .. l - 1 : g[i] = j
  <2> SUFFICES ASSUME NEW j \in 0 .. x.count - 1, j # f PROVE \E i \in 0 .. l - 1 : g[i] = j
    OBVIOUS
  <2>1. CASE j = l
    <3>1. f \in 0 .. l - 1 /\ g[f] = j
      BY <1>1, <1>2, <2>1
    <3> QED BY <3>1
  <2>2. CASE j # l
    <3>1. j \in 0 .. l - 1 /\ g[j] = j
      BY <1>1, <2>2
    <3> QED BY <3>1
  <2> QED BY <2>1, <2>2
<1> HIDE DEF g, l
<1>15. \A j \in 0 .. x.count - 1 : c[j].key \in {k} <=> j = f
  BY <1>2, <1>3
<1>16. Holds(s.cells, l, Drop(m, {k}))
  <2>1. Picks(g, c, x.count, s.cells, l, {k})
    BY <1>12, <1>13, <1>14, <1>15 DEF Picks
  <2> QED BY <1>3, <2>1, HoldsPicked
<1>17. Drop(m, {k}) = [m EXCEPT ![k] = NoOid]
  BY <1>3 DEF Drop
<1> QED BY <1>4, <1>11, <1>16, <1>17 DEF Has

\* The cells that are kept have different ranks, below their number.
LEMMA RankOrder ==
    ASSUME NEW n \in Nat, NEW K, K \subseteq 0 .. n - 1, NEW j \in K
    PROVE  /\ Rank(K, j) \in Nat /\ Rank(K, j) < Cardinality(K)
           /\ \A i \in K : Rank(K, i) = Rank(K, j) => i = j
<1> DEFINE B(q) == {l \in K : l < q}
<1>1. IsFiniteSet(K) /\ Cardinality(K) \in Nat /\ \A l \in K : l \in Nat
  <2>1. IsFiniteSet(K) /\ Cardinality(K) \in Nat
    BY LiveSize
  <2> QED BY <2>1
<1>2. ASSUME NEW q \in K PROVE IsFiniteSet(B(q)) /\ Cardinality(B(q)) \in Nat
  <2>1. B(q) \in SUBSET K
    OBVIOUS
  <2> QED BY <1>1, <2>1, FS_Subset, FS_CardinalityType
<1>3. ASSUME NEW q \in K, NEW C, IsFiniteSet(C), B(q) \subseteq C, q \in C
      PROVE  Cardinality(B(q)) < Cardinality(C)
  <2>1. q \notin B(q)
    BY <1>1
  <2> HIDE DEF B
  <2>2. B(q) \in SUBSET C /\ B(q) # C
    BY <1>3, <2>1
  <2>3. Cardinality(B(q)) <= Cardinality(C) /\ Cardinality(B(q)) # Cardinality(C)
    BY <1>3, <2>2, FS_Subset
  <2>4. Cardinality(C) \in Nat
    BY <1>3, FS_CardinalityType
  <2> QED BY <1>2, <2>3, <2>4
<1>4. Cardinality(B(j)) < Cardinality(K)
  <2>1. B(j) \subseteq K
    OBVIOUS
  <2> HIDE DEF B
  <2> QED BY <1>1, <1>3, <2>1
<1>5. ASSUME NEW q \in K, NEW r \in K, q < r PROVE Cardinality(B(q)) < Cardinality(B(r))
  <2>1. B(q) \subseteq B(r) /\ q \in B(r)
    <3>1. \A l \in K : l < q => l < r
      BY <1>1, <1>5
    <3> QED BY ONLY <1>5, <3>1, q \in K
  <2> HIDE DEF B
  <2> QED BY <1>2, <1>3, <2>1
<1>6. ASSUME NEW i \in K, Cardinality(B(i)) = Cardinality(B(j)) PROVE i = j
  <2> HIDE DEF B
  <2>1. Cardinality(B(i)) \in Nat /\ Cardinality(B(j)) \in Nat
    BY <1>2
  <2>2. ~(i < j) /\ ~(j < i)
    BY <1>5, <1>6, <2>1
  <2> QED BY <1>1, <2>2
<1> QED BY <1>2, <1>4, <1>6 DEF Rank

\* The keys of a path.
Of(p) == {k \in Key : k[1] = p}

\* Taking a path's entries out of the array takes its keys out of the map; the array stays as
\* long as it is exactly when the map had none of them.
LEMMA WithoutHas ==
    ASSUME NEW x, Good(x), NEW m, Has(x, m), NEW p
    PROVE  /\ Has(Without(x, p), Drop(m, Of(p)))
           /\ Without(x, p).count = x.count <=> Drop(m, Of(p)) = m
<1> DEFINE K == {i \in 0 .. x.count - 1 : x.cells[i].key[1] # p}
           at(i) == CHOOSE j \in K : Cardinality({l \in K : l < j}) = i
           n == Cardinality(K)
           c == [i \in Cells |-> IF i < n THEN x.cells[at(i)] ELSE x.cells[i]]
           g == [i \in 0 .. n - 1 |-> at(i)]
<1> PICK N : N = 0 .. x.count - 1
  OBVIOUS
<1>1. /\ x \in Shape /\ x.count \in Nat /\ N \subseteq Cells
      /\ \A i \in N : x.cells[i] \in Entry
      /\ Holds(x.cells, x.count, m) /\ m \in [Key -> Oid \cup {NoOid}]
  BY BoundAssumption DEF Good, Shape, Live, Cells, Has, Holds
<1>2. K \subseteq N /\ \A i \in N : i \in K <=> x.cells[i].key[1] # p
  OBVIOUS
<1>3. Without(x, p) = [x EXCEPT !.cells = c, !.count = n]
  BY DEF Without
<1> HIDE DEF K
<1>4. n \in Nat /\ n <= x.count
  BY <1>1, <1>2, LiveSize
<1>5. ASSUME NEW i \in Nat, i < n PROVE at(i) \in K /\ Rank(K, at(i)) = i
  <2>1. \E j \in K : Rank(K, j) = i
    BY <1>1, <1>2, <1>5, RankMet
  <2>2. at(i) = CHOOSE j \in K : Rank(K, j) = i
    BY DEF Rank
  <2> QED BY <2>1, <2>2
<1>6. Without(x, p).cells = c /\ Without(x, p).count = n
  BY <1>1, <1>3 DEF Shape
<1> HIDE DEF at, n
<1>7. ASSUME NEW i \in 0 .. n - 1 PROVE g[i] \in K /\ c[i] = x.cells[g[i]]
  <2>1. i \in Nat /\ i < n /\ i \in Cells
    BY <1>1, <1>4
  <2> QED BY <1>5, <2>1
<1>8. ASSUME NEW j \in K PROVE \E i \in 0 .. n - 1 : g[i] = j
  <2> PICK i : i = Rank(K, j)
    OBVIOUS
  <2>1. i \in Nat /\ i < n /\ \A q \in K : Rank(K, q) = i => q = j
    BY <1>1, <1>2, RankOrder DEF n
  <2>2. at(i) = j
    BY <1>5, <2>1
  <2>3. i \in 0 .. n - 1
    BY <1>4, <2>1
  <2> QED BY <2>2, <2>3
<1> HIDE DEF c, g
<1>9. ASSUME NEW i \in N PROVE x.cells[i].key \in Of(p) <=> i \notin K
  <2>1. x.cells[i].key \in Key
    BY <1>1, KeyOfEntry
  <2> QED BY <1>2, <2>1 DEF Of
<1>10. Picks(g, x.cells, x.count, c, n, Of(p))
  BY <1>2, <1>7, <1>8, <1>9 DEF Picks
<1>11. Holds(c, n, Drop(m, Of(p)))
  BY <1>1, <1>10, HoldsPicked
<1>12. Has(Without(x, p), Drop(m, Of(p)))
  BY <1>6, <1>11 DEF Has
<1>13. IsFiniteSet(N) /\ Cardinality(N) = x.count
  BY <1>1, FS_Interval
<1>14. ASSUME n = x.count PROVE Drop(m, Of(p)) = m
  <2>1. K = N
    <3>1. K \in SUBSET N
      BY <1>2
    <3> QED BY <1>13, <1>14, <3>1, FS_Subset DEF n
  <2>2. ASSUME NEW k \in Of(p) PROVE m[k] = NoOid
    <3>1. \A i \in N : x.cells[i].key # k
      BY <1>9, <2>1
    <3>2. k \in Key
      BY DEF Of
    <3> QED BY <1>1, <3>1, <3>2 DEF Holds
  <2> QED BY <1>1, <2>2 DEF Drop
<1>15. ASSUME n # x.count PROVE Drop(m, Of(p)) # m
  <2>1. PICK i \in N : i \notin K
    <3>1. K # N
      BY <1>13, <1>15 DEF n
    <3> QED BY <1>2, <3>1
  <2> PICK k : k = x.cells[i].key
    OBVIOUS
  <2>2. k \in Of(p) /\ k \in Key
    BY <1>9, <2>1 DEF Of
  <2>3. m[k] \in Oid
    BY <1>1, KeyOfEntry DEF Holds
  <2>4. Drop(m, Of(p))[k] = NoOid
    BY <2>2 DEF Drop
  <2> QED BY <2>3, <2>4, NoOidAssumption
<1> QED BY <1>6, <1>12, <1>14, <1>15

\* Nothing is in the map of no cells.
LEMMA NothingHeld == ASSUME NEW c PROVE Holds(c, 0, [k \in Key |-> NoOid])
BY DEF Holds

\* What appending the keys K[1], ..., K[i], as far as they are in W, makes of a map.
Joins(m, K, W, i, o) ==
    [k \in Key |-> IF \E j \in W : j <= i /\ K[j] = k THEN o ELSE m[k]]

\* A loop that appends adds its keys to the map.
LEMMA AppendsHas ==
    ASSUME NEW n \in Nat, NEW a, Good(a), NEW W, W \subseteq 1 .. n,
           NEW K, \A i \in W : K[i] \in Key,
           NEW o \in Oid, a.count + Cardinality(W) <= MaxEntries, NEW d,
           Appends(d, n, a, K, W, o),
           NEW m, Has(a, m), \A i \in W : m[K[i]] \in {NoOid, o}
    PROVE  Has(d[n], Joins(m, K, W, n, o))
<1> DEFINE P(i) == /\ Good(d[i]) /\ d[i].count = a.count + UpTo(W, i)
                   /\ Has(d[i], Joins(m, K, W, i, o))
           T == {i \in 0 .. n : P(i)}
<1>0. /\ a.count \in Nat /\ Cardinality(W) \in Nat /\ MaxEntries \in Nat /\ Counts(W, n)
      /\ m \in [Key -> Oid \cup {NoOid}]
  <2>1. Counts(W, n)
    BY UpToCounts
  <2>2. a.count \in Nat
    BY BoundAssumption DEF Good, Shape
  <2> QED BY <2>1, <2>2, BoundAssumption DEF Counts, Has, Holds
<1> HIDE DEF P
<1>1. 0 \in T
  <2>1. d[0] = a /\ UpTo(W, 0) = 0
    BY <1>0 DEF Appends, Counts
  <2>2. Joins(m, K, W, 0, o) = m
    <3>1. \A j \in W : ~(j <= 0)
      OBVIOUS
    <3> QED BY <1>0, <3>1 DEF Joins
  <2> QED BY <1>0, <2>1, <2>2 DEF P
<1>2. \A i \in 1 .. n : i - 1 \in T => i \in T
  <2> SUFFICES ASSUME NEW i \in 1 .. n, i - 1 \in T PROVE P(i)
    OBVIOUS
  <2>1. /\ Good(d[i - 1]) /\ d[i - 1].count = a.count + UpTo(W, i - 1)
        /\ Has(d[i - 1], Joins(m, K, W, i - 1, o))
    BY DEF P
  <2>2. /\ UpTo(W, i - 1) \in Nat /\ UpTo(W, i) \in Nat /\ UpTo(W, i) <= Cardinality(W)
        /\ UpTo(W, i) = IF i \in W THEN UpTo(W, i - 1) + 1 ELSE UpTo(W, i - 1)
    <3>1. i \in 0 .. n /\ i - 1 \in 0 .. n
      OBVIOUS
    <3> QED BY <1>0, <3>1 DEF Counts
  <2> PICK v : v = Joins(m, K, W, i - 1, o)
    OBVIOUS
  <2> PICK w : w = Joins(m, K, W, i, o)
    OBVIOUS
  <2>3. CASE i \in W
    <3>1. d[i] = AppendCell(d[i - 1], K[i], o) /\ K[i] \in Key
      BY <2>3 DEF Appends
    <3>2. d[i - 1].count < MaxEntries
      BY <1>0, <2>1, <2>2, <2>3
    <3>3. Good(d[i]) /\ d[i].count = d[i - 1].count + 1
      BY <2>1, <3>1, <3>2, AppendShape
    <3>4. d[i].count = a.count + UpTo(W, i)
      BY <1>0, <2>1, <2>2, <2>3, <3>3
    <3>5. \A k \in Key : w[k] = IF k = K[i] THEN o ELSE v[k]
      <4>1. \A j \in W : j <= i <=> j <= i - 1 \/ j = i
        OBVIOUS
      <4> QED BY <2>3, <4>1 DEF Joins
    <3>6. v[K[i]] \in {NoOid, o} /\ v = [k \in Key |-> v[k]] /\ w = [k \in Key |-> w[k]]
      BY <2>3, <3>1 DEF Joins
    <3>7. w = [v EXCEPT ![K[i]] = o]
      BY <3>1, <3>5, <3>6
    <3> PICK y : y = d[i - 1]
      OBVIOUS
    <3>8. y \in Shape /\ y.count \in Nat /\ y.count \in Cells
      BY <2>1, <3>2, BoundAssumption DEF Good, Shape, Cells
    <3>9. /\ d[i].cells[y.count] = [key |-> K[i], oid |-> o]
          /\ \A l \in 0 .. y.count - 1 : d[i].cells[l] = y.cells[l]
      <4> PICK e : e = [key |-> K[i], oid |-> o]
        OBVIOUS
      <4>1. d[i].cells = [y.cells EXCEPT ![y.count] = e]
        BY <3>1, <3>8 DEF AppendCell, Shape
      <4>2. DOMAIN y.cells = Cells
        BY <3>8 DEF Shape
      <4>3. \A l \in 0 .. y.count - 1 : l # y.count
        BY <3>8
      <4> QED BY <3>8, <4>1, <4>2, <4>3
    <3>10. Has(d[i], w)
      <4>1. Holds(y.cells, y.count, v)
        BY <2>1 DEF Has
      <4> PICK q : q = y.count
        OBVIOUS
      <4> PICK z : z = d[i].cells
        OBVIOUS
      <4>2. Holds(z, q + 1, [v EXCEPT ![K[i]] = o])
        <5> PICK k : k = K[i]
          OBVIOUS
        <5> PICK c : c = y.cells
          OBVIOUS
        <5>1. q \in Nat /\ Holds(c, q, v) /\ k \in Key /\ v[k] \in {NoOid, o}
          BY <3>1, <3>6, <3>8, <4>1
        <5>2. z[q] = [key |-> k, oid |-> o] /\ \A l \in 0 .. q - 1 : z[l] = c[l]
          BY <3>9
        <5>3. Holds(z, q + 1, [v EXCEPT ![k] = o])
          BY ONLY <5>1, <5>2, o \in Oid, HoldsAppended
        <5> QED BY <5>3
      <4> QED BY <3>3, <3>7, <4>2 DEF Has
    <3> QED BY <3>3, <3>4, <3>10 DEF P
  <2>4. CASE i \notin W
    <3>1. w = v
      <4>1. \A j \in W : j <= i <=> j <= i - 1
        BY <2>4
      <4> QED BY <4>1 DEF Joins
    <3>2. d[i] = d[i - 1]
      BY <2>4 DEF Appends
    <3> QED BY <2>1, <2>2, <2>4, <3>1, <3>2 DEF P
  <2> QED BY <2>3, <2>4
<1>3. n \in T
  <2>1. \A i \in 0 .. n : i \in T
    <3> HIDE DEF T
    <3> QED BY <1>1, <1>2, Induction
  <2> QED BY <2>1
<1> QED BY <1>3 DEF P

\* The tree's files are the map of the index they were read into.
LEMMA LoadedHas ==
    ASSUME hash \in [Key -> Nat], NEW x, Good(x), NEW files \in Trees, NEW o \in Oid,
           Cardinality(DOMAIN files) <= MaxEntries
    PROVE  Has(Loaded(x, files, o),
               [k \in Key |-> IF k[2] = 0 /\ \E i \in DOMAIN files : files[i] = k[1]
                              THEN o ELSE NoOid])
<1> DEFINE m == [k \in Key |-> NoOid]
           t == [k \in Key |-> IF k[2] = 0 /\ \E i \in DOMAIN files : files[i] = k[1]
                               THEN o ELSE NoOid]
<1> PICK n : n = Cardinality(DOMAIN files)
  OBVIOUS
<1> PICK K : K = FileKeys(files)
  OBVIOUS
<1> PICK a : a = Cleared(x)
  OBVIOUS
<1>1. /\ n \in Nat /\ \A i \in 1 .. n : K[i] \in Key
      /\ a.count + Cardinality(1 .. n) <= MaxEntries /\ files \in [1 .. n -> Path]
  BY LoadedLoop
<1>2. PICK d : Appends(d, n, a, K, 1 .. n, o) /\ Loaded(x, files, o) = d[n]
  BY LoadedLoop
<1>3. Good(a) /\ a.count = 0
  BY ClearedInStep
<1>4. Has(a, m)
  BY <1>3, NothingHeld DEF Has
<1>5. \A i \in 1 .. n : m[K[i]] \in {NoOid, o}
  BY <1>1
<1> HIDE DEF m
<1> PICK W : W = 1 .. n
  OBVIOUS
<1>6. Has(d[n], Joins(m, K, W, n, o))
  BY <1>1, <1>2, <1>3, <1>4, <1>5, AppendsHas
<1>7. \A i \in W : i <= n /\ K[i] = <<files[i], 0>> /\ i \in DOMAIN files
  BY <1>1 DEF FileKeys
<1>8. ASSUME NEW k \in Key
      PROVE  (\E j \in W : j <= n /\ K[j] = k)
                <=> k[2] = 0 /\ \E i \in DOMAIN files : files[i] = k[1]
  <2>1. k = <<k[1], k[2]>>
    BY DEF Key
  <2>2. DOMAIN files = W
    BY <1>1
  <2>3. ASSUME NEW j \in W, K[j] = k PROVE k[2] = 0 /\ files[j] = k[1]
    <3>1. <<files[j], 0>> = k
      BY <1>7, <2>3
    <3> QED BY <3>1
  <2>4. ASSUME NEW j \in W, k[2] = 0, files[j] = k[1] PROVE j <= n /\ K[j] = k
    BY <1>7, <2>1, <2>4
  <2> QED BY <2>2, <2>3, <2>4
<1>9. Joins(m, K, W, n, o) = t
  BY <1>8 DEF Joins, m
<1> QED BY <1>2, <1>6, <1>9

\* A path in conflict has the sides that were added and no other entry.
LEMMA JoinedHas ==
    ASSUME NEW x, Good(x), NEW p \in Path, NEW sides \in Sides, NEW o \in Oid,
           Without(x, p).count + Cardinality(sides) <= MaxEntries, NEW m, Has(x, m)
    PROVE  Has(Joined(x, p, sides, o),
               [k \in Key |-> IF k[1] # p THEN m[k] ELSE IF k[2] \in sides THEN o ELSE NoOid])
<1> DEFINE t == [k \in Key |-> IF k[1] # p THEN m[k] ELSE IF k[2] \in sides THEN o ELSE NoOid]
<1> PICK a : a = Without(x, p)
  OBVIOUS
<1> PICK K : K = SideKeys(p)
  OBVIOUS
<1> PICK v : v = Drop(m, Of(p))
  OBVIOUS
<1>1. /\ Good(a) /\ sides \subseteq 1 .. 3
      /\ \A i \in sides : K[i] = <<p, i>> /\ K[i] \in Key
  BY JoinedLoop
<1>2. PICK d : Appends(d, 3, a, K, sides, o) /\ Joined(x, p, sides, o) = d[3]
  BY JoinedLoop
<1>3. Has(a, v)
  BY WithoutHas
<1>4. \A k \in Key : v[k] = IF k[1] = p THEN NoOid ELSE m[k]
  BY DEF Drop, Of
<1>5. \A i \in sides : v[K[i]] \in {NoOid, o}
  BY <1>1, <1>4
<1>6. Has(d[3], Joins(v, K, sides, 3, o))
  BY <1>1, <1>2, <1>3, <1>5, AppendsHas
<1>7. ASSUME NEW k \in Key
      PROVE  (\E j \in sides : j <= 3 /\ K[j] = k) <=> k[1] = p /\ k[2] \in sides
  <2>1. k = <<k[1], k[2]>>
    BY DEF Key
  <2>2. \A j \in sides : j <= 3
    BY <1>1
  <2> QED BY <1>1, <2>1, <2>2
<1>8. ASSUME NEW k \in Key PROVE Joins(v, K, sides, 3, o)[k] = t[k]
  BY <1>4, <1>7 DEF Joins
<1>9. /\ Joins(v, K, sides, 3, o) = [k \in Key |-> Joins(v, K, sides, 3, o)[k]]
      /\ t = [k \in Key |-> t[k]]
  BY DEF Joins
<1> HIDE DEF t
<1>10. Joins(v, K, sides, 3, o) = t
  BY <1>8, <1>9
<1> QED BY <1>2, <1>6, <1>10 DEF t

-----------------------------------------------------------------------------
(* Every call on an index in step is a step of the map *)

\* An index in step holds the abstract map.
LEMMA StagedIs == ASSUME IInv, stale = 0 PROVE Has(ix, Staged)
<1>1. Good(ix) /\ InStep(ix)
  BY DEF IInv
<1>2. Unique(ix)
  BY <1>1 DEF InStep, Indexed, Live, Unique
<1> QED BY <1>1, <1>2, UniqueHolds, MapInMemory DEF Has

\* The map of the index a call leaves.
LEMMA StagedBecomes == ASSUME NEW m, Has(ix', m) PROVE Staged' = m
BY HoldsOne, MapInMemory DEF Has

\* A file that is not written keeps its map.
LEMMA FileStays == ASSUME disk' = disk PROVE OnFile' = OnFile
BY MapInFile

\* Setting sorted or dirty leaves the map.
LEMMA FlagsHas ==
    ASSUME NEW x, Good(x), NEW d \in BOOLEAN, NEW s \in BOOLEAN, NEW y,
           y \in {[x EXCEPT !.dirty = d], [x EXCEPT !.sorted = s],
                  [x EXCEPT !.dirty = d, !.sorted = s]}, NEW m, Has(x, m)
    PROVE  Good(y) /\ Has(y, m) /\ Has(Forget(y), m)
<1>1. y \in Shape /\ y.cells = x.cells /\ y.count = x.count
  <2>1. x \in Shape
    BY DEF Good
  <2>2. CASE y = [x EXCEPT !.dirty = d]
    BY <2>1, <2>2 DEF Shape
  <2>3. CASE y = [x EXCEPT !.sorted = s]
    BY <2>1, <2>3 DEF Shape
  <2>4. CASE y = [x EXCEPT !.dirty = d, !.sorted = s]
    BY <2>1, <2>4 DEF Shape
  <2> QED BY <2>2, <2>3, <2>4
<1>2. Good(y) /\ Has(y, m)
  BY <1>1 DEF Good, Live, Has
<1> QED BY <1>1, <1>2, ForgetHas

\* fastgit_index_add sets the path in the map.
LEMMA AddMaps ==
    ASSUME IInv, stale = 0, NEW p \in Path, NEW o \in Oid, NEW b \in BOOLEAN, Add(p, o, b)
    PROVE  Map!MapAdd(p, o)
<1> PICK k : k = <<p, 0>>
  OBVIOUS
<1> PICK m : m = Staged
  OBVIOUS
<1> PICK x : x = Put(ix, k, o, b)
  OBVIOUS
<1> PICK y : y = [x EXCEPT !.dirty = TRUE]
  OBVIOUS
<1>1. hash \in [Key -> Nat] /\ k \in Key /\ Good(ix) /\ InStep(ix) /\ Has(ix, m)
  BY HashType, KeyPair, StageAssumption, StagedIs DEF IInv
<1>2. ix.count < MaxEntries /\ ix' = Forget(y) /\ ret' = "OK" /\ disk' = disk
  BY DEF Add
<1>3. Good(x) /\ Has(x, [m EXCEPT ![k] = o])
  BY <1>1, <1>2, PutShape, PutHas
<1>4. Has(ix', [m EXCEPT ![k] = o])
  BY <1>2, <1>3, FlagsHas
<1>5. Staged' = [Staged EXCEPT ![<<p, 0>>] = o]
  BY <1>4, StagedBecomes
<1> QED BY <1>2, <1>5, FileStays DEF Map!MapAdd

\* fastgit_index_add_many sets both paths.
LEMMA AddManyMaps ==
    ASSUME IInv, stale = 0, NEW p \in Path, NEW o \in Oid, NEW q \in Path, NEW r \in Oid,
           NEW b \in BOOLEAN, AddMany(p, o, q, r, b)
    PROVE  Map!MapAddMany(p, o, q, r)
<1> PICK k : k = <<p, 0>>
  OBVIOUS
<1> PICK l : l = <<q, 0>>
  OBVIOUS
<1> PICK m : m = Staged
  OBVIOUS
<1> PICK x : x = Put(ix, k, o, b)
  OBVIOUS
<1> PICK z : z = Put(x, l, r, b)
  OBVIOUS
<1> PICK y : y = [z EXCEPT !.dirty = TRUE, !.sorted = FALSE]
  OBVIOUS
<1> PICK v : v = [m EXCEPT ![k] = o]
  OBVIOUS
<1>1. /\ hash \in [Key -> Nat] /\ k \in Key /\ l \in Key /\ Good(ix) /\ InStep(ix) /\ Has(ix, m)
      /\ m \in [Key -> Oid \cup {NoOid}]
  BY HashType, KeyPair, StageAssumption, StagedIs DEF IInv, Has, Holds
<1>2. ix.count + 2 <= MaxEntries /\ ix' = Forget(y) /\ ret' = "OK" /\ disk' = disk
  BY DEF AddMany
<1>3. ix.count \in Nat /\ ix.count < MaxEntries
  BY <1>1, <1>2, BoundAssumption DEF Good, Shape
<1>4. Good(x) /\ x.count <= ix.count + 1 /\ InStep(x) /\ Has(x, v)
  BY <1>1, <1>3, PutShape, PutInStep, PutHas
<1>5. x.count < MaxEntries
  <2>1. x.count \in Nat
    BY <1>4, BoundAssumption DEF Good, Shape
  <2> QED BY <1>2, <1>3, <1>4, <2>1, BoundAssumption
<1>6. Good(z) /\ Has(z, [v EXCEPT ![l] = r])
  BY <1>1, <1>4, <1>5, PutShape, PutHas
<1>7. Has(ix', [v EXCEPT ![l] = r])
  BY <1>2, <1>6, FlagsHas
<1>8. Staged' = [[Staged EXCEPT ![<<p, 0>>] = o] EXCEPT ![<<q, 0>>] = r]
  BY <1>7, StagedBecomes
<1> QED BY <1>2, <1>8, FileStays DEF Map!MapAddMany

\* fastgit_index_remove takes the key out of the map and says whether it was there.
LEMMA RemoveMaps ==
    ASSUME IInv, stale = 0, NEW p \in Path, NEW s \in Stage, NEW b \in BOOLEAN, Remove(p, s, b)
    PROVE  <<p, s>> \in Key /\ Map!MapRemove(<<p, s>>)
<1> PICK k : k = <<p, s>>
  OBVIOUS
<1> PICK f : f = HtFind(ix, k, b)
  OBVIOUS
<1> PICK x : x = HtRemove(ix, k, b)
  OBVIOUS
<1> PICK y : y = Shrunk(Hole(x, f, b), ix.count)
  OBVIOUS
<1> PICK m : m = Staged
  OBVIOUS
<1>1. /\ hash \in [Key -> Nat] /\ k \in Key /\ Good(ix) /\ InStep(ix) /\ Has(ix, m)
      /\ m \in [Key -> Oid \cup {NoOid}]
  BY HashType, KeyPair, StagedIs DEF IInv, Has, Holds
<1>2. CASE f < 0
  <2>1. ~(f >= 0) /\ f \notin Live(ix)
    <3>1. f = -1 \/ f \in Nat
      BY <1>1, FindRange DEF Good
    <3>2. f = -1
      BY <1>2, <3>1
    <3> QED BY <1>1, <3>2, BoundAssumption DEF Live, Good, Shape
  <2>2. ix' = ix /\ disk' = disk /\ ret' = "ENOENT"
    BY <2>1 DEF Remove
  <2>3. m[k] = NoOid
    <3>1. ~(\E i \in Live(ix) : ix.cells[i].key = k)
      BY <1>1, <2>1, FindInStep
    <3> QED BY <1>1, <3>1 DEF Has, Holds, Live
  <2>4. Staged' = Staged
    BY <1>1, <2>2, StagedBecomes
  <2>5. Staged' = [Staged EXCEPT ![k] = NoOid]
    BY <1>1, <2>3, <2>4
  <2> QED BY <1>1, <2>2, <2>3, <2>5, FileStays DEF Map!MapRemove
<1>3. CASE ~(f < 0)
  <2>1. f >= 0 /\ ix.count > 0 /\ ret' = "OK" /\ disk' = disk /\ ix' = Forget(y)
    BY <1>3 DEF Remove, Shrunk, Hole
  <2>2. Good(y) /\ y \in Shape
    BY <1>1, <2>1, TakenOut DEF Good
  <2>3. m[k] # NoOid /\ Has(y, [m EXCEPT ![k] = NoOid])
    BY <1>1, <2>1, TakenOutHas
  <2>4. Staged' = [Staged EXCEPT ![k] = NoOid]
    BY <2>1, <2>2, <2>3, ForgetHas, StagedBecomes
  <2> QED BY <1>1, <2>1, <2>3, <2>4, FileStays DEF Map!MapRemove
<1> QED BY <1>2, <1>3

\* A sorted and rebuilt index holds the same map and is in step if no key is there twice.
LEMMA SortedHas ==
    ASSUME hash \in [Key -> Nat], NEW x, Good(x), NEW m, Has(x, m), NEW y,
           y = [Rebuilt(Sort(x)) EXCEPT !.sorted = TRUE]
    PROVE  Good(y) /\ Has(y, m) /\ (Unique(x) => InStep(y))
<1> PICK z : z = Sort(x)
  OBVIOUS
<1> PICK r : r = Rebuilt(z)
  OBVIOUS
<1>1. Good(z) /\ Has(z, m) /\ z.count = x.count
  BY SortShape, SortHas DEF Good, Shape
<1>2. Good(r) /\ r.cells = z.cells /\ r.count = z.count
  BY <1>1, RebuiltShape DEF Good, Shape
<1>3. y.cells = z.cells /\ y.count = z.count
  BY <1>2 DEF Good, Shape
<1>4. Has(y, m)
  BY <1>1, <1>3 DEF Has
<1>5. Restored(y)
  BY SortedRestored
<1>6. ASSUME Unique(x) PROVE Unique(y)
  <2>1. PICK p : /\ Sorts(p, x.cells, x.count)
                 /\ \A i \in Live(x) : z.cells[i] = x.cells[p[i]]
    BY SortShape
  <2>2. /\ p \in [0 .. x.count - 1 -> 0 .. x.count - 1]
        /\ \A i, j \in 0 .. x.count - 1 : p[i] = p[j] => i = j
    BY <2>1 DEF Sorts
  <2> PICK n : n = x.count
    OBVIOUS
  <2> PICK c : c = x.cells
    OBVIOUS
  <2> PICK e : e = y.cells
    OBVIOUS
  <2>3. \A i, j \in 0 .. n - 1 : c[i].key = c[j].key => i = j
    BY <1>6 DEF Unique
  <2>4. y.count = n /\ \A i \in 0 .. n - 1 : e[i] = c[p[i]]
    BY <1>1, <1>3, <2>1 DEF Live
  <2>5. \A i, j \in 0 .. n - 1 : e[i].key = e[j].key => i = j
    BY <2>2, <2>3, <2>4
  <2> QED BY <2>4, <2>5 DEF Unique
<1> QED BY <1>4, <1>5, <1>6 DEF Restored

\* What a search in an index in step answers is what the map has.
LEMMA FoundHas ==
    ASSUME hash \in [Key -> Nat], NEW x, Good(x), InStep(x), NEW m, Has(x, m),
           NEW k \in Key, NEW b \in BOOLEAN
    PROVE  (IF HtFind(x, k, b) >= 0 THEN x.cells[HtFind(x, k, b)].oid ELSE "ENOENT")
              = IF m[k] = NoOid THEN "ENOENT" ELSE m[k]
<1> PICK g : g = HtFind(x, k, b)
  OBVIOUS
<1>1. /\ x.count \in Nat
      /\ \A i \in Live(x) : x.cells[i] \in Entry /\ m[x.cells[i].key] = x.cells[i].oid
      /\ m[k] # NoOid => \E i \in Live(x) : x.cells[i].key = k
  BY BoundAssumption DEF Good, Shape, Has, Holds, Live
<1>2. CASE \E i \in Live(x) : x.cells[i].key = k
  <2>1. g \in Live(x) /\ x.cells[g].key = k
    BY <1>2, FindInStep
  <2>2. g >= 0
    BY <1>1, <2>1 DEF Live
  <2>3. m[k] = x.cells[g].oid /\ m[k] # NoOid
    BY <1>1, <2>1, KeyOfEntry, NoOidAssumption
  <2> QED BY <2>2, <2>3
<1>3. CASE ~(\E i \in Live(x) : x.cells[i].key = k)
  <2>1. g = -1
    BY <1>3, FindInStep
  <2>2. ~(g >= 0)
    BY <2>1
  <2> QED BY <1>1, <1>3, <2>2
<1> QED BY <1>2, <1>3

\* fastgit_index_find answers with what the map has and leaves it, sorted or not.
LEMMA FindMaps ==
    ASSUME IInv, stale = 0, NEW p \in Path, NEW s \in Stage, NEW b \in BOOLEAN, Find(p, s, b)
    PROVE  <<p, s>> \in Key /\ Map!MapFind(<<p, s>>)
<1> PICK k : k = <<p, s>>
  OBVIOUS
<1> PICK m : m = Staged
  OBVIOUS
<1> DEFINE retry == HtFind(ix, k, b) < 0 /\ MustSort(ix)
           Found(x) == IF HtFind(x, k, b) >= 0 THEN x.cells[HtFind(x, k, b)].oid ELSE "ENOENT"
<1>1. /\ hash \in [Key -> Nat] /\ k \in Key /\ Good(ix) /\ InStep(ix) /\ Has(ix, m) /\ Unique(ix)
  BY HashType, KeyPair, StagedIs DEF IInv, InStep, Indexed, Live, Unique
<1>2. disk' = disk
  BY DEF Find
<1>3. \E x : Good(x) /\ InStep(x) /\ Has(x, m) /\ ix' = Forget(x) /\ ret' = Found(x)
  <2>1. CASE retry
    <3> PICK x : x = [Rebuilt(Sort(ix)) EXCEPT !.sorted = TRUE]
      OBVIOUS
    <3>1. ix' = Forget(x) /\ ret' = Found(x)
      BY <2>1 DEF Find
    <3>2. Good(x) /\ InStep(x) /\ Has(x, m)
      BY <1>1, SortedHas
    <3> HIDE DEF Found
    <3> QED BY <3>1, <3>2
  <2>2. CASE ~retry
    <3>1. ix' = Forget(ix) /\ ret' = Found(ix)
      BY <2>2 DEF Find
    <3> QED BY <1>1, <3>1
  <2> QED BY <2>1, <2>2
<1>4. PICK x : Good(x) /\ InStep(x) /\ Has(x, m) /\ ix' = Forget(x) /\ ret' = Found(x)
  BY <1>3
<1>5. Staged' = Staged
  BY <1>4, ForgetHas, StagedBecomes DEF Good
<1>6. ret' = IF Staged[k] = NoOid THEN "ENOENT" ELSE Staged[k]
  BY <1>1, <1>4, FoundHas
<1> QED BY <1>1, <1>2, <1>5, <1>6, FileStays DEF Map!MapFind

\* fastgit_index_clear empties the map.
LEMMA ClearMaps == ASSUME IInv, Clear PROVE Map!MapClear
<1> PICK x : x = Cleared(ix)
  OBVIOUS
<1>1. ix' = Forget(x) /\ ret' = "OK" /\ disk' = disk
  BY DEF Clear
<1>2. Good(x) /\ x.count = 0
  BY ClearedInStep, HashType DEF IInv
<1>3. Has(x, [k \in Key |-> NoOid])
  BY <1>2, NothingHeld DEF Has
<1>4. Staged' = [k \in Key |-> NoOid]
  BY <1>1, <1>2, <1>3, ForgetHas, StagedBecomes DEF Good
<1>5. Map!Nothing = [k \in Key |-> NoOid]
  BY DEF Map!Nothing, Map!MapKey, Key
<1> QED BY <1>1, <1>4, <1>5, FileStays DEF Map!MapClear

\* fastgit_index_write_to saves the map, or fails and leaves both.
LEMMA WriteToMaps == ASSUME IInv, stale = 0, NEW ok \in BOOLEAN, WriteTo(ok) PROVE Map!MapSave
<1> DEFINE d == IF ok THEN FALSE ELSE ix.dirty
<1> PICK m : m = Staged
  OBVIOUS
<1> PICK x : x = ForWrite(ix)
  OBVIOUS
<1> PICK y : y = [x EXCEPT !.dirty = d]
  OBVIOUS
<1>1. hash \in [Key -> Nat] /\ Good(ix) /\ Has(ix, m) /\ d \in BOOLEAN
  BY HashType, StagedIs DEF IInv, Good, Shape
<1>2. /\ ix' = Forget(y) /\ ret' = (IF ok THEN "OK" ELSE "EIO")
      /\ disk' = IF ok THEN [i \in 1 .. x.count |-> x.cells[i - 1]] ELSE disk
  BY DEF WriteTo
<1> HIDE DEF d
<1>3. Good(x) /\ Has(x, m)
  <2>1. CASE MustSort(ix)
    <3>1. x = [Rebuilt(Sort(ix)) EXCEPT !.sorted = TRUE]
      BY <2>1 DEF ForWrite
    <3> QED BY <1>1, <3>1, SortedHas
  <2>2. CASE ~MustSort(ix)
    <3>1. x = [ix EXCEPT !.sorted = TRUE]
      BY <2>2 DEF ForWrite
    <3>2. x \in Shape /\ x.cells = ix.cells /\ x.count = ix.count
      BY <1>1, <3>1 DEF Good, Shape
    <3> QED BY <1>1, <3>2 DEF Good, Live, Has
  <2> QED BY <2>1, <2>2
<1>4. Has(ix', m)
  BY <1>1, <1>2, <1>3, FlagsHas
<1>5. Staged' = Staged
  BY <1>4, StagedBecomes
<1>6. CASE ok
  <2> PICK n : n = x.count
    OBVIOUS
  <2> PICK e : e = [i \in 1 .. n |-> x.cells[i - 1]]
    OBVIOUS
  <2> PICK V : V = {x.cells[i - 1] : i \in 1 .. n}
    OBVIOUS
  <2>1. n \in Nat
    BY <1>3, BoundAssumption DEF Good, Shape
  <2>2. e \in [1 .. n -> V] /\ \A i \in 0 .. n - 1 : e[i + 1] = x.cells[i]
    BY <2>1
  <2> PICK c : c = x.cells
    OBVIOUS
  <2>3. FileMap(e, Cardinality(DOMAIN e)) = MapOf(c, n)
    <3>1. \A i \in 0 .. n - 1 : e[i + 1] = c[i]
      BY <2>2
    <3> QED BY ONLY <2>1, <2>2, <3>1, FileHas
  <2>4. disk' = e /\ ret' = "OK"
    BY <1>2, <1>6
  <2>5. OnFile' = m
    BY <1>3, <2>3, <2>4, MapInFile, HoldsOne DEF Has
  <2> QED BY <1>5, <2>4, <2>5 DEF Map!MapSave
<1>7. CASE ~ok
  <2>1. disk' = disk /\ ret' = "EIO"
    BY <1>2, <1>7
  <2> QED BY <1>5, <2>1, FileStays DEF Map!MapSave
<1> QED BY <1>6, <1>7

\* fastgit_index_open brings back what was saved last.
LEMMA OpenMaps == ASSUME IInv, Open PROVE Map!MapLoad
<1> PICK n : n = Cardinality(DOMAIN disk)
  OBVIOUS
<1> PICK c : c = [i \in Cells |-> IF i < n THEN disk[i + 1] ELSE NoEntry]
  OBVIOUS
<1>1. ix'.cells = c /\ ix'.count = n /\ ret' = "OK" /\ disk' = disk
  BY DEF Open
<1>2. n \in 0 .. MaxEntries /\ disk \in [1 .. n -> Entry]
  <2>1. PICK m \in 0 .. MaxEntries : disk \in [1 .. m -> Entry]
    BY DEF IInv, Saved
  <2>2. Cardinality(1 .. m) = m
    <3>1. m \in Nat
      BY BoundAssumption
    <3> QED BY <3>1, FS_Interval
  <2> QED BY <2>1, <2>2
<1>3. n \in Nat /\ \A i \in 0 .. n - 1 : disk[i + 1] = c[i]
  BY <1>2, BoundAssumption DEF Cells
<1> PICK d : d = disk
  OBVIOUS
<1>4. FileMap(d, Cardinality(DOMAIN d)) = MapOf(c, n)
  BY <1>2, <1>3, FileHas
<1>5. Staged' = OnFile
  BY <1>1, <1>4, MapInMemory, MapInFile
<1> QED BY <1>1, <1>5, FileStays DEF Map!MapLoad

\* fastgit_index_conflict_remove takes the path out of the map and says whether it was there.
LEMMA ConflictRemoveMaps ==
    ASSUME IInv, stale = 0, NEW p \in Path, ConflictRemove(p) PROVE Map!MapResolve(p)
<1> PICK x : x = Without(ix, p)
  OBVIOUS
<1> PICK m : m = Staged
  OBVIOUS
<1>1. Good(ix) /\ Has(ix, m) /\ m \in [Key -> Oid \cup {NoOid}]
  BY StagedIs DEF IInv, Has, Holds
<1>2. Good(x) /\ Has(x, Drop(m, Of(p))) /\ (x.count = ix.count <=> Drop(m, Of(p)) = m)
  BY <1>1, WithoutShape, WithoutHas
<1>3. Drop(m, Of(p)) = [k \in Map!MapKey |-> IF k[1] = p THEN NoOid ELSE m[k]]
  BY DEF Drop, Of, Map!MapKey, Key
<1>4. CASE x.count = ix.count
  <2>1. ret' = "ENOENT" /\ ix' = ix /\ disk' = disk
    BY <1>4 DEF ConflictRemove
  <2>2. Staged' = m
    BY <1>1, <2>1, StagedBecomes
  <2> QED BY <1>2, <1>3, <1>4, <2>1, <2>2, FileStays DEF Map!MapResolve
<1>5. CASE x.count # ix.count
  <2> PICK y : y = [x EXCEPT !.dirty = TRUE]
    OBVIOUS
  <2>1. ret' = "OK" /\ ix' = Forget(y) /\ disk' = disk
    BY <1>5 DEF ConflictRemove
  <2>2. Has(ix', Drop(m, Of(p)))
    BY <1>2, <2>1, FlagsHas
  <2>3. Staged' = Drop(m, Of(p))
    BY <2>2, StagedBecomes
  <2> QED BY <1>2, <1>3, <1>5, <2>1, <2>3, FileStays DEF Map!MapResolve
<1> QED BY <1>4, <1>5

\* fastgit_index_conflict_add leaves the path with the sides that exist and no other entry.
LEMMA ConflictAddMaps ==
    ASSUME IInv, stale = 0, NEW p \in Path, NEW sides \in Sides, NEW o \in Oid,
           ConflictAdd(p, sides, o)
    PROVE  Map!MapConflict(p, sides, o)
<1> PICK x : x = Joined(ix, p, sides, o)
  OBVIOUS
<1> PICK y : y = [x EXCEPT !.dirty = TRUE, !.sorted = FALSE]
  OBVIOUS
<1> PICK m : m = Staged
  OBVIOUS
<1> PICK v : v = [k \in Key |-> IF k[1] # p THEN m[k] ELSE IF k[2] \in sides THEN o ELSE NoOid]
  OBVIOUS
<1>1. Good(ix) /\ Has(ix, m)
  BY StagedIs DEF IInv
<1>2. /\ Without(ix, p).count + Cardinality(sides) <= MaxEntries
      /\ ix' = Forget(y) /\ ret' = "OK" /\ disk' = disk
  BY DEF ConflictAdd, Joined
<1>3. Good(x) /\ Has(x, v)
  BY <1>1, <1>2, JoinedShape, JoinedHas
<1>4. Has(ix', v)
  BY <1>2, <1>3, FlagsHas
<1>5. Staged' = v
  BY <1>4, StagedBecomes
<1>6. v = [k \in Map!MapKey |-> IF k[1] # p THEN Staged[k]
                                ELSE IF k[2] \in sides THEN o ELSE NoOid]
  BY DEF Map!MapKey, Key
<1> QED BY <1>2, <1>5, <1>6, FileStays DEF Map!MapConflict

\* fastgit_index_read_tree replaces the map by the tree's files.
LEMMA ReadTreeMaps ==
    ASSUME IInv, NEW files \in Trees, NEW o \in Oid, NEW ok \in BOOLEAN, ReadTree(files, o, ok)
    PROVE  Map!MapReadTree(files, o)
<1> PICK x : x = Loaded(ix, files, o)
  OBVIOUS
<1> PICK y : y = [x EXCEPT !.sorted = ~ok]
  OBVIOUS
<1> PICK v : v = [k \in Key |-> IF k[2] = 0 /\ \E i \in DOMAIN files : files[i] = k[1]
                               THEN o ELSE NoOid]
  OBVIOUS
<1>1. hash \in [Key -> Nat] /\ Good(ix)
  BY HashType DEF IInv
<1>2. /\ Cardinality(DOMAIN files) <= MaxEntries
      /\ ix' = Forget(y) /\ ret' = (IF ok THEN "OK" ELSE "ERROR") /\ disk' = disk
  BY DEF ReadTree, Loaded
<1>3. Good(x) /\ Has(x, v)
  BY <1>1, <1>2, LoadedShape, LoadedHas
<1>4. Has(ix', v)
  <2> PICK b : b = ~ok
    OBVIOUS
  <2>1. b \in BOOLEAN /\ y \in {[x EXCEPT !.dirty = TRUE], [x EXCEPT !.sorted = b],
                                [x EXCEPT !.dirty = TRUE, !.sorted = b]}
    OBVIOUS
  <2> QED BY <1>2, <1>3, <2>1, FlagsHas
<1>5. Staged' = v
  BY <1>4, StagedBecomes
<1>6. v = [k \in Map!MapKey |-> IF k[2] = 0 /\ \E i \in DOMAIN files : files[i] = k[1]
                                THEN o ELSE NoOid]
  BY DEF Map!MapKey, Key
<1> QED BY <1>2, <1>5, <1>6, FileStays DEF Map!MapReadTree

\* fastgit_index_write_tree refuses a map with a conflict and leaves the map.
LEMMA WriteTreeMaps == ASSUME IInv, stale = 0, WriteTree PROVE Map!MapWriteTree
<1> PICK m : m = Staged
  OBVIOUS
<1>1. Good(ix) /\ Has(ix, m)
  BY StagedIs DEF IInv
<1>2. HasConflicts(ix) <=> \E k \in Key : k[2] # 0 /\ m[k] # NoOid
  <2>1. /\ \A i \in Live(ix) : ix.cells[i] \in Entry /\ m[ix.cells[i].key] = ix.cells[i].oid
        /\ \A k \in Key : m[k] # NoOid => \E i \in Live(ix) : ix.cells[i].key = k
    BY <1>1 DEF Has, Holds, Live
  <2>2. \A i \in Live(ix) : ix.cells[i].key \in Key /\ m[ix.cells[i].key] # NoOid
    BY <2>1, KeyOfEntry, NoOidAssumption
  <2>3. HasConflicts(ix) <=> \E i \in Live(ix) : ix.cells[i].key[2] # 0
    BY DEF HasConflicts, Live
  <2> QED BY <2>1, <2>2, <2>3
<1>3. disk' = disk /\ ret' = IF HasConflicts(ix) THEN "EINVAL" ELSE "OK"
  BY DEF WriteTree
<1>4. Has(ix', m)
  <2> PICK z : z = Sort(ix)
    OBVIOUS
  <2> PICK y : y = [z EXCEPT !.sorted = TRUE]
    OBVIOUS
  <2>1. ix' = ix \/ ix' = Forget(y)
    BY DEF WriteTree
  <2>2. Good(z) /\ Has(z, m)
    BY <1>1, SortShape, SortHas
  <2>3. y \in {[z EXCEPT !.dirty = TRUE], [z EXCEPT !.sorted = TRUE],
               [z EXCEPT !.dirty = TRUE, !.sorted = TRUE]}
    OBVIOUS
  <2>4. Has(Forget(y), m)
    BY <2>2, <2>3, FlagsHas
  <2> QED BY <1>1, <2>1, <2>4
<1>5. Staged' = Staged
  BY <1>4, StagedBecomes
<1>6. Map!MapKey = Key
  BY DEF Map!MapKey, Key
<1> QED BY <1>2, <1>3, <1>5, <1>6, FileStays DEF Map!MapWriteTree

\* Every call on an index in step is a step of the map.
LEMMA NextMaps ==
    ASSUME IInv, [Next]_vars, stale = 0
    PROVE  Map!MapNext \/ UNCHANGED Map!mapVars
<1>0. Map!MapKey = Key
  BY DEF Map!MapKey, Key
<1>1. CASE UNCHANGED vars
  <2>1. ix' = ix /\ disk' = disk /\ ret' = ret
    BY <1>1 DEF vars
  <2>2. Staged' = Staged /\ OnFile' = OnFile
    BY <2>1, MapInMemory, FileStays
  <2> QED BY <2>1, <2>2 DEF Map!mapVars
<1>2. CASE \E p \in Path, o \in Oid, b \in Intact : Add(p, o, b)
  BY <1>2, AddMaps, IntactType DEF Map!MapNext
<1>3. CASE \E p, q \in Path, o, r \in Oid, b \in Intact : p # q /\ AddMany(p, o, q, r, b)
  BY <1>3, AddManyMaps, IntactType DEF Map!MapNext
<1>4. CASE \E p \in Path, s \in Stage, b \in Intact : Remove(p, s, b) \/ Find(p, s, b)
  BY <1>0, <1>4, RemoveMaps, FindMaps, IntactType DEF Map!MapNext
<1>5. CASE Clear
  BY <1>5, ClearMaps DEF Map!MapNext
<1>6. CASE \E ok \in BOOLEAN : WriteTo(ok)
  BY <1>6, WriteToMaps DEF Map!MapNext
<1>7. CASE Open
  BY <1>7, OpenMaps DEF Map!MapNext
<1>8. CASE \E p \in Path : ConflictRemove(p)
  BY <1>8, ConflictRemoveMaps DEF Map!MapNext
<1>9. CASE \E p \in Path, sides \in Sides, o \in Oid : ConflictAdd(p, sides, o)
  BY <1>9, ConflictAddMaps DEF Map!MapNext
<1>10. CASE \E files \in Trees, o \in Oid, ok \in BOOLEAN : ReadTree(files, o, ok)
  BY <1>10, ReadTreeMaps DEF Map!MapNext
<1>11. CASE WriteTree
  BY <1>11, WriteTreeMaps DEF Map!MapNext
<1> QED BY <1>1, <1>2, <1>3, <1>4, <1>5, <1>6, <1>7, <1>8, <1>9, <1>10, <1>11
        DEF Next, CoreNext, BypassNext

\* The staging area implements the map: whatever the hash function, the sizes and the calls
\* made, every call of index.c on an index in step changes and answers as the map does.
THEOREM MapCorrect == Spec => CallsAreMapSteps
<1>1. IInv /\ [Next]_vars => (stale = 0 => Map!MapNext \/ UNCHANGED Map!mapVars)
  BY NextMaps
<1>2. IInv /\ [Next]_vars => [stale = 0 => Map!MapNext \/ UNCHANGED Map!mapVars]_vars
  BY <1>1
<1> QED BY <1>2, Invariance, PTL DEF Spec, CallsAreMapSteps
=============================================================================
