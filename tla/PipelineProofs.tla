--------------------------- MODULE PipelineProofs ---------------------------
(***************************************************************************)
(* The safety of the acceptance pipeline for every tree on the chain,      *)
(* every cache and queue size, any number of sensors, messages and sinks:  *)
(* the walk to the root decides ancestry, one lookup serves each sensor,   *)
(* decisions follow the chain, duplicates are dropped only when stored,    *)
(* and no message is lost or counted twice.                                *)
(***************************************************************************)
EXTENDS Pipeline, FiniteSetTheorems, FunctionTheorems, SequenceTheorems,
        WellFoundedInduction, TLAPS
-----------------------------------------------------------------------------
(***************************************************************************)
(* The walk: Lookup says "found" only below the root and "absent" only     *)
(* where the root is no ancestor.                                          *)
(***************************************************************************)
\* Every set of numbers has a least one.
LEMMA LeastElement ==
    ASSUME NEW T, T \subseteq Nat, T # {}
    PROVE  \E x \in T : \A y \in T : x <= y
<1>1. IsWellFoundedOn(OpToRel(<, Nat), Nat)
  BY NatLessThanWellFounded
<1>2. PICK x \in T : \A y \in T : ~ (<<y, x>> \in OpToRel(<, Nat))
  BY <1>1, WFMin
<1>3. \A y \in T : ~ (y < x)
  BY <1>2 DEF OpToRel
<1> QED BY <1>3

\* One read of lineage().
Parent(tree, n) == IF n \in DOMAIN tree THEN tree[n] ELSE Gone

\* f is the walk as far as its domain goes.
Walks(f, tree, node) ==
    f = [k \in DOMAIN f |-> IF k = 0 THEN node ELSE Parent(tree, f[k - 1])]

\* A walk of every length exists: the shortest one that did not would extend
\* the one before it.
LEMMA WalkExists ==
    ASSUME NEW tree, NEW node, NEW d \in Nat
    PROVE  \E f : DOMAIN f = 0 .. d /\ Walks(f, tree, node)
<1> DEFINE missing == {n \in Nat : ~\E f : DOMAIN f = 0 .. n /\ Walks(f, tree, node)}
<1> SUFFICES ASSUME missing # {} PROVE FALSE
  OBVIOUS
<1>1. PICK n \in missing : \A m \in missing : n <= m
  <2> HIDE DEF missing
  <2>1. missing \subseteq Nat
    BY DEF missing
  <2> QED BY <2>1, LeastElement
<1>2. CASE n = 0
  <2> DEFINE f == [k \in 0 .. 0 |-> node]
  <2>1. DOMAIN f = 0 .. 0 /\ Walks(f, tree, node)
    BY DEF Walks
  <2> QED BY <1>1, <1>2, <2>1
<1>3. CASE n # 0
  <2>1. n - 1 \in Nat /\ n - 1 \notin missing
    BY <1>1, <1>3
  <2>2. PICK g : DOMAIN g = 0 .. n - 1 /\ Walks(g, tree, node)
    BY <2>1
  <2> DEFINE f == [k \in 0 .. n |-> IF k = n THEN Parent(tree, g[n - 1]) ELSE g[k]]
  <2>3. \A k \in 0 .. n - 1 :
            g[k] = IF k = 0 THEN node ELSE Parent(tree, g[k - 1])
    BY <2>2 DEF Walks
  <2>4. \A k \in 0 .. n : f[k] = IF k = 0 THEN node ELSE Parent(tree, f[k - 1])
    BY <1>3, <2>1, <2>3
  <2>5. DOMAIN f = 0 .. n /\ Walks(f, tree, node)
    BY <2>4 DEF Walks
  <2> QED BY <1>1, <2>5
<1> QED BY <1>2, <1>3

\* What the recursion of Ancestry computes.
LEMMA AncestryWalks ==
    ASSUME NEW tree, NEW node
    PROVE  LET up == Ancestry(tree, node)
           IN  /\ DOMAIN up = 0 .. MaxAncestorDepth
               /\ up[0] = node
               /\ \A k \in 1 .. MaxAncestorDepth : up[k] = Parent(tree, up[k - 1])
<1> DEFINE up == Ancestry(tree, node)
           body(f, k) ==
               IF k = 0 THEN node
               ELSE IF f[k - 1] \in DOMAIN tree THEN tree[f[k - 1]] ELSE Gone
<1>1. PICK f : DOMAIN f = 0 .. MaxAncestorDepth /\ Walks(f, tree, node)
  BY LineageConstants, WalkExists
<1>2. f = [k \in 0 .. MaxAncestorDepth |->
              IF k = 0 THEN node
              ELSE IF f[k - 1] \in DOMAIN tree THEN tree[f[k - 1]] ELSE Gone]
  BY <1>1 DEF Walks, Parent
<1>3. up = [k \in 0 .. MaxAncestorDepth |->
               IF k = 0 THEN node
               ELSE IF up[k - 1] \in DOMAIN tree THEN tree[up[k - 1]] ELSE Gone]
  BY <1>2 DEF Ancestry
<1> HIDE DEF up
<1>4. /\ DOMAIN up = 0 .. MaxAncestorDepth
      /\ up[0] = node
      /\ \A k \in 1 .. MaxAncestorDepth : up[k] = Parent(tree, up[k - 1])
  BY <1>3, LineageConstants DEF Parent
<1> QED BY <1>4 DEF up

\* The walk at its first return: nothing before it was the root, the end of
\* the chain or a missing node.
LEMMA FirstReturn ==
    ASSUME NEW tree \in Snapshot, NEW node \in Node,
           node # Root, Returns(Ancestry(tree, node)) # {}
    PROVE  LET up == Ancestry(tree, node)
               m  == Min(Returns(up))
           IN  /\ m \in 1 .. MaxAncestorDepth
               /\ \A k \in 0 .. m - 1 : up[k] \in Node \ {Root}
               /\ \A k \in 1 .. m : up[k] = Parent(tree, up[k - 1])
<1> DEFINE up == Ancestry(tree, node)
           m  == Min(Returns(up))
<1>1. Returns(up) \subseteq 1 .. MaxAncestorDepth
  BY DEF Returns
<1>2. /\ up[0] = node
      /\ \A k \in 1 .. MaxAncestorDepth : up[k] = Parent(tree, up[k - 1])
  BY AncestryWalks
<1>3. m \in Returns(up) /\ \A k \in Returns(up) : m <= k
  <2>1. Returns(up) \subseteq Nat
    BY <1>1, LineageConstants
  <2> HIDE DEF up
  <2>2. \E x \in Returns(up) : \A y \in Returns(up) : x <= y
    BY <2>1, LeastElement DEF up
  <2> QED BY <2>2 DEF Min
<1> HIDE DEF m
<1>4. m \in 1 .. MaxAncestorDepth
  BY <1>1, <1>3
<1>5. \A k \in 1 .. m - 1 : up[k] \notin {Root, Top, Gone}
  <2> HIDE DEF up
  <2> QED BY <1>3, <1>4, LineageConstants DEF Returns
<1>6. \A n : Parent(tree, n) \in Node \cup {Top, Gone}
  BY DEF Parent, Snapshot
<1>7. \A k \in 0 .. m - 1 : up[k] \in Node \ {Root}
  <2> HIDE DEF up
  <2> TAKE k \in 0 .. m - 1
  <2>1. CASE k = 0
    BY <2>1, <1>2
  <2>2. CASE k # 0
    <3>1. k \in 1 .. m - 1 /\ k \in 1 .. MaxAncestorDepth
      BY <2>2, <1>4, LineageConstants
    <3>2. up[k] = Parent(tree, up[k - 1])
      BY <3>1, <1>2
    <3> QED BY <3>1, <3>2, <1>5, <1>6
  <2> QED BY <2>1, <2>2
<1>8. \A k \in 1 .. m : up[k] = Parent(tree, up[k - 1])
  BY <1>2, <1>4, LineageConstants
<1> QED BY <1>4, <1>7, <1>8 DEF m

\* A walk that meets the root stays in every set closed under parents.
LEMMA FoundIsBelow ==
    ASSUME NEW tree \in Snapshot, NEW node \in Node \cup {Gone},
           Lookup(tree, node) = "found"
    PROVE  Below(tree, node)
<1> DEFINE up == Ancestry(tree, node)
           m  == Min(Returns(up))
<1>1. node \in Node /\ node # Root /\ Returns(up) # {}
  BY DEF Lookup
<1>2. up[m] = Root
  BY <1>1 DEF Lookup
<1>3. /\ m \in 1 .. MaxAncestorDepth
      /\ \A k \in 0 .. m - 1 : up[k] \in Node \ {Root}
      /\ \A k \in 1 .. m : up[k] = Parent(tree, up[k - 1])
  BY <1>1, FirstReturn
<1>4. up[0] = node
  BY AncestryWalks
<1> HIDE DEF m, up
<1> SUFFICES ASSUME NEW closed \in SUBSET Node, node \in closed,
                    \A n \in closed \cap DOMAIN tree : tree[n] \in closed \cup {Top}
             PROVE  Root \in closed
  BY <1>1, LineageConstants DEF Below
<1> DEFINE out == {k \in 0 .. m : up[k] \notin closed}
<1>5. SUFFICES ASSUME out # {} PROVE FALSE
  BY <1>2, <1>3
<1>6. out \subseteq Nat
  BY <1>3
<1>7. PICK k \in out : \A j \in out : k <= j
  <2> HIDE DEF out
  <2> QED BY <1>5, <1>6, LeastElement
<1>8. k \in 1 .. m /\ k - 1 \in 0 .. m - 1 /\ up[k - 1] \in closed
  BY <1>3, <1>4, <1>7
<1>9. up[k] \in Node
  BY <1>2, <1>3, <1>8, LineageConstants
<1>10. up[k - 1] \in DOMAIN tree /\ up[k] = tree[up[k - 1]]
  BY <1>3, <1>8, <1>9, LineageConstants DEF Parent
<1> QED BY <1>7, <1>8, <1>9, <1>10, LineageConstants

\* The nodes of a walk that ends without the root are such a set.
LEMMA AbsentIsNotBelow ==
    ASSUME NEW tree \in Snapshot, NEW node \in Node \cup {Gone},
           Lookup(tree, node) = "absent"
    PROVE  ~Below(tree, node)
<1> DEFINE up == Ancestry(tree, node)
           m  == Min(Returns(up))
<1>1. CASE node \in {Gone, Root}
  BY <1>1 DEF Below
<1>2. CASE node \notin {Gone, Root}
  <2>1. node \in Node /\ Returns(up) # {} /\ up[m] = Top
    BY <1>2, LineageConstants DEF Lookup
  <2>2. /\ m \in 1 .. MaxAncestorDepth
        /\ \A k \in 0 .. m - 1 : up[k] \in Node \ {Root}
        /\ \A k \in 1 .. m : up[k] = Parent(tree, up[k - 1])
    BY <1>2, <2>1, FirstReturn
  <2>3. up[0] = node
    BY AncestryWalks
  <2> HIDE DEF m, up
  <2> DEFINE closed == {up[k] : k \in 0 .. m - 1}
  <2>4. closed \in SUBSET Node /\ Root \notin closed
    BY <2>2
  <2>5. node \in closed
    BY <2>2, <2>3
  <2>6. ASSUME NEW n \in closed \cap DOMAIN tree
        PROVE  tree[n] \in closed \cup {Top}
    <3>1. PICK k \in 0 .. m - 1 : n = up[k]
      OBVIOUS
    <3>2. k + 1 \in 1 .. m /\ up[k + 1] = tree[n]
      BY <2>2, <2>6, <3>1 DEF Parent
    <3>3. CASE k + 1 = m
      BY <2>1, <3>2, <3>3
    <3>4. CASE k + 1 # m
      BY <2>2, <3>2, <3>4
    <3> QED BY <3>3, <3>4
  <2> HIDE DEF closed
  <2> QED BY <2>4, <2>5, <2>6 DEF Below
<1> QED BY <1>1, <1>2

\* What a lookup reports is what the tree says, for every tree: an allow is
\* below the root and a denial is not (CpsAuth::lookup).
THEOREM WalkDecides ==
    \A r \in LookupResult : /\ r.below \in BOOLEAN
                            /\ r.found \in {"found", "absent", "error"}
                            /\ r.found = "found" => r.below = TRUE
                            /\ r.found = "absent" => r.below = FALSE
<1> SUFFICES ASSUME NEW r \in LookupResult
             PROVE  /\ r.below \in BOOLEAN
                    /\ r.found \in {"found", "absent", "error"}
                    /\ r.found = "found" => r.below = TRUE
                    /\ r.found = "absent" => r.below = FALSE
  OBVIOUS
<1>1. PICK tree \in Snapshot, node \in Node \cup {Gone} :
          r = [found |-> Lookup(tree, node), below |-> Below(tree, node)]
  BY DEF LookupResult
<1>2. r.found = Lookup(tree, node) /\ r.below = Below(tree, node)
  BY <1>1, Zenon
<1>3. Below(tree, node) \in BOOLEAN
  BY DEF Below
<1>4. Lookup(tree, node) = "found" => Below(tree, node)
  BY FoundIsBelow
<1>5. Lookup(tree, node) = "absent" => ~Below(tree, node)
  BY AbsentIsNotBelow
<1>6. Lookup(tree, node) \in {"found", "absent", "error"}
  BY DEF Lookup
<1> QED BY <1>2, <1>3, <1>4, <1>5, <1>6, Zenon
-----------------------------------------------------------------------------
(***************************************************************************)
(* Sequences that hold no element twice.                                   *)
(***************************************************************************)
LEMMA AppendKeepsApart ==
    ASSUME NEW S, NEW q \in Seq(S), NEW e \in S
    PROVE  /\ Append(q, e) \in Seq(S)
           /\ Range(Append(q, e)) = Range(q) \cup {e}
           /\ IsInjective(q) /\ e \notin Range(q) => IsInjective(Append(q, e))
<1>1. /\ Append(q, e) \in Seq(S)
      /\ DOMAIN q = 1 .. Len(q) /\ Len(q) \in Nat
      /\ DOMAIN Append(q, e) = 1 .. Len(q) + 1
      /\ \A i \in 1 .. Len(q) : Append(q, e)[i] = q[i]
      /\ Append(q, e)[Len(q) + 1] = e
  BY AppendProperties, LenProperties
<1> QED BY <1>1 DEF Range, IsInjective

LEMMA SuffixKeepsApart ==
    ASSUME NEW S, NEW q \in Seq(S), NEW n \in 0 .. Len(q)
    PROVE  LET before == SubSeq(q, 1, n)
               after  == SubSeq(q, n + 1, Len(q))
           IN  /\ after \in Seq(S) /\ Len(after) = Len(q) - n
               /\ before \in Seq(S) /\ Len(before) = n
               /\ \A i \in 1 .. Len(after) : after[i] = q[n + i]
               /\ Range(before) \cup Range(after) = Range(q)
               /\ IsInjective(q) => /\ IsInjective(before) /\ IsInjective(after)
                                    /\ Range(before) \cap Range(after) = {}
<1> DEFINE before == SubSeq(q, 1, n)
           after  == SubSeq(q, n + 1, Len(q))
<1>1. /\ Len(q) \in Nat /\ DOMAIN q = 1 .. Len(q)
      /\ \A i \in 1 .. Len(q) : q[i] \in S
  BY LenProperties
<1>2. /\ after \in Seq(S) /\ Len(after) = Len(q) - n
      /\ \A i \in 1 .. Len(q) - n : after[i] = q[n + i]
  <2>1. \A i \in n + 1 .. Len(q) : q[i] \in S
    BY <1>1
  <2>2. /\ after \in Seq(S)
        /\ Len(after) = IF n + 1 <= Len(q) THEN Len(q) - (n + 1) + 1 ELSE 0
        /\ \A i \in 1 .. Len(q) - (n + 1) + 1 : after[i] = q[n + 1 + i - 1]
    BY <1>1, <2>1, SubSeqProperties
  <2> HIDE DEF after
  <2>3. Len(q) - (n + 1) + 1 = Len(q) - n /\ n \in Nat
    BY <1>1
  <2>4. Len(after) = Len(q) - n
    <3>1. Len(after) = IF n + 1 <= Len(q) THEN Len(q) - (n + 1) + 1 ELSE 0
      BY <2>2
    <3>2. Len(q) \in Nat /\ n \in Nat /\ n <= Len(q)
      BY <1>1
    <3> QED BY ONLY <3>1, <3>2
  <2>5. ASSUME NEW i \in 1 .. Len(q) - n PROVE after[i] = q[n + i]
    <3>1. n + 1 + i - 1 = n + i
      BY <1>1, <2>3
    <3> QED BY <2>2, <2>3, <3>1
  <2> QED BY <2>2, <2>4, <2>5
<1>3. /\ before \in Seq(S) /\ Len(before) = n
      /\ \A i \in 1 .. n : before[i] = q[i]
  <2>1. \A i \in 1 .. n : q[i] \in S
    BY <1>1
  <2>2. /\ before \in Seq(S)
        /\ Len(before) = IF 1 <= n THEN n - 1 + 1 ELSE 0
        /\ \A i \in 1 .. n - 1 + 1 : before[i] = q[1 + i - 1]
    BY <1>1, <2>1, SubSeqProperties
  <2> HIDE DEF before
  <2> QED BY <1>1, <2>2
<1> HIDE DEF before, after
<1>4. DOMAIN before = 1 .. n /\ DOMAIN after = 1 .. Len(q) - n
  BY <1>2, <1>3, LenProperties
<1>5. Range(before) \cup Range(after) = Range(q)
  <2>1. ASSUME NEW i \in 1 .. Len(q) PROVE q[i] \in Range(before) \cup Range(after)
    <3>1. CASE i <= n
      BY <1>1, <1>3, <1>4, <3>1 DEF Range
    <3>2. CASE i > n
      <4>1. i - n \in DOMAIN after /\ after[i - n] = q[i]
        BY <1>1, <1>2, <1>4, <3>2
      <4> QED BY <4>1 DEF Range
    <3> QED BY <1>1, <3>1, <3>2
  <2>2. Range(before) \subseteq Range(q)
    BY <1>1, <1>3, <1>4 DEF Range
  <2>3. ASSUME NEW i \in 1 .. Len(q) - n PROVE after[i] \in Range(q)
    <3>1. n + i \in DOMAIN q /\ after[i] = q[n + i]
      BY <1>1, <1>2
    <3> QED BY <3>1 DEF Range
  <2>4. Range(after) \subseteq Range(q)
    BY <1>4, <2>3 DEF Range
  <2> QED BY <1>1, <2>1, <2>2, <2>4 DEF Range
<1>6. IsInjective(q) => /\ IsInjective(before) /\ IsInjective(after)
                        /\ Range(before) \cap Range(after) = {}
  <2> SUFFICES ASSUME IsInjective(q) PROVE /\ IsInjective(before)
                                           /\ IsInjective(after)
                                           /\ Range(before) \cap Range(after) = {}
    OBVIOUS
  <2>1. IsInjective(before)
    BY <1>1, <1>3, <1>4 DEF IsInjective
  <2>2. IsInjective(after)
    <3> SUFFICES ASSUME NEW a \in DOMAIN after, NEW b \in DOMAIN after,
                        after[a] = after[b]
                 PROVE  a = b
      BY DEF IsInjective
    <3>1. n + a \in DOMAIN q /\ n + b \in DOMAIN q /\ q[n + a] = q[n + b]
      BY <1>1, <1>2, <1>4
    <3>2. n + a = n + b
      BY <3>1 DEF IsInjective
    <3> QED BY <3>2, <1>1, <1>4
  <2>3. ASSUME NEW i \in 1 .. n, NEW j \in 1 .. Len(q) - n, before[i] = after[j]
        PROVE  FALSE
    <3>1. i \in DOMAIN q /\ n + j \in DOMAIN q /\ q[i] = q[n + j]
      BY <1>1, <1>2, <1>3, <2>3
    <3>2. i = n + j
      BY <3>1 DEF IsInjective
    <3> QED BY <3>2, <1>1
  <2> QED BY <1>4, <2>1, <2>2, <2>3 DEF Range
<1>7. \A i \in 1 .. Len(after) : after[i] = q[n + i]
  BY <1>2
<1> QED BY <1>2, <1>3, <1>5, <1>6, <1>7 DEF before, after

LEMMA TailKeepsApart ==
    ASSUME NEW S, NEW q \in Seq(S), q # <<>>
    PROVE  /\ Head(q) = q[1] /\ q[1] \in S /\ q[1] \in Range(q)
           /\ Tail(q) \in Seq(S) /\ Len(Tail(q)) = Len(q) - 1
           /\ Range(q) = {q[1]} \cup Range(Tail(q))
           /\ IsInjective(q) => IsInjective(Tail(q)) /\ q[1] \notin Range(Tail(q))
<1> DEFINE t == Tail(q)
<1>1. Len(q) \in Nat \ {0} /\ DOMAIN q = 1 .. Len(q)
  BY LenProperties, EmptySeq
<1>2. /\ t \in Seq(S) /\ Len(t) = Len(q) - 1
      /\ \A i \in 1 .. Len(q) - 1 : t[i] = q[i + 1]
  BY HeadTailProperties
<1>3. Head(q) = q[1] /\ q[1] \in S /\ q[1] \in Range(q)
  BY <1>1, ElementOfSeq DEF Range
<1> HIDE DEF t
<1>4. DOMAIN t = 1 .. Len(q) - 1
  BY <1>1, <1>2, LenProperties
<1>5. Range(t) \subseteq Range(q)
  BY <1>1, <1>2, <1>4 DEF Range
<1>6. ASSUME NEW i \in 1 .. Len(q), i # 1 PROVE q[i] \in Range(t)
  <2>1. i - 1 \in DOMAIN t /\ t[i - 1] = q[i]
    BY <1>1, <1>2, <1>4, <1>6
  <2> QED BY <2>1 DEF Range
<1>7. Range(q) = {q[1]} \cup Range(t)
  BY <1>1, <1>3, <1>5, <1>6 DEF Range
<1>8. ASSUME IsInjective(q) PROVE IsInjective(t) /\ q[1] \notin Range(t)
  <2>1. ASSUME NEW a \in DOMAIN t, NEW b \in DOMAIN t, t[a] = t[b] PROVE a = b
    <3>1. a + 1 \in DOMAIN q /\ b + 1 \in DOMAIN q /\ q[a + 1] = q[b + 1]
      BY <1>1, <1>2, <1>4, <2>1
    <3>2. a + 1 = b + 1
      BY <1>8, <3>1 DEF IsInjective
    <3> QED BY <3>2, <1>1, <1>4
  <2>2. ASSUME NEW a \in DOMAIN t PROVE t[a] # q[1]
    <3>1. a + 1 \in DOMAIN q /\ t[a] = q[a + 1] /\ 1 \in DOMAIN q /\ a + 1 # 1
      BY <1>1, <1>2, <1>4
    <3> QED BY <1>8, <3>1 DEF IsInjective
  <2> QED BY <2>1, <2>2 DEF IsInjective, Range
<1> QED BY <1>2, <1>3, <1>7, <1>8 DEF t

LEMMA RemoveKeepsApart ==
    ASSUME NEW S, NEW q \in Seq(S), NEW i \in 1 .. Len(q)
    PROVE  /\ RemoveAt(q, i) \in Seq(S)
           /\ Range(RemoveAt(q, i)) \subseteq Range(q)
           /\ Range(q) \subseteq Range(RemoveAt(q, i)) \cup {q[i]}
           /\ IsInjective(q) => /\ IsInjective(RemoveAt(q, i))
                                /\ q[i] \notin Range(RemoveAt(q, i))
<1> DEFINE r == RemoveAt(q, i)
<1>1. /\ Len(q) \in Nat /\ DOMAIN q = 1 .. Len(q)
      /\ \A j \in 1 .. Len(q) : q[j] \in S
  BY LenProperties
<1>2. i - 1 \in 0 .. Len(q) /\ i \in 0 .. Len(q) /\ i \in Int
  BY <1>1
<1>3. /\ SubSeq(q, 1, i - 1) \in Seq(S) /\ Len(SubSeq(q, 1, i - 1)) = i - 1
      /\ SubSeq(q, i + 1, Len(q)) \in Seq(S)
      /\ Len(SubSeq(q, i + 1, Len(q))) = Len(q) - i
      /\ \A j \in 1 .. Len(q) - i : SubSeq(q, i + 1, Len(q))[j] = q[i + j]
  BY <1>2, SuffixKeepsApart
<1>4. \A j \in 1 .. i - 1 : SubSeq(q, 1, i - 1)[j] = q[j]
  <2>1. \A j \in 1 .. i - 1 : q[j] \in S
    BY <1>1
  <2>2. \A j \in 1 .. i - 1 - 1 + 1 : SubSeq(q, 1, i - 1)[j] = q[1 + j - 1]
    BY <1>2, <2>1, SubSeqProperties
  <2> QED BY <2>2, <1>1
<1>5. /\ r \in Seq(S)
      /\ Len(r) = i - 1 + (Len(q) - i)
      /\ \A j \in 1 .. i - 1 + (Len(q) - i) :
            r[j] = IF j <= i - 1 THEN SubSeq(q, 1, i - 1)[j]
                   ELSE SubSeq(q, i + 1, Len(q))[j - (i - 1)]
  <2> DEFINE a == SubSeq(q, 1, i - 1)
             b == SubSeq(q, i + 1, Len(q))
  <2>1. a \in Seq(S) /\ b \in Seq(S) /\ Len(a) = i - 1 /\ Len(b) = Len(q) - i
    BY <1>3
  <2>2. r = a \o b
    BY DEF RemoveAt
  <2> HIDE DEF a, b, r
  <2>3. /\ a \o b \in Seq(S)
        /\ Len(a \o b) = Len(a) + Len(b)
        /\ \A j \in 1 .. Len(a) + Len(b) :
              (a \o b)[j] = IF j <= Len(a) THEN a[j] ELSE b[j - Len(a)]
    BY <2>1, ConcatProperties
  <2>4. /\ r \in Seq(S) /\ Len(r) = i - 1 + (Len(q) - i)
        /\ \A j \in 1 .. i - 1 + (Len(q) - i) :
              r[j] = IF j <= i - 1 THEN a[j] ELSE b[j - (i - 1)]
    BY <2>1, <2>2, <2>3
  <2> QED BY <2>4 DEF a, b
<1> HIDE DEF r
<1>6. \A j \in 1 .. Len(q) - 1 : r[j] = IF j < i THEN q[j] ELSE q[j + 1]
  <2> TAKE j \in 1 .. Len(q) - 1
  <2>1. j \in 1 .. i - 1 + (Len(q) - i)
    BY <1>1
  <2>2. CASE j < i
    BY <1>1, <1>4, <1>5, <2>1, <2>2
  <2>3. CASE j >= i
    <3>1. j - (i - 1) \in 1 .. Len(q) - i /\ i + (j - (i - 1)) = j + 1 /\ ~(j <= i - 1)
      BY <1>1, <2>3
    <3>2. r[j] = SubSeq(q, i + 1, Len(q))[j - (i - 1)]
      BY <1>5, <2>1, <3>1
    <3>3. SubSeq(q, i + 1, Len(q))[j - (i - 1)] = q[j + 1]
      BY <1>3, <3>1
    <3> QED BY <1>1, <2>3, <3>2, <3>3
  <2> QED BY <1>1, <2>2, <2>3
<1>7. DOMAIN r = 1 .. Len(q) - 1
  BY <1>1, <1>5, LenProperties
<1>8. Range(r) \subseteq Range(q)
  BY <1>1, <1>6, <1>7 DEF Range
<1>9. ASSUME NEW j \in 1 .. Len(q), j # i PROVE q[j] \in Range(r)
  <2>1. CASE j < i
    BY <1>1, <1>6, <1>7, <2>1 DEF Range
  <2>2. CASE j > i
    <3>1. j - 1 \in DOMAIN r /\ r[j - 1] = q[j]
      BY <1>1, <1>6, <1>7, <2>2
    <3> QED BY <3>1 DEF Range
  <2> QED BY <1>9, <2>1, <2>2
<1>10. Range(q) \subseteq Range(r) \cup {q[i]}
  BY <1>1, <1>9 DEF Range
<1>11. ASSUME IsInjective(q) PROVE IsInjective(r) /\ q[i] \notin Range(r)
  <2>1. \A j, k \in 1 .. Len(q) : q[j] = q[k] => j = k
    BY <1>1, <1>11 DEF IsInjective
  <2>2. ASSUME NEW j \in 1 .. Len(q) - 1
        PROVE  \E n \in 1 .. Len(q) : n # i /\ r[j] = q[n] /\ n = IF j < i THEN j ELSE j + 1
    <3>1. CASE j < i
      BY <1>1, <1>6, <3>1
    <3>2. CASE ~(j < i)
      <4>1. j + 1 \in 1 .. Len(q) /\ j + 1 # i
        BY <1>1, <3>2
      <4> QED BY <1>6, <3>2, <4>1
    <3> QED BY <3>1, <3>2
  <2>3. ASSUME NEW j \in 1 .. Len(q) - 1, NEW k \in 1 .. Len(q) - 1, r[j] = r[k] PROVE j = k
    <3>1. PICK n \in 1 .. Len(q) : r[j] = q[n] /\ n = IF j < i THEN j ELSE j + 1
      BY <2>2
    <3>2. PICK m \in 1 .. Len(q) : r[k] = q[m] /\ m = IF k < i THEN k ELSE k + 1
      BY <2>2
    <3>3. n = m
      BY <2>1, <2>3, <3>1, <3>2
    <3>4. (IF j < i THEN j ELSE j + 1) = (IF k < i THEN k ELSE k + 1)
      BY <3>1, <3>2, <3>3
    <3> QED BY <1>1, <3>4
  <2>4. IsInjective(r)
    BY <1>7, <2>3 DEF IsInjective
  <2>5. ASSUME NEW j \in 1 .. Len(q) - 1 PROVE r[j] # q[i]
    BY <2>1, <2>2
  <2> QED BY <1>7, <2>4, <2>5 DEF Range
<1> QED BY <1>5, <1>8, <1>10, <1>11 DEF r

\* A sequence without repetition has as many elements as its length.
LEMMA ApartCounts ==
    ASSUME NEW S, NEW q \in Seq(S), IsInjective(q)
    PROVE  IsFiniteSet(Range(q)) /\ Cardinality(Range(q)) = Len(q)
<1>1. Len(q) \in Nat /\ q \in [1 .. Len(q) -> S] /\ DOMAIN q = 1 .. Len(q)
  BY LenProperties
<1>2. q \in Bijection(1 .. Len(q), Range(q))
  BY <1>1 DEF Bijection, Injection, Surjection, IsInjective, Range
<1>3. IsFiniteSet(1 .. Len(q)) /\ Cardinality(1 .. Len(q)) = Len(q)
  BY <1>1, FS_Interval
<1> QED BY <1>2, <1>3, FS_Bijection DEF ExistsBijection
-----------------------------------------------------------------------------
(***************************************************************************)
(* The inductive invariant.                                                *)
(***************************************************************************)
\* The task is at a sink.
FanningOut == ppc \in {"deliver", "backoff"}

\* What process() holds and what it is accepting, at each of its stops.
TaskShape ==
    /\ Len(waiting) <= 1
    /\ ppc \in {"run", "ended"} => waiting = <<>>
    /\ ppc \in {"admit", "full"} => waiting # <<>>
    /\ ppc \in {"accept", "deliver", "backoff"} <=> granted # <<>>
    /\ ppc = "backoff" => sink <= Len(Sinks) /\ Sinks[sink] \in Required

\* The stage's counter counts the parked messages.
PendingCounted ==
    /\ \A s \in DOMAIN parked : IsInjective(parked[s])
    /\ IsFiniteSet(ParkedSet)
    /\ pendingCount = Cardinality(ParkedSet)

Disjoint(a, b, c, d, e) ==
    /\ a \cap (b \cup c \cup d \cup e) = {}
    /\ b \cap (c \cup d \cup e) = {}
    /\ c \cap (d \cup e) = {}
    /\ d \cap e = {}

\* All messages that arrived.
Arrived ==
    Range(ingress) \cup Range(waiting) \cup ParkedSet \cup Range(granted)
        \cup DOMAIN settled

\* No place holds a message twice, no two places share one, and the arrivals
\* number the messages.
PlacesApart ==
    /\ IsInjective(ingress)
    /\ IsInjective(granted)
    /\ Disjoint(Range(ingress), Range(waiting), ParkedSet, Range(granted),
                DOMAIN settled)
    /\ \A m, n \in Arrived : m.arrival = n.arrival => m = n
    /\ {m.arrival : m \in Arrived} = 0 .. arrivals - 1

\* Cached decisions, and those under way, are what the chain said.
DecisionsOnTheWay ==
    /\ \A e \in Range(cache) : <<e.sensor, e.allowed>> \in chainSaid
    /\ \A s \in DOMAIN lookups :
          /\ lookups[s] \in {"found", "allow"} => <<s, TRUE>> \in chainSaid
          /\ lookups[s] \in {"absent", "deny"} => <<s, FALSE>> \in chainSaid
    /\ \A m \in Range(waiting) \cup ParkedSet \cup Range(granted) :
          m.envelope \in Authentic
    /\ \A m \in Range(granted) : <<Sender(m), TRUE>> \in chainSaid

ReachedIn(log, envelope, s) == \E m \in Range(log[s]) : m.envelope = envelope

Reached(envelope, s) == ReachedIn(delivered, envelope, s)

\* The dedup cache knows what the required sink has, but for what it let go
\* of and for the envelope in fan-out.
DedupKnows ==
    /\ IsInjective(order)
    /\ \A s \in Required : \A m \in Range(delivered[s]) :
          m.envelope \in released \cup Range(order)
    /\ \A e \in Range(order) :
          Stored(e) \/ (FanningOut /\ e = granted[1].envelope)

\* The envelope in fan-out: remembered; on its first way to the required
\* sink unless it was released, and there by the time the sink is passed.
\* Only the required sink is ever given up.
FanOutKnows ==
    FanningOut =>
        /\ granted[1].envelope \in Range(order)
        /\ \A i \in 1 .. Len(Sinks) :
              /\ Sinks[i] \in Required
              /\ Reached(granted[1].envelope, Sinks[i])
              /\ granted[1].envelope \notin released
              => complete /\ i < sink
        /\ complete => \A i \in 1 .. sink - 1 :
              Sinks[i] \in Required => Reached(granted[1].envelope, Sinks[i])
        /\ ~complete => \A i \in 1 .. Len(Sinks) : Sinks[i] \in Required => i < sink

PipelineIInv ==
    /\ OneLookupPerSensor
    /\ IsFiniteSet(DOMAIN lookups)
    /\ TaskShape
    /\ PendingCounted
    /\ PlacesApart
    /\ DecisionsOnTheWay
    /\ DecisionsFollowChain
    /\ DedupKnows
    /\ FanOutKnows
    /\ DuplicateWasStored
    /\ StoredTwiceOnlyIfReleased
-----------------------------------------------------------------------------
(***************************************************************************)
(* The operations of the cache, the stage and the pipeline.                *)
(***************************************************************************)
LEMMA WithoutKeeps ==
    ASSUME cache \in Seq(Entry), NEW s
    PROVE  Without(s) \in Seq(Entry) /\ Range(Without(s)) \subseteq Range(cache)
<1>1. CASE \E i \in DOMAIN cache : cache[i].sensor = s
  <2> DEFINE at == CHOOSE i \in DOMAIN cache : cache[i].sensor = s
  <2>1. at \in DOMAIN cache
    BY <1>1
  <2> HIDE DEF at
  <2>2. at \in 1 .. Len(cache)
    BY <2>1, LenProperties
  <2>3. Without(s) = RemoveAt(cache, at)
    BY <1>1 DEF Without, at
  <2> QED BY <2>2, <2>3, RemoveKeepsApart
<1>2. CASE ~\E i \in DOMAIN cache : cache[i].sensor = s
  BY <1>2 DEF Without
<1> QED BY <1>1, <1>2

\* cached() adds nothing to what is cached.
LEMMA TouchKeeps ==
    ASSUME cache \in Seq(Entry), lapsed \in SUBSET Sensor, NEW s \in Sensor,
           TouchCache(s)
    PROVE  /\ cache' \in Seq(Entry)
           /\ lapsed' \in SUBSET Sensor
           /\ Range(cache') \subseteq Range(cache)
<1>1. Without(s) \in Seq(Entry) /\ Range(Without(s)) \subseteq Range(cache)
  BY WithoutKeeps
<1>2. lapsed' \in SUBSET Sensor
  BY DEF TouchCache
<1>3. CASE Live(s)
  <2> DEFINE e == [sensor |-> s, allowed |-> CachedAllow(s)]
  <2>1. e \in Range(cache)
    <3>1. CASE CachedAllow(s)
      <4>1. [sensor |-> s, allowed |-> TRUE] \in Range(cache)
        BY <3>1 DEF CachedAllow
      <4>2. CachedAllow(s) = TRUE
        BY <3>1, Zenon DEF CachedAllow
      <4> QED BY <4>1, <4>2, Zenon
    <3>2. CASE ~CachedAllow(s)
      <4>1. PICK c \in Range(cache) : c.sensor = s
        BY <1>3 DEF Live
      <4>2. c \in Entry
        BY RangeOfSeq
      <4>3. c.allowed \in BOOLEAN /\ c = [sensor |-> c.sensor, allowed |-> c.allowed]
        BY <4>2, Zenon DEF Entry
      <4>4. c.allowed = FALSE
        BY <3>2, <4>1, <4>3, Zenon DEF CachedAllow
      <4>5. CachedAllow(s) = FALSE
        <5>1. CachedAllow(s) \in BOOLEAN
          BY DEF CachedAllow
        <5> QED BY <3>2, <5>1
      <4> QED BY <4>1, <4>3, <4>4, <4>5, Zenon
    <3> QED BY <3>1, <3>2
  <2>2. e \in Entry
    BY <2>1, RangeOfSeq
  <2>3. cache' = Append(Without(s), e)
    BY <1>3 DEF TouchCache
  <2> HIDE DEF e
  <2>4. cache' \in Seq(Entry) /\ Range(cache') = Range(Without(s)) \cup {e}
    BY <1>1, <2>2, <2>3, AppendKeepsApart
  <2> QED BY <1>1, <1>2, <2>1, <2>4
<1>4. CASE ~Live(s)
  BY <1>1, <1>2, <1>4 DEF TouchCache
<1> QED BY <1>3, <1>4

\* store() caches this decision and nothing else.
LEMMA StoreKeeps ==
    ASSUME cache \in Seq(Entry), lapsed \in SUBSET Sensor, NEW s \in Sensor,
           NEW b \in BOOLEAN, StoreDecision(s, b)
    PROVE  /\ cache' \in Seq(Entry)
           /\ lapsed' \in SUBSET Sensor
           /\ Range(cache') \subseteq Range(cache) \cup {[sensor |-> s, allowed |-> b]}
<1> DEFINE others == Without(s)
           kept   == IF Len(others) = CacheCapacity THEN Tail(others) ELSE others
           e      == [sensor |-> s, allowed |-> b]
<1>1. others \in Seq(Entry) /\ Range(others) \subseteq Range(cache)
  BY WithoutKeeps
<1>2. kept \in Seq(Entry) /\ Range(kept) \subseteq Range(cache)
  <2> HIDE DEF others
  <2>1. CASE Len(others) = CacheCapacity
    <3>1. others # <<>>
      BY <2>1, CpsConstants, EmptySeq
    <3> QED BY <1>1, <2>1, <3>1, TailKeepsApart
  <2> QED BY <1>1, <2>1
<1>3. e \in Entry
  BY DEF Entry
<1>4. cache' = Append(kept, e) /\ lapsed' \subseteq lapsed
  BY DEF StoreDecision
<1> HIDE DEF kept, e, others
<1>5. cache' \in Seq(Entry) /\ Range(cache') = Range(kept) \cup {e}
  BY <1>2, <1>3, <1>4, AppendKeepsApart
<1> QED BY <1>2, <1>4, <1>5 DEF e

\* start_queued() moves the oldest waiting sensors to the running lookups, up
\* to the limit.
LEMMA StartKeeps ==
    ASSUME NEW w \in Seq(Sensor), IsInjective(w), NEW running,
           DOMAIN running \subseteq Sensor, IsFiniteSet(DOMAIN running),
           Range(w) \cap DOMAIN running = {},
           StartQueued(w, running)
    PROVE  /\ queued' \in Seq(Sensor) /\ IsInjective(queued')
           /\ IsFiniteSet(DOMAIN lookups')
           /\ Range(queued') \cup DOMAIN lookups' = Range(w) \cup DOMAIN running
           /\ Range(queued') \cap DOMAIN lookups' = {}
           /\ Cardinality(DOMAIN lookups') <= MaxConcurrent
           /\ queued' # <<>> => Cardinality(DOMAIN lookups') = MaxConcurrent
           /\ lookups' = [s \in DOMAIN lookups' |-> lookups'[s]]
           /\ \A s \in DOMAIN lookups' :
                 \/ lookups'[s] = "start"
                 \/ s \in DOMAIN running /\ lookups'[s] = running[s]
<1>1. PICK n \in 0 .. Len(w) :
          /\ n = Len(w) \/ Cardinality(DOMAIN running) + n = MaxConcurrent
          /\ Cardinality(DOMAIN running) + n <= MaxConcurrent
          /\ queued' = SubSeq(w, n + 1, Len(w))
          /\ lookups' = [s \in DOMAIN running \cup Range(SubSeq(w, 1, n)) |->
                            IF s \in Range(SubSeq(w, 1, n)) THEN "start"
                            ELSE running[s]]
  BY DEF StartQueued
<1> DEFINE before == SubSeq(w, 1, n)
           after  == SubSeq(w, n + 1, Len(w))
<1>2. /\ after \in Seq(Sensor) /\ Len(after) = Len(w) - n
      /\ before \in Seq(Sensor) /\ Len(before) = n
      /\ Range(before) \cup Range(after) = Range(w)
      /\ IsInjective(before) /\ IsInjective(after)
      /\ Range(before) \cap Range(after) = {}
  BY SuffixKeepsApart
<1>3. queued' = after /\ DOMAIN lookups' = DOMAIN running \cup Range(before)
  BY <1>1
<1>4. \A s \in DOMAIN lookups' : lookups'[s] = IF s \in Range(before) THEN "start"
                                             ELSE running[s]
  BY <1>1
<1>5. lookups' = [s \in DOMAIN lookups' |-> lookups'[s]]
  BY <1>1
<1> HIDE DEF before, after
<1>6. IsFiniteSet(Range(before)) /\ Cardinality(Range(before)) = n
  BY <1>2, ApartCounts
<1>7. DOMAIN running \cap Range(before) = {}
  BY <1>2
<1>8. /\ IsFiniteSet(DOMAIN lookups')
      /\ Cardinality(DOMAIN lookups') = Cardinality(DOMAIN running) + n
  <2>1. /\ IsFiniteSet(DOMAIN running \cup Range(before))
        /\ Cardinality(DOMAIN running \cup Range(before)) =
              Cardinality(DOMAIN running) + Cardinality(Range(before))
              - Cardinality(DOMAIN running \cap Range(before))
    BY <1>6, FS_Union
  <2>2. Cardinality(DOMAIN running \cap Range(before)) = 0
    BY <1>7, FS_EmptySet
  <2>3. Cardinality(DOMAIN running) \in Nat
    BY FS_CardinalityType
  <2> QED BY <1>3, <1>6, <2>1, <2>2, <2>3
<1>9. queued' # <<>> => n # Len(w)
  <2>1. Len(w) \in Nat
    BY LenProperties
  <2>2. n = Len(w) => Len(after) = 0
    BY <1>2, <2>1
  <2> QED BY <1>2, <1>3, <2>2, EmptySeq
<1>10. Range(queued') \cap DOMAIN lookups' = {}
  BY <1>2, <1>3
<1> QED BY <1>1, <1>2, <1>3, <1>4, <1>5, <1>8, <1>9, <1>10

LEMMA SettleKeeps ==
    ASSUME DOMAIN settled \in SUBSET Message, settled \in [DOMAIN settled -> Fate],
           NEW ms \in SUBSET Message, NEW fate \in Fate, Settle(ms, fate)
    PROVE  /\ DOMAIN settled' = DOMAIN settled \cup ms
           /\ DOMAIN settled' \in SUBSET Message
           /\ settled' \in [DOMAIN settled' -> Fate]
           /\ \A m \in ms : settled'[m] = fate
           /\ \A m \in DOMAIN settled' : m \notin ms => settled'[m] = settled[m]
  BY DEF Settle

LEMMA SettleDomain ==
    ASSUME NEW ms, NEW fate, Settle(ms, fate)
    PROVE  DOMAIN settled' = DOMAIN settled \cup ms
  BY DEF Settle

LEMMA PrunedKeeps ==
    ASSUME order \in Seq(Envelope), IsInjective(order), NEW ids \in Pruned(order)
    PROVE  /\ ids \in Seq(Envelope) /\ IsInjective(ids)
           /\ Range(ids) \subseteq Range(order)
<1>1. PICK n \in 0 .. Len(order) : ids = SubSeq(order, n + 1, Len(order))
  BY DEF Pruned
<1>2. LET after == SubSeq(order, n + 1, Len(order))
      IN  /\ after \in Seq(Envelope) /\ IsInjective(after)
          /\ Range(after) \subseteq Range(order)
  BY SuffixKeepsApart
<1> QED BY <1>1, <1>2

\* insert() with its eviction keeps the id it inserts.
LEMMA InsertKeeps ==
    ASSUME NEW ids \in Seq(Envelope), IsInjective(ids), NEW e \in Envelope,
           e \notin Range(ids),
           NEW kept,
           kept = LET inserted == Append(ids, e)
                  IN  IF Len(inserted) > DedupCapacity THEN Tail(inserted)
                                                       ELSE inserted
    PROVE  /\ kept \in Seq(Envelope) /\ IsInjective(kept)
           /\ e \in Range(kept)
           /\ Range(kept) \subseteq Range(ids) \cup {e}
<1> DEFINE inserted == Append(ids, e)
<1>1. /\ inserted \in Seq(Envelope) /\ IsInjective(inserted)
      /\ Range(inserted) = Range(ids) \cup {e}
  BY AppendKeepsApart
<1>2. /\ inserted # <<>> /\ Len(inserted) = Len(ids) + 1 /\ Len(ids) \in Nat
      /\ Len(ids) # 0 => inserted[1] = ids[1] /\ 1 \in DOMAIN ids
  BY AppendProperties, LenProperties
<1> HIDE DEF inserted
<1>3. CASE Len(inserted) > DedupCapacity
  <2>1. kept = Tail(inserted)
    BY <1>3 DEF inserted
  <2>2. /\ kept \in Seq(Envelope) /\ IsInjective(kept)
        /\ Range(inserted) = {inserted[1]} \cup Range(kept)
    <3>1. LET t == Tail(inserted)
          IN  /\ t \in Seq(Envelope) /\ IsInjective(t)
              /\ Range(inserted) = {inserted[1]} \cup Range(t)
      BY <1>1, <1>2, TailKeepsApart
    <3> QED BY <2>1, <3>1
  <2>3. Len(ids) # 0
    BY <1>2, <1>3, PipelineConstants
  <2>4. inserted[1] \in Range(ids)
    BY <1>2, <2>3 DEF Range
  <2> QED BY <1>1, <2>2, <2>4
<1>4. CASE ~(Len(inserted) > DedupCapacity)
  BY <1>1, <1>4 DEF inserted
<1> QED BY <1>3, <1>4

\* forget() removes the id and nothing else.
LEMMA ForgottenKeeps ==
    ASSUME order \in Seq(Envelope), IsInjective(order), NEW id
    PROVE  /\ Forgotten(id) \in Seq(Envelope) /\ IsInjective(Forgotten(id))
           /\ Range(Forgotten(id)) = Range(order) \ {id}
<1>1. CASE id \in Range(order)
  <2> DEFINE at == CHOOSE i \in DOMAIN order : order[i] = id
  <2>1. at \in DOMAIN order /\ order[at] = id
    BY <1>1 DEF Range
  <2> HIDE DEF at
  <2>2. at \in 1 .. Len(order)
    BY <2>1, LenProperties
  <2>3. Forgotten(id) = RemoveAt(order, at)
    BY <1>1 DEF Forgotten, at
  <2> QED BY <2>1, <2>2, <2>3, RemoveKeepsApart
<1>2. CASE id \notin Range(order)
  BY <1>2 DEF Forgotten
<1> QED BY <1>1, <1>2

LEMMA FirstWaiting ==
    ASSUME NEW q \in Seq(Message), q # <<>>
    PROVE  /\ q[1] \in Message /\ q[1] \in Range(q)
           /\ q[1].envelope \in Envelope /\ Sender(q[1]) \in Sensor
<1>1. q[1] \in Message /\ q[1] \in Range(q)
  BY TailKeepsApart
<1> QED BY <1>1, StageConstants DEF Message, Sender

\* A sequence of at most one message holds what its first is.
LEMMA OneWaiting ==
    ASSUME NEW q \in Seq(Message), q # <<>>, Len(q) <= 1
    PROVE  Range(q) = {q[1]}
<1>1. Len(q) \in Nat \ {0} /\ DOMAIN q = 1 .. Len(q)
  BY LenProperties, EmptySeq
<1>2. DOMAIN q = {1}
  BY <1>1
<1> QED BY <1>2 DEF Range
-----------------------------------------------------------------------------
(***************************************************************************)
(* The task: types and shape.                                              *)
(***************************************************************************)
TaskTyped ==
    /\ ingress \in Seq(Message)
    /\ arrivals \in Nat
    /\ ppc \in {"run", "admit", "full", "accept", "deliver", "backoff", "ended"}
    /\ waiting \in Seq(Message)
    /\ granted \in Seq(Message)
    /\ sink \in 1 .. Len(Sinks) + 1
    /\ order \in Seq(Envelope)
    /\ stale \in SUBSET Envelope
    /\ delivered \in [Range(Sinks) -> Seq(Message)]
    /\ DOMAIN settled \in SUBSET Message
    /\ settled \in [DOMAIN settled -> Fate]
    /\ released \in SUBSET Envelope

Flags ==
    /\ stopping \in BOOLEAN
    /\ senders \in BOOLEAN
    /\ complete \in BOOLEAN

LEMMA FlagsStep ==
    ASSUME Flags, PipelineNext PROVE Flags'
<1>1. stopping' = stopping \/ stopping' = TRUE
  BY DEF PipelineNext, PipelineTask, Around, Ingest, SendersGone, ShutdownTriggered,
     Receive, AdmitDecided, AdmitParked, AdmitOverflow, GiveUpHeld, Resolve,
     AcceptDuplicate, AcceptNew, SinkAccepts, SinkFails, BackoffEnds,
     BackoffInterrupted, FanOutDone, TtlLapses, RunEnds, pvars, inputVars
<1>2. senders' = senders \/ senders' = FALSE
  BY DEF PipelineNext, PipelineTask, Around, Ingest, SendersGone, ShutdownTriggered,
     Receive, AdmitDecided, AdmitParked, AdmitOverflow, GiveUpHeld, Resolve,
     AcceptDuplicate, AcceptNew, SinkAccepts, SinkFails, BackoffEnds,
     BackoffInterrupted, FanOutDone, TtlLapses, RunEnds, pvars, inputVars
<1>3. complete' = complete \/ complete' = TRUE \/ complete' = FALSE
  BY DEF PipelineNext, PipelineTask, Around, Ingest, SendersGone, ShutdownTriggered,
     Receive, AdmitDecided, AdmitParked, AdmitOverflow, GiveUpHeld, Resolve,
     AcceptDuplicate, AcceptNew, SinkAccepts, SinkFails, BackoffEnds,
     BackoffInterrupted, FanOutDone, TtlLapses, RunEnds, pvars, taskVars
<1> QED BY ONLY Flags, <1>1, <1>2, <1>3 DEF Flags

\* The end of one granted message.
LEMMA NextGrantedKeeps ==
    ASSUME granted \in Seq(Message), waiting \in Seq(Message), granted # <<>>,
           Len(waiting) <= 1, NextGranted, waiting' = waiting
    PROVE  /\ granted' \in Seq(Message)
           /\ Range(granted) = {granted[1]} \cup Range(granted')
           /\ IsInjective(granted) => IsInjective(granted')
                                      /\ granted[1] \notin Range(granted')
           /\ ppc' \in {"run", "admit", "accept"}
           /\ TaskShape'
<1>1. granted' = Tail(granted)
  BY DEF NextGranted
<1>2. /\ granted' \in Seq(Message)
      /\ Range(granted) = {granted[1]} \cup Range(granted')
      /\ IsInjective(granted) => IsInjective(granted')
                                 /\ granted[1] \notin Range(granted')
  BY <1>1, TailKeepsApart
<1>3. ppc' = IF granted' = <<>> THEN IF waiting = <<>> THEN "run" ELSE "admit"
             ELSE "accept"
  BY <1>1 DEF NextGranted, NextStop
<1> QED BY <1>2, <1>3 DEF TaskShape

LEMMA TaskStep ==
    ASSUME PipelineIInv, PipelineNext PROVE TaskTyped' /\ TaskShape'
<1>1. TaskTyped /\ TaskShape /\ IsInjective(order)
  BY DEF PipelineIInv, OneLookupPerSensor, PipelineTypeOK, TaskTyped, DedupKnows
<1>2. ASSUME NEW envelope \in Envelope, Ingest(envelope)
      PROVE  TaskTyped' /\ TaskShape'
  <2>1. [arrival |-> arrivals, envelope |-> envelope] \in Message
    BY <1>1 DEF TaskTyped, Message
  <2>2. ingress' \in Seq(Message)
    BY <1>1, <1>2, <2>1, AppendKeepsApart DEF TaskTyped, Ingest
  <2> QED BY <1>1, <1>2, <2>2 DEF TaskTyped, TaskShape, Ingest, taskVars, dedupVars
<1>3. CASE SendersGone \/ ShutdownTriggered
  BY <1>1, <1>3 DEF TaskTyped, TaskShape, SendersGone, ShutdownTriggered, taskVars,
     dedupVars
<1>4. CASE Receive
  <2> DEFINE m == Head(ingress)
  <2>1. m \in Message /\ ingress' \in Seq(Message)
    BY <1>1, <1>4, TailKeepsApart DEF TaskTyped, Receive
  <2>2. CASE m.envelope \in Authentic
    <3>1. waiting' = <<m>> /\ ppc' = "admit" /\ settled' = settled
      BY <1>4, <2>2 DEF Receive
    <3> HIDE DEF m
    <3>2. <<m>> \in Seq(Message) /\ Len(<<m>>) = 1 /\ <<m>> # <<>>
      BY <2>1
    <3> QED BY <1>1, <1>4, <2>1, <3>1, <3>2 DEF TaskTyped, TaskShape, Receive, dedupVars
  <2>3. CASE m.envelope \notin Authentic
    <3>1. Settle({m}, "invalid") /\ UNCHANGED <<waiting, ppc>>
      BY <1>4, <2>3 DEF Receive
    <3>2. DOMAIN settled' \in SUBSET Message /\ settled' \in [DOMAIN settled' -> Fate]
      BY <1>1, <2>1, <3>1, SettleKeeps DEF TaskTyped, Fate
    <3> QED BY <1>1, <1>4, <2>1, <3>1, <3>2 DEF TaskTyped, TaskShape, Receive, dedupVars
  <2> QED BY <2>2, <2>3
<1>5. CASE AdmitDecided
  <2>1. waiting \in Seq(Message) /\ waiting # <<>> /\ granted = <<>>
    BY <1>1, <1>5 DEF TaskTyped, TaskShape, AdmitDecided
  <2>2. waiting[1] \in Message
    BY <2>1, FirstWaiting
  <2>3. CASE CachedAllow(Sender(waiting[1]))
    BY <1>1, <1>5, <2>1, <2>3 DEF TaskTyped, TaskShape, AdmitDecided, inputVars, dedupVars
  <2>4. CASE ~CachedAllow(Sender(waiting[1]))
    <3>1. Settle({waiting[1]}, "denied") /\ ppc' = "run" /\ granted' = granted
      BY <1>5, <2>4 DEF AdmitDecided
    <3>2. DOMAIN settled' \in SUBSET Message /\ settled' \in [DOMAIN settled' -> Fate]
      BY <1>1, <2>2, <3>1, SettleKeeps DEF TaskTyped, Fate
    <3> QED BY <1>1, <1>5, <2>1, <3>1, <3>2 DEF TaskTyped, TaskShape, AdmitDecided,
            inputVars, dedupVars
  <2> QED BY <2>3, <2>4
<1>6. CASE AdmitParked
  BY <1>1, <1>6 DEF TaskTyped, TaskShape, AdmitParked, inputVars, dedupVars
<1>7. CASE AdmitOverflow
  BY <1>1, <1>7 DEF TaskTyped, TaskShape, AdmitOverflow, inputVars, dedupVars
<1>8. CASE GiveUpHeld
  <2>1. waiting[1] \in Message
    BY <1>1, <1>8, FirstWaiting DEF TaskTyped, TaskShape, GiveUpHeld
  <2>2. DOMAIN settled' \in SUBSET Message /\ settled' \in [DOMAIN settled' -> Fate]
    BY <1>1, <1>8, <2>1, SettleKeeps DEF TaskTyped, Fate, GiveUpHeld
  <2> QED BY <1>1, <1>8, <2>2 DEF TaskTyped, TaskShape, GiveUpHeld, inputVars, dedupVars
<1>9. ASSUME NEW sensor \in DOMAIN lookups, Resolve(sensor)
      PROVE  TaskTyped' /\ TaskShape'
  <2>1. parked[sensor] \in Seq(Message) /\ parked[sensor] # <<>>
    BY DEF PipelineIInv, OneLookupPerSensor, PipelineTypeOK, StageTypeOK
  <2>2. granted = <<>>
    BY <1>1, <1>9 DEF TaskTyped, TaskShape, Resolve
  <2>3. CASE lookups[sensor] = "allow"
    BY <1>1, <1>9, <2>1, <2>3 DEF TaskTyped, TaskShape, Resolve, inputVars, dedupVars
  <2>4. CASE lookups[sensor] # "allow"
    <3> DEFINE fate == IF lookups[sensor] = "deny" THEN "denied" ELSE "undecided"
    <3>1. /\ Settle(Range(parked[sensor]), fate)
          /\ ppc' = IF waiting = <<>> THEN "run" ELSE "admit"
          /\ granted' = granted
      BY <1>9, <2>4 DEF Resolve, NextStop
    <3>2. Range(parked[sensor]) \in SUBSET Message /\ fate \in Fate
      BY <2>1, RangeOfSeq DEF Fate
    <3>3. DOMAIN settled' \in SUBSET Message /\ settled' \in [DOMAIN settled' -> Fate]
      BY <1>1, <3>1, <3>2, SettleKeeps DEF TaskTyped
    <3> QED BY <1>1, <1>9, <2>2, <3>1, <3>3 DEF TaskTyped, TaskShape, Resolve, inputVars,
            dedupVars
  <2> QED BY <2>3, <2>4
<1>10. CASE AcceptDuplicate
  <2>1. granted # <<>> /\ Len(waiting) <= 1 /\ granted[1] \in Message
    BY <1>1, <1>10, FirstWaiting DEF TaskTyped, TaskShape, AcceptDuplicate
  <2>2. granted' \in Seq(Message) /\ ppc' \in {"run", "admit", "accept"} /\ TaskShape'
    BY <1>1, <1>10, <2>1, NextGrantedKeeps DEF TaskTyped, AcceptDuplicate
  <2>3. DOMAIN settled' \in SUBSET Message /\ settled' \in [DOMAIN settled' -> Fate]
    BY <1>1, <1>10, <2>1, SettleKeeps DEF TaskTyped, Fate, AcceptDuplicate
  <2>4. order' \in Seq(Envelope) /\ released' \in SUBSET Envelope
    <3>1. PICK ids \in Pruned(order) :
              /\ order' = ids
              /\ released' = released \cup (Range(order) \ Range(ids))
      BY <1>10 DEF AcceptDuplicate
    <3>2. Range(order) \subseteq Envelope
      BY <1>1, RangeOfSeq DEF TaskTyped
    <3> QED BY <1>1, <3>1, <3>2, PrunedKeeps DEF TaskTyped
  <2>5. stale' \in SUBSET Envelope
    BY <1>1, <1>10 DEF TaskTyped, AcceptDuplicate
  <2> QED BY <1>1, <1>10, <2>2, <2>3, <2>4, <2>5 DEF TaskTyped, AcceptDuplicate, inputVars
<1>11. CASE AcceptNew
  <2>1. granted # <<>> /\ granted[1].envelope \in Envelope
    BY <1>1, <1>11, FirstWaiting DEF TaskTyped, TaskShape, AcceptNew
  <2>2. order' \in Seq(Envelope) /\ released' \in SUBSET Envelope
    <3>1. PICK ids \in Pruned(order) :
              /\ granted[1].envelope \notin Range(ids)
              /\ order' = LET inserted == Append(ids, granted[1].envelope)
                          IN  IF Len(inserted) > DedupCapacity THEN Tail(inserted)
                                                               ELSE inserted
              /\ released' = released \cup (Range(order) \ Range(ids))
                                     \cup (Range(ids) \ Range(order'))
      BY <1>11 DEF AcceptNew
    <3>2. Range(order) \subseteq Envelope
      BY <1>1, RangeOfSeq DEF TaskTyped
    <3>3. ids \in Seq(Envelope) /\ IsInjective(ids) /\ Range(ids) \subseteq Range(order)
      BY <1>1, PrunedKeeps DEF TaskTyped
    <3>4. order' \in Seq(Envelope)
      BY <2>1, <3>1, <3>3, InsertKeeps
    <3> QED BY <1>1, <3>1, <3>2, <3>3, <3>4 DEF TaskTyped
  <2>3. stale' \in SUBSET Envelope
    BY <1>1, <1>11 DEF TaskTyped, AcceptNew
  <2>4. sink' \in 1 .. Len(Sinks) + 1
    BY <1>11, PipelineConstants, LenProperties DEF AcceptNew
  <2> QED BY <1>1, <1>11, <2>1, <2>2, <2>3, <2>4 DEF TaskTyped, TaskShape, AcceptNew, inputVars
<1>12. CASE SinkAccepts
  <2>1. granted # <<>> /\ granted[1] \in Message
    BY <1>1, <1>12, FirstWaiting DEF TaskTyped, TaskShape, SinkAccepts
  <2>2. Len(Sinks) \in Nat /\ sink \in 1 .. Len(Sinks)
    BY <1>1, <1>12, PipelineConstants, LenProperties DEF TaskTyped, SinkAccepts
  <2>3. Sinks[sink] \in Range(Sinks)
    BY <2>2, PipelineConstants, ElementOfSeq
  <2>4. Append(delivered[Sinks[sink]], granted[1]) \in Seq(Message)
    BY <1>1, <2>1, <2>3, AppendKeepsApart DEF TaskTyped
  <2>5. delivered' \in [Range(Sinks) -> Seq(Message)]
    BY <1>1, <1>12, <2>3, <2>4 DEF TaskTyped, SinkAccepts
  <2>6. sink' \in 1 .. Len(Sinks) + 1
    BY <1>12, <2>2 DEF SinkAccepts
  <2> QED BY <1>1, <1>12, <2>5, <2>6 DEF TaskTyped, TaskShape, SinkAccepts, inputVars, dedupVars
<1>13. CASE SinkFails
  <2>1. Len(Sinks) \in Nat /\ sink \in 1 .. Len(Sinks)
    BY <1>1, <1>13, PipelineConstants, LenProperties DEF TaskTyped, SinkFails
  <2> QED BY <1>1, <1>13, <2>1 DEF TaskTyped, TaskShape, SinkFails, inputVars, dedupVars
<1>14. CASE BackoffEnds
  BY <1>1, <1>14 DEF TaskTyped, TaskShape, BackoffEnds, inputVars, dedupVars
<1>15. CASE BackoffInterrupted
  <2>1. Len(Sinks) \in Nat /\ sink \in 1 .. Len(Sinks)
    BY <1>1, <1>15, PipelineConstants, LenProperties DEF TaskTyped, TaskShape, BackoffInterrupted
  <2> QED BY <1>1, <1>15, <2>1 DEF TaskTyped, TaskShape, BackoffInterrupted, inputVars, dedupVars
<1>16. CASE FanOutDone
  <2>1. granted # <<>> /\ Len(waiting) <= 1 /\ granted[1] \in Message
    BY <1>1, <1>16, FirstWaiting DEF TaskTyped, TaskShape, FanOutDone
  <2>2. granted' \in Seq(Message) /\ ppc' \in {"run", "admit", "accept"} /\ TaskShape'
    BY <1>1, <1>16, <2>1, NextGrantedKeeps DEF TaskTyped, FanOutDone
  <2>3. DOMAIN settled' \in SUBSET Message /\ settled' \in [DOMAIN settled' -> Fate]
    <3> DEFINE fate == IF complete THEN "stored" ELSE "abandoned"
    <3>1. fate \in Fate /\ Settle({granted[1]}, fate)
      BY <1>16 DEF Fate, FanOutDone
    <3> QED BY <1>1, <2>1, <3>1, SettleKeeps DEF TaskTyped
  <2>4. order' \in Seq(Envelope)
    BY <1>1, <1>16, ForgottenKeeps DEF TaskTyped, FanOutDone
  <2>5. stale' \in SUBSET Envelope
    BY <1>1, <1>16 DEF TaskTyped, FanOutDone
  <2>6. sink' \in 1 .. Len(Sinks) + 1
    BY <1>16, PipelineConstants, LenProperties DEF FanOutDone
  <2> QED BY <1>1, <1>16, <2>2, <2>3, <2>4, <2>5, <2>6 DEF TaskTyped, FanOutDone, inputVars
<1>17. CASE RunEnds
  <2>1. ParkedSet \in SUBSET Message
    BY RangeOfSeq DEF ParkedSet, PipelineIInv, OneLookupPerSensor, PipelineTypeOK, StageTypeOK
  <2>2. Range(ingress) \cup ParkedSet \in SUBSET Message
    BY <1>1, <2>1, RangeOfSeq DEF TaskTyped
  <2>3. Settle(Range(ingress) \cup ParkedSet, "abandoned")
    BY <1>17 DEF RunEnds, ParkedSet
  <2>4. DOMAIN settled' \in SUBSET Message /\ settled' \in [DOMAIN settled' -> Fate]
    BY <1>1, <2>2, <2>3, SettleKeeps DEF TaskTyped, Fate
  <2> QED BY <1>1, <1>17, <2>4 DEF TaskTyped, TaskShape, RunEnds, inputVars, dedupVars
<1>18. CASE Around
  BY <1>1, <1>18 DEF TaskTyped, TaskShape, Around, inputVars, taskVars, dedupVars
<1>19. CASE TtlLapses
  <2>1. Range(order) \subseteq Envelope
    BY <1>1, RangeOfSeq DEF TaskTyped
  <2>2. stale' \in SUBSET Envelope
    BY <1>1, <1>19, <2>1 DEF TaskTyped, TtlLapses, Range
  <2> QED BY <1>1, <1>19, <2>2 DEF TaskTyped, TaskShape, TtlLapses, inputVars, taskVars
<1>20. CASE UNCHANGED pvars
  BY <1>1, <1>20 DEF TaskTyped, TaskShape, pvars, inputVars, taskVars, dedupVars
<1> QED BY <1>2, <1>3, <1>4, <1>5, <1>6, <1>7, <1>8, <1>9, <1>10, <1>11, <1>12,
       <1>13, <1>14, <1>15, <1>16, <1>17, <1>18, <1>19, <1>20
       DEF PipelineNext, PipelineTask
-----------------------------------------------------------------------------
(***************************************************************************)
(* The stage: one lookup per sensor, and a counter that counts.            *)
(***************************************************************************)
StageSound ==
    /\ AuthTypeOK
    /\ StageTypeOK
    /\ DOMAIN parked = Range(queued) \cup DOMAIN lookups
    /\ Range(queued) \cap DOMAIN lookups = {}
    /\ IsInjective(queued)
    /\ IsFiniteSet(DOMAIN lookups)
    /\ Cardinality(DOMAIN lookups) <= MaxConcurrent
    /\ queued # <<>> => Cardinality(DOMAIN lookups) = MaxConcurrent
    /\ \A s \in DOMAIN parked :
          parked[s] # <<>> /\ \A m \in Range(parked[s]) : Sender(m) = s
    /\ PendingCounted

LEMMA ParkedMembers ==
    \A m : m \in ParkedSet <=> \E s \in DOMAIN parked : m \in Range(parked[s])
  BY DEF ParkedSet

LEMMA JoinKeeps ==
    ASSUME StageSound, NEW m \in Message, m \notin ParkedSet, Join(m)
    PROVE  StageSound' /\ ParkedSet' = ParkedSet \cup {m}
<1> DEFINE s == Sender(m)
           q == Append(parked[s], m)
<1>1. s \in Sensor /\ s \in DOMAIN parked
  BY StageConstants DEF Message, Sender, Join
<1>2. parked[s] \in Seq(Message) /\ IsInjective(parked[s]) /\ m \notin Range(parked[s])
  BY <1>1, ParkedMembers DEF StageSound, StageTypeOK, PendingCounted
<1>3. /\ q \in Seq(Message) /\ IsInjective(q) /\ q # <<>>
      /\ Range(q) = Range(parked[s]) \cup {m}
  BY <1>2, AppendKeepsApart, AppendProperties
<1>4. /\ DOMAIN parked' = DOMAIN parked
      /\ parked' = [t \in DOMAIN parked |-> IF t = s THEN q ELSE parked[t]]
  BY <1>1 DEF Join, StageSound, StageTypeOK
<1> HIDE DEF q
<1>5. ParkedSet' = ParkedSet \cup {m}
  <2>1. \A x : x \in ParkedSet' <=> \E t \in DOMAIN parked' : x \in Range(parked'[t])
    BY DEF ParkedSet
  <2> QED BY <1>1, <1>3, <1>4, <2>1, ParkedMembers
<1>6. PendingCounted'
  <2>1. /\ IsFiniteSet(ParkedSet')
        /\ Cardinality(ParkedSet') = Cardinality(ParkedSet) + 1
    BY <1>5, FS_AddElement DEF StageSound, PendingCounted
  <2>2. \A t \in DOMAIN parked' : IsInjective(parked'[t])
    BY <1>3, <1>4 DEF StageSound, PendingCounted
  <2>3. pendingCount' = pendingCount + 1
    BY DEF Join
  <2> QED BY <2>1, <2>2, <2>3 DEF StageSound, PendingCounted
<1>7. StageTypeOK'
  BY <1>3, <1>4 DEF Join, StageSound, StageTypeOK
<1>8. AuthTypeOK'
  <2>1. cache' \in Seq(Entry) /\ lapsed' \in SUBSET Sensor
    BY <1>1, TouchKeeps DEF StageSound, AuthTypeOK, Join
  <2> QED BY <2>1 DEF StageSound, AuthTypeOK, Join
<1>9. \A t \in DOMAIN parked' :
          parked'[t] # <<>> /\ \A x \in Range(parked'[t]) : Sender(x) = t
  BY <1>3, <1>4 DEF StageSound
<1> QED BY <1>4, <1>5, <1>6, <1>7, <1>8, <1>9 DEF StageSound, Join

LEMMA ParkKeeps ==
    ASSUME StageSound, NEW m \in Message, m \notin ParkedSet, Park(m)
    PROVE  /\ StageSound' /\ ParkedSet' = ParkedSet \cup {m}
           /\ \A t \in DOMAIN lookups' :
                 \/ lookups'[t] = "start"
                 \/ t \in DOMAIN lookups /\ lookups'[t] = lookups[t]
<1> DEFINE s == Sender(m)
           w == Append(queued, s)
<1>1. s \in Sensor /\ s \notin DOMAIN parked
  BY StageConstants DEF Message, Sender, Park
<1>2. w \in Seq(Sensor) /\ IsInjective(w) /\ Range(w) = Range(queued) \cup {s}
  BY <1>1, AppendKeepsApart DEF StageSound, StageTypeOK
<1>3. StartQueued(w, lookups)
  BY DEF Park
<1> HIDE DEF w
<1>4. /\ queued' \in Seq(Sensor) /\ IsInjective(queued')
      /\ IsFiniteSet(DOMAIN lookups')
      /\ Range(queued') \cup DOMAIN lookups' = Range(w) \cup DOMAIN lookups
      /\ Range(queued') \cap DOMAIN lookups' = {}
      /\ Cardinality(DOMAIN lookups') <= MaxConcurrent
      /\ queued' # <<>> => Cardinality(DOMAIN lookups') = MaxConcurrent
      /\ lookups' = [t \in DOMAIN lookups' |-> lookups'[t]]
      /\ \A t \in DOMAIN lookups' :
            \/ lookups'[t] = "start"
            \/ t \in DOMAIN lookups /\ lookups'[t] = lookups[t]
  <2>1. Range(w) \cap DOMAIN lookups = {} /\ DOMAIN lookups \subseteq Sensor
    BY <1>1, <1>2 DEF StageSound, AuthTypeOK
  <2>2. IsFiniteSet(DOMAIN lookups)
    BY DEF StageSound
  <2> QED BY <1>2, <1>3, <2>1, <2>2, StartKeeps
<1> DEFINE q == <<m>>
<1>5. /\ q \in Seq(Message) /\ IsInjective(q) /\ q # <<>> /\ Range(q) = {m}
  <2>1. q \in Seq(Message) /\ DOMAIN q = {1} /\ q[1] = m /\ q # <<>>
    OBVIOUS
  <2> QED BY <2>1 DEF IsInjective, Range
<1>6. parked' = [t \in DOMAIN parked \cup {s} |-> IF t = s THEN q ELSE parked[t]]
  BY DEF Park
<1> HIDE DEF q
<1>7. DOMAIN parked' = DOMAIN parked \cup {s}
  BY <1>6
<1>8. ParkedSet' = ParkedSet \cup {m}
  <2>1. \A x : x \in ParkedSet' <=> \E t \in DOMAIN parked' : x \in Range(parked'[t])
    BY DEF ParkedSet
  <2>2. /\ s \in DOMAIN parked' /\ Range(parked'[s]) = {m}
        /\ \A t \in DOMAIN parked : t \in DOMAIN parked' /\ parked'[t] = parked[t]
    BY <1>1, <1>5, <1>6
  <2>3. \A t \in DOMAIN parked' : t = s \/ t \in DOMAIN parked
    BY <1>7
  <2> QED BY <2>1, <2>2, <2>3, ParkedMembers
<1>9. PendingCounted'
  <2>1. /\ IsFiniteSet(ParkedSet')
        /\ Cardinality(ParkedSet') = Cardinality(ParkedSet) + 1
    BY <1>8, FS_AddElement DEF StageSound, PendingCounted
  <2>2. \A t \in DOMAIN parked' : IsInjective(parked'[t])
    BY <1>5, <1>6, <1>7 DEF StageSound, PendingCounted
  <2>3. pendingCount' = pendingCount + 1
    BY DEF Park
  <2> QED BY <2>1, <2>2, <2>3 DEF StageSound, PendingCounted
<1>10. StageTypeOK'
  <2>1. parked' \in [DOMAIN parked' -> Seq(Message)] /\ DOMAIN parked' \in SUBSET Sensor
    BY <1>1, <1>5, <1>6, <1>7 DEF StageSound, StageTypeOK
  <2>2. pendingCount' \in Nat
    BY DEF StageSound, StageTypeOK, Park
  <2> QED BY <1>4, <2>1, <2>2 DEF StageTypeOK
<1>11. AuthTypeOK'
  <2>1. cache' \in Seq(Entry) /\ lapsed' \in SUBSET Sensor
    BY <1>1, TouchKeeps DEF StageSound, AuthTypeOK, Park
  <2>2. DOMAIN lookups' \in SUBSET Sensor
    BY <1>1, <1>2, <1>4 DEF StageSound, StageTypeOK
  <2>3. \A t \in DOMAIN lookups' :
            lookups'[t] \in {"start", "query", "found", "absent"} \cup Decision
    BY <1>4 DEF StageSound, AuthTypeOK
  <2>4. lookups' \in [DOMAIN lookups' -> {"start", "query", "found", "absent"} \cup Decision]
    BY <1>4, <2>3
  <2> QED BY <2>1, <2>2, <2>4 DEF StageSound, AuthTypeOK, Park
<1>12. \A t \in DOMAIN parked' :
          parked'[t] # <<>> /\ \A x \in Range(parked'[t]) : Sender(x) = t
  BY <1>5, <1>6, <1>7 DEF StageSound
<1>13. DOMAIN parked' = Range(queued') \cup DOMAIN lookups'
  BY <1>2, <1>4, <1>7 DEF StageSound
<1> QED BY <1>4, <1>8, <1>9, <1>10, <1>11, <1>12, <1>13 DEF StageSound

LEMMA ResolveKeeps ==
    ASSUME StageSound, NEW sensor \in DOMAIN lookups, TakeResolution(sensor)
    PROVE  /\ StageSound'
           /\ Range(parked[sensor]) \subseteq ParkedSet
           /\ ParkedSet' = ParkedSet \ Range(parked[sensor])
           /\ \A t \in DOMAIN lookups' :
                 \/ lookups'[t] = "start"
                 \/ t \in DOMAIN lookups /\ lookups'[t] = lookups[t]
<1> DEFINE running == Restrict(lookups, DOMAIN lookups \ {sensor})
<1>1. /\ sensor \in DOMAIN parked /\ parked[sensor] \in Seq(Message)
      /\ sensor \notin Range(queued)
  BY DEF StageSound, StageTypeOK
<1>2. /\ DOMAIN running = DOMAIN lookups \ {sensor}
      /\ \A t \in DOMAIN running : running[t] = lookups[t]
  BY DEF Restrict
<1>3. StartQueued(queued, running)
  BY DEF TakeResolution
<1> HIDE DEF running
<1>4. /\ queued' \in Seq(Sensor) /\ IsInjective(queued')
      /\ IsFiniteSet(DOMAIN lookups')
      /\ Range(queued') \cup DOMAIN lookups' = Range(queued) \cup DOMAIN running
      /\ Range(queued') \cap DOMAIN lookups' = {}
      /\ Cardinality(DOMAIN lookups') <= MaxConcurrent
      /\ queued' # <<>> => Cardinality(DOMAIN lookups') = MaxConcurrent
      /\ lookups' = [t \in DOMAIN lookups' |-> lookups'[t]]
      /\ \A t \in DOMAIN lookups' :
            \/ lookups'[t] = "start"
            \/ t \in DOMAIN running /\ lookups'[t] = running[t]
  <2>1. /\ Range(queued) \cap DOMAIN running = {} /\ DOMAIN running \subseteq Sensor
        /\ queued \in Seq(Sensor) /\ IsInjective(queued)
    BY <1>2 DEF StageSound, AuthTypeOK, StageTypeOK
  <2>2. IsFiniteSet(DOMAIN running)
    BY <1>2, FS_RemoveElement DEF StageSound
  <2> QED BY <1>3, <2>1, <2>2, StartKeeps
<1>5. \A t \in DOMAIN lookups' :
          \/ lookups'[t] = "start"
          \/ t \in DOMAIN lookups /\ lookups'[t] = lookups[t]
  BY <1>2, <1>4
<1>6. /\ DOMAIN parked' = DOMAIN parked \ {sensor}
      /\ parked' = [t \in DOMAIN parked' |-> parked[t]]
  BY DEF TakeResolution, Restrict
<1>7. Range(parked[sensor]) \subseteq ParkedSet
  BY <1>1, ParkedMembers
<1>8. ParkedSet' = ParkedSet \ Range(parked[sensor])
  <2>1. \A x : x \in ParkedSet' <=> \E t \in DOMAIN parked' : x \in Range(parked'[t])
    BY DEF ParkedSet
  <2>2. \A t \in DOMAIN parked : t # sensor =>
            Range(parked[t]) \cap Range(parked[sensor]) = {}
    BY <1>1 DEF StageSound
  <2> QED BY <1>1, <1>6, <2>1, <2>2, ParkedMembers
<1>9. PendingCounted'
  <2>1. IsInjective(parked[sensor]) /\ IsFiniteSet(ParkedSet)
        /\ pendingCount = Cardinality(ParkedSet)
    BY <1>1 DEF StageSound, PendingCounted
  <2>2. Cardinality(Range(parked[sensor])) = Len(parked[sensor])
    BY <1>1, <2>1, ApartCounts
  <2>3. /\ IsFiniteSet(ParkedSet \ Range(parked[sensor]))
        /\ Cardinality(ParkedSet \ Range(parked[sensor]))
              = Cardinality(ParkedSet) - Cardinality(ParkedSet \cap Range(parked[sensor]))
    BY <2>1, FS_Difference
  <2>4. ParkedSet \cap Range(parked[sensor]) = Range(parked[sensor])
    BY <1>7
  <2>5. \A t \in DOMAIN parked' : IsInjective(parked'[t])
    BY <1>6 DEF StageSound, PendingCounted
  <2>6. pendingCount' = pendingCount - Len(parked[sensor])
    BY DEF TakeResolution
  <2> QED BY <1>8, <2>1, <2>2, <2>3, <2>4, <2>5, <2>6 DEF PendingCounted
<1>10. StageTypeOK'
  <2>1. parked' \in [DOMAIN parked' -> Seq(Message)] /\ DOMAIN parked' \in SUBSET Sensor
    BY <1>6 DEF StageSound, StageTypeOK
  <2>2. pendingCount' \in Nat
    BY <1>9, FS_CardinalityType DEF PendingCounted
  <2> QED BY <1>4, <2>1, <2>2 DEF StageTypeOK
<1>11. AuthTypeOK'
  <2>1. DOMAIN lookups' \in SUBSET Sensor
    BY <1>2, <1>4 DEF StageSound, StageTypeOK
  <2>2. \A t \in DOMAIN lookups' :
            lookups'[t] \in {"start", "query", "found", "absent"} \cup Decision
    BY <1>5 DEF StageSound, AuthTypeOK
  <2>3. lookups' \in [DOMAIN lookups' -> {"start", "query", "found", "absent"} \cup Decision]
    BY <1>4, <2>2
  <2> QED BY <2>1, <2>3 DEF StageSound, AuthTypeOK, TakeResolution
<1>12. \A t \in DOMAIN parked' :
          parked'[t] # <<>> /\ \A x \in Range(parked'[t]) : Sender(x) = t
  BY <1>6 DEF StageSound
<1>13. DOMAIN parked' = Range(queued') \cup DOMAIN lookups'
  BY <1>1, <1>2, <1>4, <1>6 DEF StageSound
<1> QED BY <1>4, <1>5, <1>7, <1>8, <1>9, <1>10, <1>11, <1>12, <1>13 DEF StageSound

\* The pipeline's own stops in the stage.
LEMMA TouchOnlyKeeps ==
    ASSUME StageSound, NEW s \in Sensor, TouchCache(s),
           UNCHANGED <<lookups, chainSaid, stageVars>>
    PROVE  StageSound'
<1>1. cache' \in Seq(Entry) /\ lapsed' \in SUBSET Sensor
  BY TouchKeeps DEF StageSound, AuthTypeOK
<1>2. AuthTypeOK'
  BY <1>1 DEF StageSound, AuthTypeOK
<1> QED BY <1>2 DEF StageSound, StageTypeOK, PendingCounted, ParkedSet, stageVars

LEMMA StageUnchanged ==
    ASSUME StageSound, UNCHANGED <<authVars, stageVars>> PROVE StageSound'
<1>1. AuthTypeOK' /\ StageTypeOK'
  BY DEF StageSound, AuthTypeOK, StageTypeOK, authVars, stageVars
<1> QED BY <1>1 DEF StageSound, PendingCounted, ParkedSet, authVars, stageVars

LEMMA DropKeeps ==
    ASSUME StageSound, DropStage PROVE StageSound' /\ ParkedSet' = {}
<1>1. DOMAIN lookups' = {} /\ DOMAIN parked' = {} /\ queued' = <<>> /\ pendingCount' = 0
  BY DEF DropStage
<1>2. Range(queued') = {} /\ IsInjective(queued')
  BY <1>1 DEF Range, IsInjective
<1>3. ParkedSet' = {}
  BY <1>1 DEF ParkedSet
<1>4. IsFiniteSet({}) /\ Cardinality({}) = 0
  BY FS_EmptySet
<1>5. PendingCounted'
  BY <1>1, <1>3, <1>4 DEF PendingCounted
<1>6. AuthTypeOK' /\ StageTypeOK'
  BY <1>1 DEF StageSound, AuthTypeOK, StageTypeOK, DropStage
<1> QED BY <1>1, <1>2, <1>3, <1>4, <1>5, <1>6, StageConstants DEF StageSound

\* A lookup moves on; the stage keeps its shape.
LEMMA LookupKeeps ==
    ASSUME StageSound, LookupStep, UNCHANGED stageVars
    PROVE  StageSound' /\ DOMAIN lookups' = DOMAIN lookups
<1>1. PICK sensor \in DOMAIN lookups :
          \/ LookupHits(sensor) \/ LookupMisses(sensor) \/ LookupReads(sensor)
          \/ LookupStores(sensor) \/ LookupFails(sensor)
  BY DEF LookupStep
<1> DEFINE Stop == {"start", "query", "found", "absent"} \cup Decision
<1>2. sensor \in Sensor
  BY DEF StageSound, AuthTypeOK
<1>3. \E to \in Stop : lookups' = [lookups EXCEPT ![sensor] = to]
  <2>1. CASE LookupHits(sensor) \/ LookupMisses(sensor) \/ LookupFails(sensor)
             \/ LookupStores(sensor)
    BY <2>1 DEF LookupHits, LookupMisses, LookupFails, LookupStores, Advance, Decision
  <2>2. CASE LookupReads(sensor)
    BY <2>2, WalkDecides DEF LookupReads, Advance, Decision
  <2> QED BY <1>1, <2>1, <2>2
<1>4. DOMAIN lookups' = DOMAIN lookups /\ lookups' \in [DOMAIN lookups' -> Stop]
  BY <1>3 DEF StageSound, AuthTypeOK
<1>5. chainSaid' \in SUBSET (Sensor \X BOOLEAN)
  <2>1. CASE LookupReads(sensor)
    <3>1. PICK r \in LookupResult : chainSaid' = chainSaid \cup {<<sensor, r.below>>}
      BY <2>1 DEF LookupReads
    <3>2. r.below \in BOOLEAN
      BY WalkDecides
    <3>3. <<sensor, r.below>> \in Sensor \X BOOLEAN
      BY <1>2, <3>2
    <3> QED BY <3>1, <3>3 DEF StageSound, AuthTypeOK
  <2>2. CASE chainSaid' = chainSaid
    BY <2>2 DEF StageSound, AuthTypeOK
  <2> QED BY <1>1, <2>1, <2>2 DEF LookupHits, LookupMisses, LookupStores, LookupFails
<1>6. cache' \in Seq(Entry) /\ lapsed' \in SUBSET Sensor
  <2>1. cache \in Seq(Entry) /\ lapsed \in SUBSET Sensor
    BY DEF StageSound, AuthTypeOK
  <2>2. CASE LookupHits(sensor) \/ LookupMisses(sensor)
    BY <1>2, <2>1, <2>2, TouchKeeps DEF LookupHits, LookupMisses
  <2>3. CASE LookupStores(sensor)
    <3>1. (lookups[sensor] = "found") \in BOOLEAN
      OBVIOUS
    <3>2. StoreDecision(sensor, lookups[sensor] = "found")
      BY <2>3 DEF LookupStores
    <3> HIDE <2>3
    <3> QED BY <1>2, <2>1, <3>1, <3>2, StoreKeeps
  <2>4. CASE LookupReads(sensor) \/ LookupFails(sensor)
    BY <2>1, <2>4 DEF LookupReads, LookupFails
  <2> QED BY <1>1, <2>2, <2>3, <2>4
<1>7. AuthTypeOK'
  BY <1>4, <1>5, <1>6 DEF AuthTypeOK, StageSound
<1> HIDE DEF Stop
<1>8. StageTypeOK' /\ ParkedSet' = ParkedSet /\ PendingCounted'
  BY DEF StageSound, StageTypeOK, PendingCounted, ParkedSet, stageVars
<1> QED BY <1>4, <1>7, <1>8 DEF StageSound, stageVars

LEMMA DenialLapsesKeeps ==
    ASSUME StageSound, NEW s \in Sensor, DenialLapses(s), UNCHANGED stageVars
    PROVE  StageSound' /\ lookups' = lookups
<1>1. AuthTypeOK'
  BY DEF StageSound, AuthTypeOK, DenialLapses
<1> QED BY <1>1 DEF StageSound, StageTypeOK, PendingCounted, ParkedSet, stageVars, DenialLapses

LEMMA StageStep ==
    ASSUME PipelineIInv, PipelineNext PROVE StageSound'
<1>1. StageSound /\ TaskTyped /\ TaskShape
  BY DEF PipelineIInv, OneLookupPerSensor, PipelineTypeOK, StageSound, TaskTyped
<1>2. CASE UNCHANGED <<authVars, stageVars>>
  BY <1>1, <1>2, StageUnchanged
<1>3. CASE AdmitDecided \/ AdmitOverflow
  <2>1. Sender(waiting[1]) \in Sensor
    BY <1>1, <1>3, FirstWaiting DEF TaskTyped, TaskShape, AdmitDecided, AdmitOverflow
  <2> QED BY <1>1, <1>3, <2>1, TouchOnlyKeeps DEF AdmitDecided, AdmitOverflow
<1>4. CASE AdmitParked
  <2>1. waiting[1] \in Message /\ waiting[1] \in Range(waiting)
    BY <1>1, <1>4, FirstWaiting DEF TaskTyped, TaskShape, AdmitParked
  <2>2. waiting[1] \notin ParkedSet
    BY <2>1 DEF PipelineIInv, PlacesApart, Disjoint
  <2> QED BY <1>1, <1>4, <2>1, <2>2, JoinKeeps, ParkKeeps DEF AdmitParked
<1>5. ASSUME NEW sensor \in DOMAIN lookups, Resolve(sensor) PROVE StageSound'
  BY <1>1, <1>5, ResolveKeeps DEF Resolve
<1>6. CASE RunEnds
  BY <1>1, <1>6, DropKeeps DEF RunEnds
<1>7. CASE Around
  BY <1>1, <1>7, LookupKeeps, DenialLapsesKeeps DEF Around
<1>8. ASSUME NEW envelope \in Envelope, Ingest(envelope)
      PROVE  UNCHANGED <<authVars, stageVars>>
  BY <1>8 DEF Ingest
<1>9. \/ SendersGone \/ ShutdownTriggered \/ Receive \/ GiveUpHeld \/ AcceptDuplicate
      \/ AcceptNew \/ SinkAccepts \/ SinkFails \/ BackoffEnds \/ BackoffInterrupted
      \/ FanOutDone \/ TtlLapses \/ UNCHANGED pvars
      => UNCHANGED <<authVars, stageVars>>
  BY DEF SendersGone, ShutdownTriggered, Receive, GiveUpHeld, AcceptDuplicate,
     AcceptNew, SinkAccepts, SinkFails, BackoffEnds, BackoffInterrupted, FanOutDone,
     TtlLapses, pvars
<1> QED BY <1>2, <1>3, <1>4, <1>5, <1>6, <1>7, <1>8, <1>9 DEF PipelineNext, PipelineTask

\* A held message always has a lookup to wait for.
LEMMA FullStep ==
    ASSUME PipelineIInv, PipelineNext, ppc' = "full" PROVE DOMAIN lookups' # {}
<1>1. CASE AdmitOverflow
  <2>1. pendingCount >= MaxPending /\ lookups' = lookups
    BY <1>1 DEF AdmitOverflow, Full
  <2>2. ParkedSet # {}
    BY <2>1, FS_EmptySet, StageConstants DEF PipelineIInv, PendingCounted
  <2>3. DOMAIN parked # {}
    BY <2>2, ParkedMembers
  <2>4. CASE queued = <<>>
    BY <2>1, <2>3, <2>4 DEF PipelineIInv, OneLookupPerSensor, Range
  <2>5. CASE queued # <<>>
    BY <2>1, <2>5, FS_EmptySet, StageConstants DEF PipelineIInv, OneLookupPerSensor
  <2> QED BY <2>4, <2>5
<1>2. CASE ppc = "full" /\ lookups' = lookups
  BY <1>2 DEF PipelineIInv, OneLookupPerSensor
<1>3. CASE ppc = "full" /\ Around
  <2>1. StageSound
    BY DEF PipelineIInv, OneLookupPerSensor, PipelineTypeOK, StageSound
  <2>2. DOMAIN lookups' = DOMAIN lookups
    BY <1>3, <2>1, LookupKeeps, DenialLapsesKeeps DEF Around
  <2> QED BY <1>3, <2>2 DEF PipelineIInv, OneLookupPerSensor
<1>4. ASSUME NEW envelope \in Envelope, Ingest(envelope)
      PROVE  ppc = "full" /\ lookups' = lookups
  BY <1>4 DEF Ingest, taskVars, authVars
<1>5. SendersGone \/ ShutdownTriggered \/ TtlLapses \/ UNCHANGED pvars
      => ppc = "full" /\ lookups' = lookups
  BY DEF SendersGone, ShutdownTriggered, TtlLapses, pvars, taskVars, authVars
<1>6. Around => ppc = "full"
  BY DEF Around, taskVars
<1>7. ~(AdmitDecided \/ AdmitParked \/ GiveUpHeld
        \/ AcceptNew \/ SinkAccepts \/ SinkFails \/ BackoffEnds
        \/ BackoffInterrupted \/ RunEnds)
  BY DEF AdmitDecided, AdmitParked, GiveUpHeld, AcceptNew, SinkAccepts,
     SinkFails, BackoffEnds, BackoffInterrupted, RunEnds
<1>8. ~(AcceptDuplicate \/ FanOutDone)
  BY DEF AcceptDuplicate, FanOutDone, NextGranted, NextStop
<1>9. ~(\E sensor \in DOMAIN lookups : Resolve(sensor))
  BY DEF Resolve, NextStop
<1>10. ~Receive
  BY DEF Receive
<1> QED BY <1>1, <1>2, <1>3, <1>4, <1>5, <1>6, <1>7, <1>8, <1>9, <1>10
       DEF PipelineNext, PipelineTask
-----------------------------------------------------------------------------
(***************************************************************************)
(* The places of a message.                                                *)
(***************************************************************************)
LEMMA PlacesClose ==
    ASSUME PlacesApart, IsInjective(ingress'), IsInjective(granted'),
           Disjoint(Range(ingress'), Range(waiting'), ParkedSet', Range(granted'),
                    DOMAIN settled'),
           Arrived' = Arrived, arrivals' = arrivals
    PROVE  PlacesApart'
  BY DEF PlacesApart

LEMMA PlacesUnchanged ==
    ASSUME PlacesApart, UNCHANGED <<ingress, waiting, parked, granted, arrivals>>,
           DOMAIN settled' = DOMAIN settled
    PROVE  PlacesApart'
<1>1. ParkedSet' = ParkedSet
  BY DEF ParkedSet
<1>2. Arrived' = Arrived
  BY <1>1 DEF Arrived
<1> QED BY <1>1, <1>2 DEF PlacesApart

LEMMA PlacesStep ==
    ASSUME PipelineIInv, PipelineNext PROVE PlacesApart'
<1>1. StageSound /\ TaskTyped /\ TaskShape /\ PlacesApart
  BY DEF PipelineIInv, OneLookupPerSensor, PipelineTypeOK, StageSound, TaskTyped
<1>2. /\ ingress \in Seq(Message) /\ waiting \in Seq(Message) /\ granted \in Seq(Message)
      /\ DOMAIN settled \in SUBSET Message /\ settled \in [DOMAIN settled -> Fate]
      /\ arrivals \in Nat /\ Len(waiting) <= 1
  BY <1>1 DEF TaskTyped, TaskShape
<1>3. /\ Disjoint(Range(ingress), Range(waiting), ParkedSet, Range(granted), DOMAIN settled)
      /\ IsInjective(ingress) /\ IsInjective(granted)
      /\ \A m, n \in Arrived : m.arrival = n.arrival => m = n
      /\ {m.arrival : m \in Arrived} = 0 .. arrivals - 1
  BY <1>1 DEF PlacesApart
<1>4. Range(<<>>) = {} /\ IsInjective(<<>>)
  BY DEF Range, IsInjective
<1>5. waiting = <<>> => Range(waiting) = {}
  BY <1>4
<1>6. granted = <<>> => Range(granted) = {}
  BY <1>4
<1>7. ASSUME NEW envelope \in Envelope, Ingest(envelope) PROVE PlacesApart'
  <2> DEFINE m == [arrival |-> arrivals, envelope |-> envelope]
  <2>1. m \in Message /\ m.arrival = arrivals
    BY <1>2 DEF Message
  <2>2. /\ ingress' = Append(ingress, m) /\ arrivals' = arrivals + 1
        /\ UNCHANGED <<waiting, parked, granted, settled>>
    BY <1>7 DEF Ingest, taskVars, stageVars
  <2> HIDE DEF m
  <2>3. m \notin Arrived
    <3> SUFFICES ASSUME m \in Arrived PROVE FALSE
      OBVIOUS
    <3>1. m.arrival \in 0 .. arrivals - 1
      BY <1>3
    <3> QED BY <1>2, <2>1, <3>1
  <2>4. Range(ingress') = Range(ingress) \cup {m} /\ IsInjective(ingress')
    BY <1>2, <1>3, <2>1, <2>2, <2>3, AppendKeepsApart DEF Arrived
  <2>5. ParkedSet' = ParkedSet
    BY <2>2 DEF ParkedSet
  <2>6. Arrived' = Arrived \cup {m}
    BY <2>2, <2>4, <2>5 DEF Arrived
  <2>7. \A n \in Arrived : n.arrival # arrivals
    <3> TAKE n \in Arrived
    <3>1. n.arrival \in 0 .. arrivals - 1
      BY <1>3
    <3> QED BY <1>2, <3>1
  <2>8. \A k, n \in Arrived' : k.arrival = n.arrival => k = n
    BY <1>3, <2>1, <2>6, <2>7
  <2>9. {n.arrival : n \in Arrived'} = 0 .. arrivals' - 1
    <3>1. {n.arrival : n \in Arrived'} = {n.arrival : n \in Arrived} \cup {arrivals}
      BY <2>1, <2>6
    <3>2. 0 .. arrivals' - 1 = (0 .. arrivals - 1) \cup {arrivals}
      BY <1>2, <2>2
    <3> QED BY <1>3, <3>1, <3>2
  <2>10. Disjoint(Range(ingress'), Range(waiting'), ParkedSet', Range(granted'),
                  DOMAIN settled')
    BY <1>3, <2>2, <2>3, <2>4, <2>5 DEF Disjoint, Arrived
  <2> QED BY <1>3, <2>2, <2>4, <2>8, <2>9, <2>10 DEF PlacesApart
<1>8. CASE Receive
  <2> DEFINE h == ingress[1]
  <2>1. ingress # <<>> /\ waiting = <<>>
    BY <1>1, <1>8 DEF Receive, TaskShape
  <2>2. /\ h \in Message /\ Head(ingress) = h
        /\ Range(ingress) = {h} \cup Range(ingress')
        /\ IsInjective(ingress') /\ h \notin Range(ingress')
    <3>1. ingress' = Tail(ingress)
      BY <1>8 DEF Receive
    <3> QED BY <1>2, <1>3, <2>1, <3>1, TailKeepsApart
  <2>3. UNCHANGED <<parked, granted, arrivals>> /\ ParkedSet' = ParkedSet
    BY <1>8 DEF Receive, stageVars, ParkedSet
  <2>4. \/ Range(waiting') = {h} /\ settled' = settled
        \/ Range(waiting') = {} /\ DOMAIN settled' = DOMAIN settled \cup {h}
    <3>1. CASE h.envelope \in Authentic
      <4>1. waiting' = <<h>> /\ settled' = settled
        BY <1>8, <2>2, <3>1 DEF Receive
      <4> HIDE DEF h
      <4>2. Range(<<h>>) = {h}
        BY DEF Range
      <4> QED BY <4>1, <4>2
    <3>2. CASE h.envelope \notin Authentic
      <4>1. waiting' = waiting /\ Settle({h}, "invalid")
        BY <1>8, <2>2, <3>2 DEF Receive
      <4> QED BY <1>5, <2>1, <4>1, SettleDomain
    <3> QED BY <3>1, <3>2
  <2> HIDE DEF h
  <2>5. Arrived' = Arrived
    BY <1>5, <2>1, <2>2, <2>3, <2>4 DEF Arrived
  <2>6. Disjoint(Range(ingress'), Range(waiting'), ParkedSet', Range(granted'),
                 DOMAIN settled')
    BY <1>3, <1>5, <2>1, <2>2, <2>3, <2>4 DEF Disjoint
  <2> QED BY <1>1, <1>3, <2>2, <2>3, <2>5, <2>6, PlacesClose
<1>9. CASE AdmitDecided \/ GiveUpHeld
  <2> DEFINE w == waiting[1]
  <2>1. waiting # <<>> /\ granted = <<>>
    BY <1>1, <1>9 DEF AdmitDecided, GiveUpHeld, TaskShape
  <2>2. Range(waiting) = {w} /\ w \in Message
    BY <1>2, <2>1, OneWaiting, FirstWaiting
  <2>3. /\ waiting' = <<>> /\ Range(waiting') = {} /\ ParkedSet' = ParkedSet
        /\ UNCHANGED <<ingress, parked, arrivals>>
    BY <1>4, <1>9 DEF AdmitDecided, GiveUpHeld, stageVars, inputVars, ParkedSet
  <2>4. \/ granted' = waiting /\ settled' = settled
        \/ granted' = granted /\ DOMAIN settled' = DOMAIN settled \cup {w}
    <3>1. \/ granted' = waiting /\ settled' = settled
          \/ granted' = granted /\ Settle({w}, "denied")
          \/ granted' = granted /\ Settle({w}, "abandoned")
      BY <1>9 DEF AdmitDecided, GiveUpHeld
    <3> QED BY <3>1, SettleDomain
  <2>5. IsInjective(waiting)
    BY <1>2, LenProperties DEF IsInjective
  <2> HIDE DEF w
  <2>6. Arrived' = Arrived
    BY <1>6, <2>1, <2>2, <2>3, <2>4 DEF Arrived
  <2>7. Disjoint(Range(ingress'), Range(waiting'), ParkedSet', Range(granted'),
                 DOMAIN settled')
    BY <1>3, <1>6, <2>1, <2>2, <2>3, <2>4 DEF Disjoint
  <2>8. IsInjective(granted') /\ IsInjective(ingress')
    BY <1>3, <2>3, <2>4, <2>5
  <2> QED BY <1>1, <2>3, <2>6, <2>7, <2>8, PlacesClose
<1>10. CASE AdmitParked
  <2> DEFINE w == waiting[1]
  <2>1. waiting # <<>>
    BY <1>1, <1>10 DEF AdmitParked, TaskShape
  <2>2. Range(waiting) = {w} /\ w \in Message
    BY <1>2, <2>1, OneWaiting, FirstWaiting
  <2>3. w \notin ParkedSet
    BY <1>3, <2>2 DEF Disjoint
  <2>4. ParkedSet' = ParkedSet \cup {w}
    BY <1>1, <1>10, <2>2, <2>3, JoinKeeps, ParkKeeps DEF AdmitParked
  <2>5. /\ Range(waiting') = {}
        /\ UNCHANGED <<ingress, arrivals, granted, settled>>
    BY <1>4, <1>10 DEF AdmitParked, inputVars
  <2> HIDE DEF w
  <2>6. Arrived' = Arrived
    BY <2>2, <2>4, <2>5 DEF Arrived
  <2>7. Disjoint(Range(ingress'), Range(waiting'), ParkedSet', Range(granted'),
                 DOMAIN settled')
    BY <1>3, <2>2, <2>4, <2>5 DEF Disjoint
  <2> QED BY <1>1, <1>3, <2>5, <2>6, <2>7, PlacesClose
<1>11. ASSUME NEW sensor \in DOMAIN lookups, Resolve(sensor) PROVE PlacesApart'
  <2> DEFINE r == parked[sensor]
  <2>1. r \in Seq(Message) /\ IsInjective(r) /\ Range(r) \in SUBSET Message
    BY <1>1, RangeOfSeq DEF StageSound, StageTypeOK, PendingCounted
  <2>2. Range(r) \subseteq ParkedSet /\ ParkedSet' = ParkedSet \ Range(r)
    BY <1>1, <1>11, ResolveKeeps DEF Resolve
  <2>3. granted = <<>>
    BY <1>1, <1>11 DEF Resolve, TaskShape
  <2>4. UNCHANGED <<ingress, waiting, arrivals>>
    BY <1>11 DEF Resolve, inputVars
  <2>5. \/ granted' = r /\ settled' = settled
        \/ granted' = granted /\ DOMAIN settled' = DOMAIN settled \cup Range(r)
    <3>1. \/ granted' = r /\ settled' = settled
          \/ granted' = granted /\ Settle(Range(r), "denied")
          \/ granted' = granted /\ Settle(Range(r), "undecided")
      BY <1>11 DEF Resolve
    <3> QED BY <3>1, SettleDomain
  <2> HIDE DEF r
  <2>6. Arrived' = Arrived
    BY <1>6, <2>2, <2>3, <2>4, <2>5 DEF Arrived
  <2>7. Disjoint(Range(ingress'), Range(waiting'), ParkedSet', Range(granted'),
                 DOMAIN settled')
    BY <1>3, <1>6, <2>2, <2>3, <2>4, <2>5 DEF Disjoint
  <2>8. IsInjective(granted') /\ IsInjective(ingress')
    BY <1>3, <2>1, <2>4, <2>5
  <2> QED BY <1>1, <2>4, <2>6, <2>7, <2>8, PlacesClose
<1>12. CASE AcceptDuplicate \/ FanOutDone
  <2> DEFINE g == granted[1]
  <2>1. granted # <<>>
    BY <1>1, <1>12 DEF AcceptDuplicate, FanOutDone, TaskShape
  <2>2. /\ UNCHANGED <<ingress, waiting, parked, arrivals>> /\ ParkedSet' = ParkedSet
        /\ NextGranted
    BY <1>12 DEF AcceptDuplicate, FanOutDone, stageVars, inputVars, ParkedSet
  <2>3. /\ Range(granted) = {g} \cup Range(granted')
        /\ IsInjective(granted') /\ g \notin Range(granted')
    BY <1>2, <1>3, <2>1, <2>2, NextGrantedKeeps
  <2>4. g \in Message
    BY <1>2, <2>1, FirstWaiting
  <2>5. DOMAIN settled' = DOMAIN settled \cup {g}
    <3>1. Settle({g}, "duplicate") \/ Settle({g}, "stored") \/ Settle({g}, "abandoned")
      BY <1>12 DEF AcceptDuplicate, FanOutDone
    <3> QED BY <3>1, SettleDomain
  <2> HIDE DEF g
  <2>6. Arrived' = Arrived
    BY <2>2, <2>3, <2>5 DEF Arrived
  <2>7. Disjoint(Range(ingress'), Range(waiting'), ParkedSet', Range(granted'),
                 DOMAIN settled')
    BY <1>3, <2>2, <2>3, <2>5 DEF Disjoint
  <2> QED BY <1>1, <1>3, <2>2, <2>3, <2>6, <2>7, PlacesClose
<1>13. CASE RunEnds
  <2>1. ParkedSet' = {}
    BY <1>1, <1>13, DropKeeps DEF RunEnds
  <2>2. Range(ingress') = {} /\ IsInjective(ingress') /\ UNCHANGED <<waiting, granted, arrivals>>
    BY <1>4, <1>13 DEF RunEnds
  <2>3. ParkedSet \in SUBSET Message /\ Range(ingress) \in SUBSET Message
    BY <1>1, <1>2, RangeOfSeq DEF ParkedSet, StageSound, StageTypeOK
  <2>4. Settle(Range(ingress) \cup ParkedSet, "abandoned")
    BY <1>13 DEF RunEnds, ParkedSet
  <2>5. DOMAIN settled' = DOMAIN settled \cup (Range(ingress) \cup ParkedSet)
    BY <2>4, SettleDomain
  <2>6. Arrived' = Arrived
    BY <2>1, <2>2, <2>5 DEF Arrived
  <2>7. Disjoint(Range(ingress'), Range(waiting'), ParkedSet', Range(granted'),
                 DOMAIN settled')
    BY <1>3, <2>1, <2>2, <2>5 DEF Disjoint
  <2> QED BY <1>1, <1>3, <2>2, <2>6, <2>7, PlacesClose
<1>14. \/ SendersGone \/ ShutdownTriggered \/ AdmitOverflow \/ AcceptNew \/ SinkAccepts
       \/ SinkFails \/ BackoffEnds \/ BackoffInterrupted \/ Around \/ TtlLapses
       \/ UNCHANGED pvars
       => UNCHANGED <<ingress, waiting, parked, granted, arrivals, settled>>
  BY DEF SendersGone, ShutdownTriggered, AdmitOverflow, AcceptNew, SinkAccepts, SinkFails,
     BackoffEnds, BackoffInterrupted, Around, TtlLapses, pvars, inputVars, taskVars,
     stageVars
<1>15. CASE UNCHANGED <<ingress, waiting, parked, granted, arrivals, settled>>
  BY <1>1, <1>15, PlacesUnchanged
<1> QED BY <1>7, <1>8, <1>9, <1>10, <1>11, <1>12, <1>13, <1>14, <1>15
       DEF PipelineNext, PipelineTask
-----------------------------------------------------------------------------
(***************************************************************************)
(* Decisions: the cache, the lookups and the messages they decide.         *)
(***************************************************************************)
CachedSaid == \A e \in Range(cache) : <<e.sensor, e.allowed>> \in chainSaid

LookupsSaid ==
    \A s \in DOMAIN lookups :
        /\ lookups[s] \in {"found", "allow"} => <<s, TRUE>> \in chainSaid
        /\ lookups[s] \in {"absent", "deny"} => <<s, FALSE>> \in chainSaid

MessagesSaid ==
    /\ \A m \in Range(waiting) \cup ParkedSet \cup Range(granted) :
          m.envelope \in Authentic
    /\ \A m \in Range(granted) : <<Sender(m), TRUE>> \in chainSaid

\* What admit() and authorize() take from the cache the chain said.
LEMMA LiveDecides ==
    ASSUME cache \in Seq(Entry), CachedSaid, NEW s, Live(s)
    PROVE  /\ CachedAllow(s) => <<s, TRUE>> \in chainSaid
           /\ ~CachedAllow(s) => <<s, FALSE>> \in chainSaid
<1>1. ASSUME CachedAllow(s) PROVE <<s, TRUE>> \in chainSaid
  <2> DEFINE e == [sensor |-> s, allowed |-> TRUE]
  <2>1. e \in Range(cache) /\ e.sensor = s /\ e.allowed = TRUE
    BY <1>1 DEF CachedAllow
  <2> HIDE DEF e
  <2> QED BY <2>1, Zenon DEF CachedSaid
<1>2. ASSUME ~CachedAllow(s) PROVE <<s, FALSE>> \in chainSaid
  <2>1. PICK c \in Range(cache) : c.sensor = s
    BY DEF Live
  <2>2. c \in Entry
    BY RangeOfSeq
  <2>3. c.allowed \in BOOLEAN /\ c = [sensor |-> c.sensor, allowed |-> c.allowed]
    BY <2>2, Zenon DEF Entry
  <2>4. c.allowed = FALSE
    BY <1>2, <2>1, <2>3, Zenon DEF CachedAllow
  <2> QED BY <2>1, <2>4, Zenon DEF CachedSaid
<1> QED BY <1>1, <1>2

LEMMA SaidGrows ==
    ASSUME PipelineNext PROVE chainSaid \subseteq chainSaid'
<1>1. CASE UNCHANGED chainSaid
  BY <1>1
<1>2. CASE LookupStep
  BY <1>2 DEF LookupStep, LookupHits, LookupMisses, LookupReads, LookupStores, LookupFails
<1>3. \A s \in Sensor : DenialLapses(s) => UNCHANGED chainSaid
  BY DEF DenialLapses
<1>4. \A e \in Envelope : Ingest(e) => UNCHANGED chainSaid
  BY DEF Ingest, authVars
<1>5. \A s \in DOMAIN lookups : Resolve(s) => UNCHANGED chainSaid
  BY DEF Resolve, TakeResolution
<1>6. \/ SendersGone \/ ShutdownTriggered \/ Receive \/ AdmitDecided \/ AdmitParked
      \/ AdmitOverflow \/ GiveUpHeld \/ AcceptDuplicate \/ AcceptNew \/ SinkAccepts
      \/ SinkFails \/ BackoffEnds \/ BackoffInterrupted \/ FanOutDone \/ RunEnds
      \/ TtlLapses \/ UNCHANGED pvars
      => UNCHANGED chainSaid
  BY DEF SendersGone, ShutdownTriggered, Receive, AdmitDecided, AdmitParked, Join, Park,
     AdmitOverflow, GiveUpHeld, AcceptDuplicate, AcceptNew, SinkAccepts, SinkFails,
     BackoffEnds, BackoffInterrupted, FanOutDone, RunEnds, DropStage, TtlLapses, pvars,
     authVars
<1> QED BY <1>1, <1>2, <1>3, <1>4, <1>5, <1>6 DEF PipelineNext, PipelineTask, Around

\* The steps of one lookup: what it takes from the cache or from the tree is
\* said before it is cached or joined.
LEMMA LookupSays ==
    ASSUME StageSound, CachedSaid, LookupsSaid, LookupStep
    PROVE  CachedSaid' /\ LookupsSaid'
<1>1. PICK sensor \in DOMAIN lookups :
          \/ LookupHits(sensor) \/ LookupMisses(sensor) \/ LookupReads(sensor)
          \/ LookupStores(sensor) \/ LookupFails(sensor)
  BY DEF LookupStep
<1>2. /\ sensor \in Sensor /\ cache \in Seq(Entry) /\ lapsed \in SUBSET Sensor
      /\ lookups \in [DOMAIN lookups -> {"start", "query", "found", "absent"} \cup Decision]
  BY DEF StageSound, AuthTypeOK
<1>3. ASSUME NEW to, lookups' = [lookups EXCEPT ![sensor] = to],
             chainSaid \subseteq chainSaid',
             to \in {"found", "allow"} => <<sensor, TRUE>> \in chainSaid',
             to \in {"absent", "deny"} => <<sensor, FALSE>> \in chainSaid'
      PROVE  LookupsSaid'
  <2>1. \A s \in DOMAIN lookups' :
            s \in DOMAIN lookups /\ lookups'[s] = IF s = sensor THEN to ELSE lookups[s]
    BY <1>2, <1>3
  <2> QED BY <1>3, <2>1 DEF LookupsSaid
<1>4. ASSUME Range(cache') \subseteq Range(cache), chainSaid \subseteq chainSaid'
      PROVE  CachedSaid'
  BY <1>4 DEF CachedSaid
<1>5. CASE LookupHits(sensor)
  <2> DEFINE to == IF CachedAllow(sensor) THEN "allow" ELSE "deny"
  <2>1. /\ lookups' = [lookups EXCEPT ![sensor] = to]
        /\ TouchCache(sensor) /\ chainSaid' = chainSaid /\ Live(sensor)
    BY <1>5 DEF LookupHits, Advance
  <2>2. /\ CachedAllow(sensor) => <<sensor, TRUE>> \in chainSaid
        /\ ~CachedAllow(sensor) => <<sensor, FALSE>> \in chainSaid
    BY <1>2, <2>1, LiveDecides
  <2>3. Range(cache') \subseteq Range(cache)
    BY <1>2, <2>1, TouchKeeps
  <2>4. /\ to \in {"found", "allow"} => <<sensor, TRUE>> \in chainSaid'
        /\ to \in {"absent", "deny"} => <<sensor, FALSE>> \in chainSaid'
    BY <2>1, <2>2
  <2> QED BY <1>3, <1>4, <2>1, <2>3, <2>4
<1>6. CASE LookupMisses(sensor)
  <2>1. /\ lookups' = [lookups EXCEPT ![sensor] = "query"]
        /\ TouchCache(sensor) /\ chainSaid' = chainSaid
    BY <1>6 DEF LookupMisses, Advance
  <2>2. Range(cache') \subseteq Range(cache)
    BY <1>2, <2>1, TouchKeeps
  <2> QED BY <1>3, <1>4, <2>1, <2>2
<1>7. CASE LookupReads(sensor)
  <2>1. PICK r \in LookupResult :
            /\ lookups' = [lookups EXCEPT ![sensor] = r.found]
            /\ chainSaid' = chainSaid \cup {<<sensor, r.below>>}
    BY <1>7 DEF LookupReads, Advance
  <2>2. /\ r.found \in {"found", "absent", "error"}
        /\ r.found = "found" => r.below = TRUE
        /\ r.found = "absent" => r.below = FALSE
    BY WalkDecides
  <2>3. /\ r.found = "found" => <<sensor, TRUE>> \in chainSaid'
        /\ r.found = "absent" => <<sensor, FALSE>> \in chainSaid'
    BY <2>1, <2>2, Zenon
  <2>4. /\ r.found \in {"found", "allow"} => <<sensor, TRUE>> \in chainSaid'
        /\ r.found \in {"absent", "deny"} => <<sensor, FALSE>> \in chainSaid'
        /\ chainSaid \subseteq chainSaid'
    BY <2>1, <2>2, <2>3
  <2>5. Range(cache') \subseteq Range(cache)
    BY <1>7 DEF LookupReads
  <2> QED BY <1>3, <1>4, <2>1, <2>4, <2>5
<1>8. CASE LookupStores(sensor)
  <2> DEFINE to == IF lookups[sensor] = "found" THEN "allow" ELSE "deny"
             b  == lookups[sensor] = "found"
             e  == [sensor |-> sensor, allowed |-> b]
  <2>1. /\ lookups' = [lookups EXCEPT ![sensor] = to] /\ chainSaid' = chainSaid
        /\ StoreDecision(sensor, b) /\ lookups[sensor] \in {"found", "absent"}
    BY <1>8 DEF LookupStores, Advance
  <2>2. /\ to \in {"found", "allow"} => <<sensor, TRUE>> \in chainSaid'
        /\ to \in {"absent", "deny"} => <<sensor, FALSE>> \in chainSaid'
    BY <2>1 DEF LookupsSaid
  <2>3. b \in BOOLEAN
    OBVIOUS
  <2>4. <<sensor, b>> \in chainSaid
    <3>1. CASE lookups[sensor] = "found"
      <4>1. <<sensor, TRUE>> \in chainSaid
        BY <3>1 DEF LookupsSaid
      <4>2. b = TRUE
        BY <3>1
      <4> HIDE DEF b
      <4> QED BY <4>1, <4>2, Zenon
    <3>2. CASE lookups[sensor] = "absent"
      <4>1. <<sensor, FALSE>> \in chainSaid
        BY <3>2 DEF LookupsSaid
      <4>2. b = FALSE
        BY <3>2
      <4> HIDE DEF b
      <4> QED BY <4>1, <4>2, Zenon
    <3> QED BY <2>1, <3>1, <3>2
  <2>5. lookups[sensor] = "found" => to = "allow"
    OBVIOUS
  <2> HIDE DEF b
  <2>6. Range(cache') \subseteq Range(cache) \cup {e}
    BY <1>2, <2>1, <2>3, StoreKeeps
  <2>7. e.sensor = sensor /\ e.allowed = b
    BY Zenon
  <2> HIDE DEF e
  <2>8. CachedSaid'
    <3> SUFFICES ASSUME NEW c \in Range(cache') PROVE <<c.sensor, c.allowed>> \in chainSaid'
      BY DEF CachedSaid
    <3>1. CASE c \in Range(cache)
      BY <2>1, <3>1 DEF CachedSaid
    <3>2. CASE c = e
      BY <2>1, <2>4, <2>7, <3>2, Zenon
    <3> QED BY <2>6, <3>1, <3>2
  <2>9. chainSaid \subseteq chainSaid'
    BY <2>1
  <2> HIDE DEF to
  <2> QED BY <1>3, <2>1, <2>2, <2>8, <2>9
<1>9. CASE LookupFails(sensor)
  <2>1. /\ lookups' = [lookups EXCEPT ![sensor] = "error"]
        /\ cache' = cache /\ chainSaid' = chainSaid
    BY <1>9 DEF LookupFails, Advance
  <2> QED BY <1>3, <1>4, <2>1
<1> QED BY <1>1, <1>5, <1>6, <1>7, <1>8, <1>9

LEMMA PolicyStep ==
    ASSUME PipelineIInv, PipelineNext PROVE CachedSaid' /\ LookupsSaid'
<1>1. StageSound /\ TaskTyped /\ TaskShape /\ CachedSaid /\ LookupsSaid
  BY DEF PipelineIInv, OneLookupPerSensor, PipelineTypeOK, StageSound, TaskTyped,
     DecisionsOnTheWay, CachedSaid, LookupsSaid
<1>2. cache \in Seq(Entry) /\ lapsed \in SUBSET Sensor
  BY <1>1 DEF StageSound, AuthTypeOK
<1>3. chainSaid \subseteq chainSaid'
  BY SaidGrows
<1>4. ASSUME Range(cache') \subseteq Range(cache),
             \A t \in DOMAIN lookups' :
                \/ lookups'[t] = "start"
                \/ t \in DOMAIN lookups /\ lookups'[t] = lookups[t]
      PROVE  CachedSaid' /\ LookupsSaid'
  <2>1. CachedSaid'
    BY <1>1, <1>3, <1>4 DEF CachedSaid
  <2>2. LookupsSaid'
    BY <1>1, <1>3, <1>4 DEF LookupsSaid
  <2> QED BY <2>1, <2>2
<1>5. CASE UNCHANGED <<cache, lookups>>
  BY <1>4, <1>5
<1>6. CASE AdmitDecided \/ AdmitOverflow
  <2>1. Sender(waiting[1]) \in Sensor
    BY <1>1, <1>6, FirstWaiting DEF TaskTyped, TaskShape, AdmitDecided, AdmitOverflow
  <2>2. TouchCache(Sender(waiting[1])) /\ lookups' = lookups
    BY <1>6 DEF AdmitDecided, AdmitOverflow
  <2>3. Range(cache') \subseteq Range(cache)
    BY <1>2, <2>1, <2>2, TouchKeeps
  <2> QED BY <1>4, <2>2, <2>3
<1>7. CASE AdmitParked
  <2> DEFINE w == waiting[1]
  <2>1. w \in Message /\ Sender(w) \in Sensor /\ w \in Range(waiting)
    BY <1>1, <1>7, FirstWaiting DEF TaskTyped, TaskShape, AdmitParked
  <2>2. w \notin ParkedSet
    BY <2>1 DEF PipelineIInv, PlacesApart, Disjoint
  <2>3. TouchCache(Sender(w)) /\ (Join(w) \/ Park(w))
    BY <1>7 DEF AdmitParked, Join, Park
  <2>4. Range(cache') \subseteq Range(cache)
    BY <1>2, <2>1, <2>3, TouchKeeps
  <2>5. CASE Join(w)
    BY <1>4, <2>4, <2>5 DEF Join
  <2>6. CASE Park(w)
    BY <1>1, <1>4, <2>1, <2>2, <2>4, <2>6, ParkKeeps
  <2> QED BY <2>3, <2>5, <2>6
<1>8. ASSUME NEW sensor \in DOMAIN lookups, Resolve(sensor)
      PROVE  CachedSaid' /\ LookupsSaid'
  <2>1. TakeResolution(sensor) /\ cache' = cache
    BY <1>8 DEF Resolve, TakeResolution
  <2> QED BY <1>1, <1>4, <2>1, ResolveKeeps
<1>9. CASE RunEnds
  <2>1. cache' = cache /\ DOMAIN lookups' = {}
    BY <1>9 DEF RunEnds, DropStage
  <2> QED BY <1>4, <2>1
<1>10. CASE Around
  <2>1. ASSUME NEW s \in Sensor, DenialLapses(s) PROVE UNCHANGED <<cache, lookups>>
    BY <2>1 DEF DenialLapses
  <2> QED BY <1>1, <1>5, <1>10, <2>1, LookupSays DEF Around
<1>11. \A e \in Envelope : Ingest(e) => UNCHANGED <<cache, lookups>>
  BY DEF Ingest, authVars
<1>12. \/ SendersGone \/ ShutdownTriggered \/ Receive \/ GiveUpHeld \/ AcceptDuplicate
      \/ AcceptNew \/ SinkAccepts \/ SinkFails \/ BackoffEnds \/ BackoffInterrupted
      \/ FanOutDone \/ TtlLapses \/ UNCHANGED pvars
      => UNCHANGED <<cache, lookups>>
  BY DEF SendersGone, ShutdownTriggered, Receive, GiveUpHeld, AcceptDuplicate,
     AcceptNew, SinkAccepts, SinkFails, BackoffEnds, BackoffInterrupted, FanOutDone,
     TtlLapses, pvars, authVars
<1> QED BY <1>5, <1>6, <1>7, <1>8, <1>9, <1>10, <1>11, <1>12 DEF PipelineNext, PipelineTask

\* Whatever is settled as denied the chain denied.
LEMMA SettledSaid ==
    ASSUME DecisionsFollowChain, chainSaid \subseteq chainSaid', delivered' = delivered,
           NEW ms, NEW fate, Settle(ms, fate),
           fate = "denied" => \A m \in ms : <<Sender(m), FALSE>> \in chainSaid
    PROVE  DecisionsFollowChain'
  BY DEF DecisionsFollowChain, Settle

LEMMA MessagesStep ==
    ASSUME PipelineIInv, PipelineNext PROVE MessagesSaid' /\ DecisionsFollowChain'
<1>1. /\ StageSound /\ TaskTyped /\ TaskShape /\ CachedSaid /\ LookupsSaid
      /\ MessagesSaid /\ DecisionsFollowChain /\ PlacesApart
  BY DEF PipelineIInv, OneLookupPerSensor, PipelineTypeOK, StageSound, TaskTyped,
     DecisionsOnTheWay, CachedSaid, LookupsSaid, MessagesSaid
<1>2. chainSaid \subseteq chainSaid'
  BY SaidGrows
<1>3. waiting \in Seq(Message) /\ granted \in Seq(Message) /\ Len(waiting) <= 1
  BY <1>1 DEF TaskTyped, TaskShape
<1>4. Range(<<>>) = {}
  BY DEF Range
<1>5. ASSUME delivered' = delivered, settled' = settled PROVE DecisionsFollowChain'
  BY <1>1, <1>2, <1>5 DEF DecisionsFollowChain
<1>6. ASSUME Range(waiting') \cup ParkedSet' \cup Range(granted')
                \subseteq Range(waiting) \cup ParkedSet \cup Range(granted),
             Range(granted') \subseteq Range(granted)
      PROVE  MessagesSaid'
  BY <1>1, <1>2, <1>6 DEF MessagesSaid
<1>7. CASE UNCHANGED <<waiting, parked, granted, delivered, settled>>
  <2>1. ParkedSet' = ParkedSet
    BY <1>7 DEF ParkedSet
  <2> QED BY <1>5, <1>6, <1>7, <2>1
<1>8. CASE Receive
  <2> DEFINE h == Head(ingress)
  <2>1. UNCHANGED <<granted, delivered>> /\ ParkedSet' = ParkedSet
    BY <1>8 DEF Receive, stageVars, ParkedSet
  <2>2. CASE h.envelope \in Authentic
    <3>1. waiting' = <<h>> /\ settled' = settled
      BY <1>8, <2>2 DEF Receive
    <3> HIDE DEF h
    <3>2. Range(<<h>>) = {h}
      BY DEF Range
    <3>3. MessagesSaid'
      BY <1>1, <1>2, <2>1, <2>2, <3>1, <3>2 DEF MessagesSaid
    <3> QED BY <1>5, <2>1, <3>1, <3>3
  <2>3. CASE h.envelope \notin Authentic
    <3>1. waiting' = waiting /\ Settle({h}, "invalid")
      BY <1>8, <2>3 DEF Receive
    <3> QED BY <1>1, <1>2, <1>6, <2>1, <3>1, SettledSaid
  <2> QED BY <2>2, <2>3
<1>9. CASE AdmitDecided
  <2> DEFINE w == waiting[1]
  <2>1. waiting # <<>>
    BY <1>1, <1>9 DEF AdmitDecided, TaskShape
  <2>2. Range(waiting) = {w}
    BY <1>3, <2>1, OneWaiting
  <2>3. /\ CachedAllow(Sender(w)) => <<Sender(w), TRUE>> \in chainSaid
        /\ ~CachedAllow(Sender(w)) => <<Sender(w), FALSE>> \in chainSaid
    <3>1. cache \in Seq(Entry) /\ Live(Sender(w))
      BY <1>1, <1>9 DEF StageSound, AuthTypeOK, AdmitDecided
    <3> QED BY <1>1, <3>1, LiveDecides
  <2>4. Range(waiting') = {} /\ ParkedSet' = ParkedSet /\ delivered' = delivered
    BY <1>4, <1>9 DEF AdmitDecided, stageVars, ParkedSet
  <2>5. CASE CachedAllow(Sender(w))
    <3>1. granted' = waiting /\ settled' = settled
      BY <1>9, <2>5 DEF AdmitDecided
    <3> HIDE DEF w
    <3>2. MessagesSaid'
      BY <1>1, <1>2, <2>2, <2>3, <2>4, <2>5, <3>1 DEF MessagesSaid
    <3> QED BY <1>5, <2>4, <3>1, <3>2
  <2>6. CASE ~CachedAllow(Sender(w))
    <3>1. granted' = granted /\ Settle({w}, "denied")
      BY <1>9, <2>6 DEF AdmitDecided
    <3> HIDE DEF w
    <3> QED BY <1>1, <1>2, <1>6, <2>3, <2>4, <2>6, <3>1, SettledSaid
  <2> QED BY <2>5, <2>6
<1>10. CASE AdmitParked
  <2> DEFINE w == waiting[1]
  <2>1. waiting # <<>>
    BY <1>1, <1>10 DEF AdmitParked, TaskShape
  <2>2. w \in Range(waiting) /\ w \in Message
    BY <1>3, <2>1, FirstWaiting
  <2>3. w \notin ParkedSet
    BY <1>1, <2>2 DEF PlacesApart, Disjoint
  <2>4. ParkedSet' = ParkedSet \cup {w}
    BY <1>1, <1>10, <2>2, <2>3, JoinKeeps, ParkKeeps DEF AdmitParked
  <2>5. Range(waiting') = {} /\ UNCHANGED <<granted, delivered, settled>>
    BY <1>4, <1>10 DEF AdmitParked
  <2> HIDE DEF w
  <2> QED BY <1>5, <1>6, <2>2, <2>4, <2>5
<1>11. CASE GiveUpHeld
  <2>1. /\ Range(waiting') = {} /\ ParkedSet' = ParkedSet /\ UNCHANGED <<granted, delivered>>
        /\ Settle({waiting[1]}, "abandoned")
    BY <1>4, <1>11 DEF GiveUpHeld, stageVars, ParkedSet
  <2> QED BY <1>1, <1>2, <1>6, <2>1, SettledSaid
<1>12. ASSUME NEW sensor \in DOMAIN lookups, Resolve(sensor)
       PROVE  MessagesSaid' /\ DecisionsFollowChain'
  <2> DEFINE r == parked[sensor]
  <2>1. Range(r) \subseteq ParkedSet /\ ParkedSet' = ParkedSet \ Range(r)
    BY <1>1, <1>12, ResolveKeeps DEF Resolve
  <2>2. \A m \in Range(r) : Sender(m) = sensor
    BY <1>1 DEF StageSound
  <2>3. UNCHANGED <<waiting, delivered>>
    BY <1>12 DEF Resolve
  <2>4. CASE lookups[sensor] = "allow"
    <3>1. granted' = r /\ settled' = settled
      BY <1>12, <2>4 DEF Resolve
    <3>2. <<sensor, TRUE>> \in chainSaid
      BY <1>1, <2>4 DEF LookupsSaid
    <3> HIDE DEF r
    <3>3. MessagesSaid'
      BY <1>1, <1>2, <2>1, <2>2, <2>3, <3>1, <3>2 DEF MessagesSaid
    <3> QED BY <1>5, <2>3, <3>1, <3>3
  <2>5. CASE lookups[sensor] # "allow"
    <3> DEFINE fate == IF lookups[sensor] = "deny" THEN "denied" ELSE "undecided"
    <3>1. granted' = granted /\ Settle(Range(r), fate)
      BY <1>12, <2>5 DEF Resolve
    <3>2. fate = "denied" => \A m \in Range(r) : <<Sender(m), FALSE>> \in chainSaid
      BY <1>1, <2>2 DEF LookupsSaid
    <3> HIDE DEF r, fate
    <3> QED BY <1>1, <1>2, <1>6, <2>1, <2>3, <3>1, <3>2, SettledSaid
  <2> QED BY <2>4, <2>5
<1>13. CASE AcceptDuplicate \/ FanOutDone
  <2>1. granted # <<>>
    BY <1>1, <1>13 DEF AcceptDuplicate, FanOutDone, TaskShape
  <2>2. UNCHANGED <<waiting, delivered>> /\ ParkedSet' = ParkedSet /\ NextGranted
    BY <1>13 DEF AcceptDuplicate, FanOutDone, stageVars, inputVars, ParkedSet
  <2>3. Range(granted') \subseteq Range(granted)
    BY <1>3, <2>1, <2>2, NextGrantedKeeps
  <2>4. \E fate \in {"duplicate", "stored", "abandoned"} : Settle({granted[1]}, fate)
    BY <1>13 DEF AcceptDuplicate, FanOutDone
  <2> QED BY <1>1, <1>2, <1>6, <2>2, <2>3, <2>4, SettledSaid
<1>14. CASE SinkAccepts
  <2> DEFINE g == granted[1]
             s == Sinks[sink]
  <2>1. granted # <<>> /\ delivered \in [Range(Sinks) -> Seq(Message)]
    BY <1>1, <1>14 DEF SinkAccepts, TaskShape, TaskTyped
  <2>2. g \in Message /\ g \in Range(granted)
    BY <1>3, <2>1, FirstWaiting
  <2>3. g.envelope \in Authentic /\ <<Sender(g), TRUE>> \in chainSaid
    BY <1>1, <2>2 DEF MessagesSaid
  <2>4. /\ delivered' = [delivered EXCEPT ![s] = Append(@, g)]
        /\ UNCHANGED <<waiting, parked, granted, settled>>
    BY <1>14 DEF SinkAccepts, stageVars
  <2>5. ParkedSet' = ParkedSet
    BY <2>4 DEF ParkedSet
  <2> HIDE DEF g, s
  <2>6. ASSUME NEW t \in Range(Sinks), NEW m \in Range(delivered'[t])
        PROVE  m \in Range(delivered[t]) \/ m = g
    <3>1. CASE t = s
      <4>1. delivered'[t] = Append(delivered[t], g)
        BY <2>1, <2>4, <3>1
      <4>2. Range(Append(delivered[t], g)) = Range(delivered[t]) \cup {g}
        BY <2>1, <2>2, AppendKeepsApart
      <4> QED BY <2>6, <4>1, <4>2
    <3>2. CASE t # s
      BY <2>1, <2>4, <2>6, <3>2
    <3> QED BY <3>1, <3>2
  <2>7. DecisionsFollowChain'
    BY <1>1, <1>2, <2>3, <2>4, <2>6 DEF DecisionsFollowChain
  <2> QED BY <1>6, <2>4, <2>5, <2>7
<1>15. CASE RunEnds
  <2>1. ParkedSet' = {}
    BY <1>1, <1>15, DropKeeps DEF RunEnds
  <2>2. \E ms : Settle(ms, "abandoned")
    BY <1>15 DEF RunEnds
  <2>3. UNCHANGED <<waiting, granted, delivered>>
    BY <1>15 DEF RunEnds
  <2> QED BY <1>1, <1>2, <1>6, <2>1, <2>2, <2>3, SettledSaid
<1>16. \A e \in Envelope : Ingest(e) =>
           UNCHANGED <<waiting, parked, granted, delivered, settled>>
  BY DEF Ingest, taskVars, stageVars
<1>17. \/ SendersGone \/ ShutdownTriggered \/ AdmitOverflow \/ AcceptNew
       \/ SinkFails \/ BackoffEnds \/ BackoffInterrupted \/ Around \/ TtlLapses
       \/ UNCHANGED pvars
       => UNCHANGED <<waiting, parked, granted, delivered, settled>>
  BY DEF SendersGone, ShutdownTriggered, AdmitOverflow, AcceptNew, SinkFails,
     BackoffEnds, BackoffInterrupted, Around, TtlLapses, pvars, taskVars, stageVars
<1> QED BY <1>7, <1>8, <1>9, <1>10, <1>11, <1>12, <1>13, <1>14, <1>15, <1>16, <1>17
       DEF PipelineNext, PipelineTask
-----------------------------------------------------------------------------
(***************************************************************************)
(* Deduplication.                                                          *)
(***************************************************************************)
DedupSound ==
    DedupKnows /\ FanOutKnows /\ DuplicateWasStored /\ StoredTwiceOnlyIfReleased

LEMMA StoredIsReached ==
    \A e : Stored(e) <=> \A s \in Required : Reached(e, s)
  BY DEF Stored, Reached, ReachedIn

\* Away from the sinks, with the cache as it was.
LEMMA DedupQuiet ==
    ASSUME DedupSound, ~FanningOut, ~FanningOut', UNCHANGED <<order, released, delivered>>,
           \A m \in DOMAIN settled' : settled'[m] = "duplicate" =>
               m \in DOMAIN settled /\ settled[m] = "duplicate"
    PROVE  DedupSound'
<1>1. \A e : Stored(e)' <=> Stored(e)
  BY DEF Stored
<1>2. DedupKnows'
  BY <1>1 DEF DedupSound, DedupKnows
<1>3. FanOutKnows'
  BY DEF FanOutKnows
<1>4. DuplicateWasStored'
  BY <1>1 DEF DedupSound, DuplicateWasStored
<1>5. StoredTwiceOnlyIfReleased'
  BY DEF DedupSound, StoredTwiceOnlyIfReleased
<1> QED BY <1>2, <1>3, <1>4, <1>5 DEF DedupSound

\* A settled message that is no duplicate.
LEMMA NoNewDuplicate ==
    ASSUME NEW ms, NEW fate, Settle(ms, fate), fate # "duplicate"
    PROVE  \A m \in DOMAIN settled' : settled'[m] = "duplicate" =>
               m \in DOMAIN settled /\ settled[m] = "duplicate"
  BY DEF Settle

LEMMA DuplicateDropped ==
    ASSUME TaskTyped, TaskShape, DedupSound, AcceptDuplicate PROVE DedupSound'
<1> DEFINE g == granted[1]
           e == g.envelope
<1>1. /\ granted # <<>> /\ granted \in Seq(Message) /\ order \in Seq(Envelope)
      /\ waiting \in Seq(Message) /\ Len(waiting) <= 1 /\ IsInjective(order)
  BY DEF TaskTyped, TaskShape, AcceptDuplicate, DedupSound, DedupKnows
<1>2. PICK ids \in Pruned(order) :
          /\ e \in Range(ids)
          /\ order' = ids
          /\ released' = released \cup (Range(order) \ Range(ids))
  BY DEF AcceptDuplicate
<1>3. ids \in Seq(Envelope) /\ IsInjective(ids) /\ Range(ids) \subseteq Range(order)
  BY <1>1, PrunedKeeps
<1>4. ~FanningOut
  BY DEF AcceptDuplicate, FanningOut
<1>5. ~FanningOut'
  <2>1. ppc' \in {"run", "admit", "accept"}
    BY <1>1, NextGrantedKeeps DEF AcceptDuplicate
  <2> QED BY <2>1 DEF FanningOut
<1>6. delivered' = delivered /\ Settle({g}, "duplicate")
  BY DEF AcceptDuplicate
<1>7. \A id : Stored(id)' <=> Stored(id)
  BY <1>6 DEF Stored
<1>8. DedupKnows'
  BY <1>2, <1>3, <1>4, <1>6, <1>7 DEF DedupSound, DedupKnows
<1>9. FanOutKnows'
  BY <1>5 DEF FanOutKnows
<1>10. DuplicateWasStored'
  <2>1. Stored(e)
    BY <1>2, <1>3, <1>4 DEF DedupSound, DedupKnows
  <2>2. \A m \in DOMAIN settled' : m # g => m \in DOMAIN settled /\ settled'[m] = settled[m]
    BY <1>6 DEF Settle
  <2> QED BY <1>7, <2>1, <2>2 DEF DedupSound, DuplicateWasStored
<1>11. StoredTwiceOnlyIfReleased'
  BY <1>2, <1>6 DEF DedupSound, StoredTwiceOnlyIfReleased
<1> QED BY <1>8, <1>9, <1>10, <1>11 DEF DedupSound

LEMMA NewInserted ==
    ASSUME TaskTyped, TaskShape, DedupSound, AcceptNew PROVE DedupSound'
<1> DEFINE e == granted[1].envelope
<1>1. granted # <<>> /\ granted \in Seq(Message) /\ order \in Seq(Envelope)
      /\ IsInjective(order)
  BY DEF TaskTyped, TaskShape, AcceptNew, DedupSound, DedupKnows
<1>2. PICK ids \in Pruned(order) :
          /\ e \notin Range(ids)
          /\ order' = LET inserted == Append(ids, e)
                      IN  IF Len(inserted) > DedupCapacity THEN Tail(inserted)
                                                           ELSE inserted
          /\ released' = released \cup (Range(order) \ Range(ids))
                                 \cup (Range(ids) \ Range(order'))
  BY DEF AcceptNew
<1>3. ids \in Seq(Envelope) /\ IsInjective(ids) /\ Range(ids) \subseteq Range(order)
  BY <1>1, PrunedKeeps
<1>4. e \in Envelope
  BY <1>1, FirstWaiting
<1>5. /\ ~FanningOut /\ FanningOut' /\ granted' = granted /\ delivered' = delivered
      /\ settled' = settled /\ sink' = 1
  BY DEF AcceptNew, FanningOut
<1> HIDE DEF e
<1>6. /\ IsInjective(order') /\ e \in Range(order')
      /\ Range(order') \subseteq Range(ids) \cup {e}
  BY <1>2, <1>3, <1>4, InsertKeeps
<1>7. \A id : Stored(id)' <=> Stored(id)
  BY <1>5 DEF Stored
<1>8. granted'[1].envelope = e
  BY <1>5 DEF e
<1>9. ASSUME NEW s \in Required, NEW m \in Range(delivered[s])
      PROVE  /\ m.envelope \in released' \cup Range(order')
             /\ m.envelope = e => e \in released'
  <2>1. m.envelope \in released \cup Range(order)
    BY DEF DedupSound, DedupKnows
  <2> QED BY <1>2, <1>3, <2>1
<1>10. DedupKnows'
  <2>1. \A id \in Range(order') : Stored(id)' \/ id = e
    BY <1>3, <1>5, <1>6, <1>7 DEF DedupSound, DedupKnows
  <2> QED BY <1>5, <1>6, <1>8, <1>9, <2>1 DEF DedupKnows
<1>11. FanOutKnows'
  <2>1. \A s \in Required : ReachedIn(delivered', e, s) => e \in released'
    BY <1>5, <1>9 DEF ReachedIn, Reached
  <2>2. 1 .. sink' - 1 = {}
    BY <1>5
  <2>3. complete'
    BY DEF AcceptNew
  <2> QED BY <1>6, <1>8, <2>1, <2>2, <2>3 DEF FanOutKnows, Reached
<1>12. DuplicateWasStored'
  BY <1>5, <1>7 DEF DedupSound, DuplicateWasStored
<1>13. StoredTwiceOnlyIfReleased'
  BY <1>2, <1>5 DEF DedupSound, StoredTwiceOnlyIfReleased
<1> QED BY <1>10, <1>11, <1>12, <1>13 DEF DedupSound

\* A sink accepts: the required one has the envelope for the first time
\* unless the cache had let go of it.
LEMMA AcceptedAtSink ==
    ASSUME TaskTyped, TaskShape, DedupSound, SinkAccepts PROVE DedupSound'
<1> DEFINE g  == granted[1]
           e  == g.envelope
           at == Sinks[sink]
           q  == delivered[at]
<1>1. /\ granted # <<>> /\ granted \in Seq(Message) /\ FanningOut /\ FanningOut'
      /\ UNCHANGED <<granted, order, released, settled, complete>> /\ sink' = sink + 1
      /\ delivered \in [Range(Sinks) -> Seq(Message)]
  BY DEF TaskTyped, TaskShape, SinkAccepts, FanningOut, dedupVars
<1>2. Len(Sinks) \in Nat /\ sink \in 1 .. Len(Sinks) /\ DOMAIN Sinks = 1 .. Len(Sinks)
  BY PipelineConstants, LenProperties DEF TaskTyped, SinkAccepts
<1>3. at \in Range(Sinks) /\ \A i \in 1 .. Len(Sinks) : Sinks[i] = at => i = sink
  BY <1>2, PipelineConstants DEF Range, IsInjective
<1>4. g \in Message
  BY <1>1, FirstWaiting
<1>5. delivered' = [delivered EXCEPT ![at] = Append(q, g)]
  BY DEF SinkAccepts
<1>6. /\ q \in Seq(Message) /\ Append(q, g) \in Seq(Message)
      /\ Range(Append(q, g)) = Range(q) \cup {g}
  BY <1>1, <1>3, <1>4, AppendKeepsApart
<1>7. /\ DOMAIN Append(q, g) = 1 .. Len(q) + 1 /\ DOMAIN q = 1 .. Len(q) /\ Len(q) \in Nat
      /\ \A i \in 1 .. Len(q) : Append(q, g)[i] = q[i]
      /\ Append(q, g)[Len(q) + 1] = g
  BY <1>4, <1>6, AppendProperties, LenProperties
<1>8. e \in Range(order) /\ g = granted'[1]
  BY <1>1 DEF DedupSound, FanOutKnows
<1>9. at \in Required /\ Reached(e, at) => e \in released
  BY <1>1, <1>2, <1>3 DEF DedupSound, FanOutKnows
<1>10. /\ delivered'[at] = Append(q, g)
       /\ \A s \in Range(Sinks) : s # at => delivered'[s] = delivered[s]
  BY <1>1, <1>3, <1>5
<1>11. Required \subseteq Range(Sinks)
  BY PipelineConstants
<1> HIDE DEF at, g
<1>12. \A s \in Range(Sinks) : \A id :
          ReachedIn(delivered', id, s) <=> Reached(id, s) \/ (s = at /\ id = e)
  BY <1>3, <1>6, <1>10 DEF ReachedIn, Reached
<1> DEFINE bigger == Append(q, g)
<1> HIDE DEF q, bigger
<1>13. DedupKnows'
  <2>1. \A id : Stored(id) => Stored(id)'
    BY <1>11, <1>12, StoredIsReached DEF Stored, Reached, ReachedIn
  <2>2. ASSUME NEW s \in Required, NEW m \in Range(delivered'[s])
        PROVE  m.envelope \in released' \cup Range(order')
    <3>1. ReachedIn(delivered', m.envelope, s)
      BY DEF ReachedIn, Reached
    <3>2. CASE Reached(m.envelope, s)
      BY <1>1, <3>2 DEF ReachedIn, Reached, DedupSound, DedupKnows
    <3>3. CASE m.envelope = e
      BY <1>1, <1>8, <3>3
    <3> QED BY <1>11, <1>12, <3>1, <3>2, <3>3
  <2>3. \A id \in Range(order') : Stored(id)' \/ (FanningOut' /\ id = granted'[1].envelope)
    BY <1>1, <2>1, <1>8 DEF DedupSound, DedupKnows
  <2> QED BY <1>1, <2>2, <2>3 DEF DedupSound, DedupKnows
<1>14. FanOutKnows'
  <2>1. ASSUME NEW i \in 1 .. Len(Sinks), Sinks[i] \in Required, ReachedIn(delivered', e, Sinks[i]),
               e \notin released'
        PROVE  complete' /\ i < sink'
    <3>1. CASE Sinks[i] = at
      <4>1. i = sink
        BY <1>3, <3>1
      <4>2. complete
        BY <1>1, <1>2, <2>1, <4>1 DEF DedupSound, FanOutKnows
      <4> QED BY <1>1, <1>2, <4>1, <4>2
    <3>2. CASE Sinks[i] # at
      <4>1. Reached(e, Sinks[i])
        BY <1>11, <1>12, <2>1, <3>2
      <4>2. complete /\ i < sink
        BY <1>1, <2>1, <4>1 DEF DedupSound, FanOutKnows, g
      <4> QED BY <1>1, <1>2, <4>2
    <3> QED BY <3>1, <3>2
  <2>2. ASSUME complete, NEW i \in 1 .. sink, Sinks[i] \in Required
        PROVE  ReachedIn(delivered', e, Sinks[i])
    <3>1. CASE i = sink
      BY <1>3, <1>12, <3>1 DEF at
    <3>2. CASE i # sink
      <4>1. i \in 1 .. sink - 1
        BY <1>2, <3>2
      <4>2. Reached(e, Sinks[i])
        BY <1>1, <2>2, <4>1 DEF DedupSound, FanOutKnows, g
      <4> QED BY <1>11, <1>12, <2>2, <4>2
    <3> QED BY <3>1, <3>2
  <2>3. ~complete => \A i \in 1 .. Len(Sinks) : Sinks[i] \in Required => i < sink + 1
    BY <1>1, <1>2 DEF DedupSound, FanOutKnows
  <2>4. sink' - 1 = sink
    BY <1>1, <1>2
  <2>5. granted'[1].envelope = e
    BY <1>8
  <2> QED BY <1>1, <1>8, <2>1, <2>2, <2>3, <2>4, <2>5 DEF FanOutKnows, Reached
<1>15. DuplicateWasStored'
  <2>1. \A id : Stored(id) => Stored(id)'
    BY <1>11, <1>12, StoredIsReached DEF Stored, Reached, ReachedIn
  <2> QED BY <1>1, <2>1 DEF DedupSound, DuplicateWasStored
<1>16. StoredTwiceOnlyIfReleased'
  <2> SUFFICES ASSUME NEW s \in Required,
                      NEW i \in DOMAIN delivered'[s], NEW j \in DOMAIN delivered'[s],
                      i # j, delivered'[s][i].envelope = delivered'[s][j].envelope
               PROVE  delivered'[s][i].envelope \in released
    BY <1>1 DEF StoredTwiceOnlyIfReleased
  <2>1. CASE s # at
    BY <1>10, <1>11, <2>1 DEF DedupSound, StoredTwiceOnlyIfReleased
  <2>2. CASE s = at
    <3>1. ASSUME NEW k \in 1 .. Len(q), q[k].envelope = e PROVE e \in released
      <4>1. Reached(e, at)
        BY <1>7, <3>1 DEF ReachedIn, Reached, Range, q
      <4> QED BY <1>9, <2>2, <4>1
    <3>2. i \in 1 .. Len(q) + 1 /\ j \in 1 .. Len(q) + 1
      BY <1>7, <1>10, <2>2
    <3>3. CASE i \in 1 .. Len(q) /\ j \in 1 .. Len(q)
      <4>1. delivered'[s][i] = q[i] /\ delivered'[s][j] = q[j]
        BY <1>7, <1>10, <2>2, <3>3
      <4>2. i \in DOMAIN delivered[s] /\ j \in DOMAIN delivered[s] /\ q = delivered[s]
        BY <1>7, <2>2, <3>3 DEF q
      <4> QED BY <4>1, <4>2 DEF DedupSound, StoredTwiceOnlyIfReleased
    <3>4. CASE i = Len(q) + 1
      <4>1. j \in 1 .. Len(q)
        BY <1>7, <3>2, <3>4
      <4>2. delivered'[s][i] = g /\ delivered'[s][j] = q[j]
        BY <1>7, <1>10, <2>2, <3>4, <4>1
      <4> QED BY <3>1, <4>1, <4>2
    <3>5. CASE j = Len(q) + 1
      <4>1. i \in 1 .. Len(q)
        BY <1>7, <3>2, <3>5
      <4>2. delivered'[s][j] = g /\ delivered'[s][i] = q[i]
        BY <1>7, <1>10, <2>2, <3>5, <4>1
      <4> QED BY <3>1, <4>1, <4>2
    <3> QED BY <1>7, <3>2, <3>3, <3>4, <3>5
  <2> QED BY <2>1, <2>2
<1> QED BY <1>13, <1>14, <1>15, <1>16 DEF DedupSound

\* The other moves of fan_out() deliver nothing.
LEMMA FanOutMoves ==
    ASSUME TaskTyped, TaskShape, Flags, DedupSound,
           SinkFails \/ BackoffEnds \/ BackoffInterrupted
    PROVE  DedupSound'
<1>1. /\ granted # <<>> /\ FanningOut /\ FanningOut'
      /\ UNCHANGED <<granted, order, released, settled, delivered>>
  BY DEF TaskShape, SinkFails, BackoffEnds, BackoffInterrupted, FanningOut, dedupVars
<1>2. /\ Len(Sinks) \in Nat /\ DOMAIN Sinks = 1 .. Len(Sinks) /\ sink \in Nat
      /\ sink \in 1 .. Len(Sinks) + 1
  BY PipelineConstants, LenProperties DEF TaskTyped
<1>3. \A id : Stored(id)' <=> Stored(id)
  BY <1>1 DEF Stored
<1>4. \A id, s : ReachedIn(delivered', id, s) <=> Reached(id, s)
  BY <1>1 DEF ReachedIn, Reached
<1> DEFINE e == granted[1].envelope
<1>5. e = granted'[1].envelope
  BY <1>1
<1>6. FanOutKnows'
  <2>1. CASE UNCHANGED <<sink, complete>>
    BY <1>1, <2>1 DEF DedupSound, FanOutKnows, Reached
  <2>2. CASE sink' = sink + 1 /\ Sinks[sink] \notin Required /\ sink <= Len(Sinks)
             /\ complete' = complete
    <3>1. \A i \in 1 .. sink' - 1 : i \in 1 .. sink - 1 \/ i = sink
      BY <1>2, <2>2
    <3>2. \A i \in 1 .. Len(Sinks) : i < sink => i < sink'
      BY <1>2, <2>2
    <3> QED BY <1>1, <2>2, <3>1, <3>2 DEF DedupSound, FanOutKnows, Reached
  <2>3. CASE BackoffInterrupted
    <3>1. /\ sink \in 1 .. Len(Sinks) /\ Sinks[sink] \in Required /\ complete' = FALSE
          /\ sink' = sink + 1
      BY <1>2, <2>3 DEF BackoffInterrupted, TaskShape
    <3>2. \A i \in 1 .. Len(Sinks) : Sinks[i] \in Required => i = sink
      BY <1>2, <3>1, PipelineConstants DEF IsInjective
    <3>3. \A i \in 1 .. Len(Sinks) :
              Sinks[i] \in Required /\ Reached(e, Sinks[i]) => e \in released
      BY <1>1, <1>2, <3>1, <3>2 DEF DedupSound, FanOutKnows
    <3>4. \A i \in 1 .. Len(Sinks) : Sinks[i] \in Required => i < sink'
      BY <1>2, <3>1, <3>2
    <3>5. e \in Range(order')
      BY <1>1 DEF DedupSound, FanOutKnows
    <3> HIDE DEF e
    <3> QED BY <1>1, <1>4, <1>5, <3>1, <3>3, <3>4, <3>5 DEF FanOutKnows, Reached
  <2> QED BY <2>1, <2>2, <2>3 DEF SinkFails, BackoffEnds
<1>7. DedupKnows'
  BY <1>1, <1>3 DEF DedupSound, DedupKnows
<1>8. DuplicateWasStored'
  BY <1>1, <1>3 DEF DedupSound, DuplicateWasStored
<1>9. StoredTwiceOnlyIfReleased'
  BY <1>1 DEF DedupSound, StoredTwiceOnlyIfReleased
<1> QED BY <1>6, <1>7, <1>8, <1>9 DEF DedupSound

\* The end of fan_out(): the envelope is stored or forgotten.
LEMMA FanOutEnds ==
    ASSUME TaskTyped, TaskShape, DedupSound, FanOutDone PROVE DedupSound'
<1> DEFINE g == granted[1]
           e == g.envelope
<1>1. /\ granted # <<>> /\ granted \in Seq(Message) /\ order \in Seq(Envelope)
      /\ waiting \in Seq(Message) /\ Len(waiting) <= 1 /\ FanningOut
      /\ IsInjective(order) /\ UNCHANGED <<delivered, released>>
      /\ sink > Len(Sinks) /\ sink \in 1 .. Len(Sinks) + 1
  BY DEF TaskTyped, TaskShape, FanOutDone, FanningOut, DedupSound, DedupKnows
<1>2. ~FanningOut'
  <2>1. ppc' \in {"run", "admit", "accept"}
    BY <1>1, NextGrantedKeeps DEF FanOutDone
  <2> QED BY <2>1 DEF FanningOut
<1>3. Len(Sinks) \in Nat /\ DOMAIN Sinks = 1 .. Len(Sinks)
  BY PipelineConstants, LenProperties
<1>4. \A id : Stored(id)' <=> Stored(id)
  BY <1>1 DEF Stored
<1>5. \A s \in Required : \E i \in 1 .. Len(Sinks) : s = Sinks[i]
  BY <1>3, PipelineConstants DEF Range
<1>6. DedupKnows'
  <2>1. CASE complete
    <3>1. order' = order
      BY <2>1 DEF FanOutDone
    <3>2. \A i \in 1 .. Len(Sinks) : i \in 1 .. sink - 1
      BY <1>1, <1>3
    <3>3. \A s \in Required : Reached(e, s)
      BY <1>1, <1>5, <2>1, <3>2 DEF DedupSound, FanOutKnows
    <3>4. Stored(e)
      BY <3>3, StoredIsReached
    <3> QED BY <1>1, <1>4, <3>1, <3>4 DEF DedupSound, DedupKnows
  <2>2. CASE ~complete
    <3>1. order' = Forgotten(e)
      BY <2>2 DEF FanOutDone
    <3>2. IsInjective(order') /\ Range(order') = Range(order) \ {e}
      BY <1>1, <3>1, ForgottenKeeps
    <3>3. \A s \in Required : Reached(e, s) => e \in released
      BY <1>1, <1>5, <2>2 DEF DedupSound, FanOutKnows
    <3>4. \A s \in Required : \A m \in Range(delivered'[s]) :
              m.envelope \in released' \cup Range(order')
      BY <1>1, <3>2, <3>3 DEF DedupSound, DedupKnows, Reached, ReachedIn
    <3>5. \A id \in Range(order') : Stored(id)'
      BY <1>1, <1>4, <3>2 DEF DedupSound, DedupKnows
    <3> QED BY <3>2, <3>4, <3>5 DEF DedupKnows
  <2> QED BY <2>1, <2>2
<1>7. FanOutKnows'
  BY <1>2 DEF FanOutKnows
<1>8. DuplicateWasStored'
  <2>1. \E fate \in {"stored", "abandoned"} : Settle({g}, fate)
    BY DEF FanOutDone
  <2>2. \A m \in DOMAIN settled' : settled'[m] = "duplicate" =>
            m \in DOMAIN settled /\ settled[m] = "duplicate"
    BY <2>1, NoNewDuplicate
  <2> QED BY <1>4, <2>2 DEF DedupSound, DuplicateWasStored
<1>9. StoredTwiceOnlyIfReleased'
  BY <1>1 DEF DedupSound, StoredTwiceOnlyIfReleased
<1> QED BY <1>6, <1>7, <1>8, <1>9 DEF DedupSound

LEMMA DedupStep ==
    ASSUME PipelineIInv, PipelineNext PROVE DedupSound'
<1>1. TaskTyped /\ TaskShape /\ Flags /\ DedupSound
  BY DEF PipelineIInv, OneLookupPerSensor, PipelineTypeOK, TaskTyped, Flags, DedupSound
<1>2. CASE UNCHANGED <<order, released, delivered, settled, ppc, granted, sink, complete>>
  <2>1. DedupKnows'
    BY <1>1, <1>2 DEF DedupSound, DedupKnows, Stored, FanningOut
  <2>2. FanOutKnows'
    BY <1>1, <1>2 DEF DedupSound, FanOutKnows, Reached, ReachedIn, FanningOut
  <2>3. DuplicateWasStored' /\ StoredTwiceOnlyIfReleased'
    BY <1>1, <1>2 DEF DedupSound, DuplicateWasStored, Stored, StoredTwiceOnlyIfReleased
  <2> QED BY <2>1, <2>2, <2>3 DEF DedupSound
<1>3. CASE AcceptDuplicate
  BY <1>1, <1>3, DuplicateDropped
<1>4. CASE AcceptNew
  BY <1>1, <1>4, NewInserted
<1>5. CASE SinkAccepts
  BY <1>1, <1>5, AcceptedAtSink
<1>6. CASE SinkFails \/ BackoffEnds \/ BackoffInterrupted
  BY <1>1, <1>6, FanOutMoves
<1>7. CASE FanOutDone
  BY <1>1, <1>7, FanOutEnds
<1>8. ASSUME NEW ms, NEW fate \in {"invalid", "denied", "undecided", "abandoned"},
             settled' = settled \/ Settle(ms, fate), ~FanningOut, ~FanningOut',
             UNCHANGED <<order, released, delivered>>
      PROVE  DedupSound'
  <2>1. \A m \in DOMAIN settled' : settled'[m] = "duplicate" =>
            m \in DOMAIN settled /\ settled[m] = "duplicate"
    BY <1>8, NoNewDuplicate
  <2> QED BY <1>1, <1>8, <2>1, DedupQuiet
<1>9. CASE Receive
  <2>1. ~FanningOut /\ ~FanningOut' /\ UNCHANGED <<order, released, delivered>>
    BY <1>9 DEF Receive, FanningOut, dedupVars
  <2>2. settled' = settled \/ Settle({Head(ingress)}, "invalid")
    BY <1>9 DEF Receive
  <2> QED BY <1>8, <2>1, <2>2
<1>10. CASE AdmitDecided
  <2>1. ~FanningOut /\ ~FanningOut' /\ UNCHANGED <<order, released, delivered>>
    BY <1>10 DEF AdmitDecided, FanningOut, dedupVars
  <2>2. settled' = settled \/ Settle({waiting[1]}, "denied")
    BY <1>10 DEF AdmitDecided
  <2> QED BY <1>8, <2>1, <2>2
<1>11. CASE AdmitParked \/ AdmitOverflow
  <2>1. /\ ~FanningOut /\ ~FanningOut' /\ UNCHANGED <<order, released, delivered>>
        /\ settled' = settled
    BY <1>11 DEF AdmitParked, AdmitOverflow, FanningOut, dedupVars
  <2> QED BY <1>8, <2>1
<1>12. CASE GiveUpHeld
  <2>1. /\ ~FanningOut /\ ~FanningOut' /\ UNCHANGED <<order, released, delivered>>
        /\ Settle({waiting[1]}, "abandoned")
    BY <1>12 DEF GiveUpHeld, FanningOut, dedupVars
  <2> QED BY <1>8, <2>1
<1>13. ASSUME NEW sensor \in DOMAIN lookups, Resolve(sensor) PROVE DedupSound'
  <2> DEFINE fate == IF lookups[sensor] = "deny" THEN "denied" ELSE "undecided"
  <2>1. ~FanningOut /\ ~FanningOut' /\ UNCHANGED <<order, released, delivered>>
    BY <1>13 DEF Resolve, NextStop, FanningOut, dedupVars
  <2>2. settled' = settled \/ Settle(Range(parked[sensor]), fate)
    BY <1>13 DEF Resolve
  <2>3. fate \in {"invalid", "denied", "undecided", "abandoned"}
    OBVIOUS
  <2> HIDE DEF fate
  <2> QED BY <1>8, <2>1, <2>2, <2>3
<1>14. CASE RunEnds
  <2>1. ~FanningOut /\ ~FanningOut' /\ UNCHANGED <<order, released, delivered>>
    BY <1>14 DEF RunEnds, FanningOut, dedupVars
  <2>2. \E ms : Settle(ms, "abandoned")
    BY <1>14 DEF RunEnds
  <2> QED BY <1>8, <2>1, <2>2
<1>15. \A e \in Envelope : Ingest(e) =>
          UNCHANGED <<order, released, delivered, settled, ppc, granted, sink, complete>>
  BY DEF Ingest, taskVars, dedupVars
<1>16. SendersGone \/ ShutdownTriggered \/ Around \/ TtlLapses \/ UNCHANGED pvars =>
          UNCHANGED <<order, released, delivered, settled, ppc, granted, sink, complete>>
  BY DEF SendersGone, ShutdownTriggered, Around, TtlLapses, pvars, taskVars, dedupVars
<1> QED BY <1>2, <1>3, <1>4, <1>5, <1>6, <1>7, <1>9, <1>10, <1>11, <1>12, <1>13, <1>14,
       <1>15, <1>16 DEF PipelineNext, PipelineTask
-----------------------------------------------------------------------------
(***************************************************************************)
(* The theorems.                                                           *)
(***************************************************************************)
LEMMA PipelineStarts ==
    PipelineInit => PipelineIInv
<1> SUFFICES ASSUME PipelineInit PROVE PipelineIInv
  OBVIOUS
<1> USE DEF PipelineInit, AuthInit, StageInit
<1>1. Len(Sinks) \in Nat
  BY PipelineConstants, LenProperties
<1>2. IsFiniteSet({}) /\ Cardinality({}) = 0
  BY FS_EmptySet
<1>3. AuthTypeOK /\ StageTypeOK
  BY DEF AuthTypeOK, StageTypeOK
<1>4. stopping \in BOOLEAN /\ senders \in BOOLEAN /\ complete \in BOOLEAN
  OBVIOUS
<1>5. PipelineTypeOK
  BY <1>1, <1>3, <1>4 DEF PipelineTypeOK
<1>6. /\ Range(queued) = {} /\ Range(ingress) = {} /\ Range(waiting) = {}
      /\ Range(granted) = {} /\ Range(cache) = {} /\ Range(order) = {}
      /\ DOMAIN parked = {} /\ DOMAIN lookups = {} /\ DOMAIN settled = {}
  BY DEF Range
<1>7. IsInjective(<<>>)
  BY DEF IsInjective
<1>8. ParkedSet = {}
  BY <1>6 DEF ParkedSet
<1>9. OneLookupPerSensor
  BY <1>2, <1>5, <1>6, <1>7, StageConstants DEF OneLookupPerSensor
<1>10. TaskShape
  BY DEF TaskShape
<1>11. PendingCounted
  BY <1>2, <1>6, <1>8 DEF PendingCounted
<1>12. PlacesApart
  BY <1>6, <1>7, <1>8 DEF PlacesApart, Arrived, Disjoint
<1>13. \A s \in Range(Sinks) : DOMAIN delivered[s] = {} /\ Range(delivered[s]) = {}
  BY DEF Range
<1>14. Required \subseteq Range(Sinks)
  BY PipelineConstants
<1>15. DecisionsOnTheWay /\ DecisionsFollowChain
  BY <1>6, <1>8, <1>13 DEF DecisionsOnTheWay, DecisionsFollowChain
<1>16. DedupKnows /\ FanOutKnows /\ DuplicateWasStored /\ StoredTwiceOnlyIfReleased
  BY <1>6, <1>7, <1>13, <1>14 DEF DedupKnows, FanOutKnows, FanningOut,
     DuplicateWasStored, StoredTwiceOnlyIfReleased
<1> QED BY <1>2, <1>6, <1>9, <1>10, <1>11, <1>12, <1>15, <1>16 DEF PipelineIInv

LEMMA PipelineStutters ==
    ASSUME PipelineIInv, UNCHANGED pvars PROVE PipelineIInv'
<1>1. UNCHANGED <<authVars, stageVars, inputVars, taskVars, dedupVars>> /\ settled' = settled
      /\ delivered' = delivered
  BY DEF pvars
<1> USE <1>1 DEF authVars, stageVars, inputVars, taskVars, dedupVars
<1>2. ParkedSet' = ParkedSet
  BY DEF ParkedSet
<1>3. AuthTypeOK' /\ StageTypeOK'
  BY DEF PipelineIInv, OneLookupPerSensor, PipelineTypeOK, AuthTypeOK, StageTypeOK
<1>4. Flags'
  BY DEF PipelineIInv, OneLookupPerSensor, PipelineTypeOK, Flags
<1>5. PipelineTypeOK'
  BY <1>3, <1>4 DEF PipelineIInv, OneLookupPerSensor, PipelineTypeOK, Flags
<1>6. OneLookupPerSensor' /\ IsFiniteSet(DOMAIN lookups)'
  BY <1>5 DEF PipelineIInv, OneLookupPerSensor
<1>7. TaskShape' /\ PendingCounted'
  BY <1>2 DEF PipelineIInv, TaskShape, PendingCounted
<1>8. PlacesApart'
  BY <1>2 DEF PipelineIInv, PlacesApart, Arrived
<1>9. DecisionsOnTheWay' /\ DecisionsFollowChain'
  BY <1>2 DEF PipelineIInv, DecisionsOnTheWay, DecisionsFollowChain
<1>10. DedupKnows' /\ DuplicateWasStored' /\ StoredTwiceOnlyIfReleased'
  BY DEF PipelineIInv, DedupKnows, Stored, FanningOut, DuplicateWasStored,
     StoredTwiceOnlyIfReleased
<1>11. FanOutKnows'
  BY DEF PipelineIInv, FanOutKnows, FanningOut, Reached
<1> QED BY <1>6, <1>7, <1>8, <1>9, <1>10, <1>11 DEF PipelineIInv

\* The inductive invariant of the pipeline.
THEOREM PipelineInvariant == PipelineSpec => []PipelineIInv
<1>1. PipelineInit => PipelineIInv
  BY PipelineStarts
<1>2. PipelineIInv /\ [PipelineNext]_pvars => PipelineIInv'
  <2> SUFFICES ASSUME PipelineIInv, [PipelineNext]_pvars PROVE PipelineIInv'
    OBVIOUS
  <2>1. ASSUME PipelineNext PROVE PipelineIInv'
    <3>1. TaskTyped' /\ TaskShape'
      BY <2>1, TaskStep
    <3>2. Flags'
      <4>1. Flags
        BY DEF PipelineIInv, OneLookupPerSensor, PipelineTypeOK, Flags
      <4> QED BY <2>1, <4>1, FlagsStep
    <3>3. StageSound'
      BY <2>1, StageStep
    <3>4. ppc' = "full" => DOMAIN lookups' # {}
      BY <2>1, FullStep
    <3>5. PipelineTypeOK'
      BY <3>1, <3>2, <3>3 DEF PipelineTypeOK, TaskTyped, Flags, StageSound
    <3>6. OneLookupPerSensor' /\ IsFiniteSet(DOMAIN lookups)' /\ PendingCounted'
      BY <3>3, <3>4, <3>5 DEF OneLookupPerSensor, StageSound
    <3>7. PlacesApart'
      BY <2>1, PlacesStep
    <3>8. DecisionsOnTheWay'
      <4>1. CachedSaid' /\ LookupsSaid' /\ MessagesSaid'
        BY <2>1, PolicyStep, MessagesStep
      <4> QED BY <4>1 DEF DecisionsOnTheWay, CachedSaid, LookupsSaid, MessagesSaid
    <3>9. DecisionsFollowChain'
      BY <2>1, MessagesStep
    <3>10. DedupSound'
      BY <2>1, DedupStep
    <3> QED BY <3>1, <3>6, <3>7, <3>8, <3>9, <3>10 DEF PipelineIInv, DedupSound
  <2>2. CASE UNCHANGED pvars
    BY <2>2, PipelineStutters
  <2> QED BY <2>1, <2>2
<1> QED BY <1>1, <1>2, PTL DEF PipelineSpec

\* One lookup serves every sensor that waits, at most MaxConcurrent run, and
\* a message that process() holds always has a lookup to wait for
\* (AuthStage::admit, start_queued and next_resolution).
THEOREM Singleflight == PipelineSpec => []OneLookupPerSensor
<1>1. PipelineIInv => OneLookupPerSensor
  BY DEF PipelineIInv
<1> QED BY <1>1, PipelineInvariant, PTL

\* What a sink gets was signed and allowed by a finalized tree, and what is
\* denied was outside of one (CpsAuth::authorize, Pipeline::process).
THEOREM FailClosed == PipelineSpec => []DecisionsFollowChain
<1>1. PipelineIInv => DecisionsFollowChain
  BY DEF PipelineIInv
<1> QED BY <1>1, PipelineInvariant, PTL

\* Nothing is dropped as a duplicate that the required sink does not have
\* (DedupCache::insert and forget, Pipeline::accept).
THEOREM DuplicatesAreStored == PipelineSpec => []DuplicateWasStored
<1>1. PipelineIInv => DuplicateWasStored
  BY DEF PipelineIInv
<1> QED BY <1>1, PipelineInvariant, PTL

\* The required sink gets nothing twice that the dedup cache still holds
\* (DedupCache::insert, Pipeline::fan_out).
THEOREM StoredOnce == PipelineSpec => []StoredTwiceOnlyIfReleased
<1>1. PipelineIInv => StoredTwiceOnlyIfReleased
  BY DEF PipelineIInv
<1> QED BY <1>1, PipelineInvariant, PTL

\* The arrivals number the messages of all places one to one.
LEMMA PlacesAddUp ==
    ASSUME PipelineIInv PROVE EveryMessageInOnePlace
<1> DEFINE number == [m \in Arrived |-> m.arrival]
<1>1. /\ PlacesApart /\ PendingCounted /\ arrivals \in Nat /\ ingress \in Seq(Message)
      /\ waiting \in Seq(Message) /\ granted \in Seq(Message) /\ Len(waiting) <= 1
  BY DEF PipelineIInv, OneLookupPerSensor, PipelineTypeOK, TaskShape
<1>2. number \in Bijection(Arrived, 0 .. arrivals - 1)
  BY <1>1 DEF PlacesApart, Bijection, Injection, Surjection, IsInjective
<1>3. IsFiniteSet(0 .. arrivals - 1) /\ Cardinality(0 .. arrivals - 1) = arrivals
  <2>1. 0 \in Int /\ arrivals - 1 \in Int
    BY <1>1
  <2>2. /\ IsFiniteSet(0 .. arrivals - 1)
        /\ Cardinality(0 .. arrivals - 1)
              = IF 0 > arrivals - 1 THEN 0 ELSE arrivals - 1 - 0 + 1
    BY <2>1, FS_Interval
  <2> QED BY <1>1, <2>2
<1>4. IsFiniteSet(Arrived) /\ Cardinality(Arrived) = arrivals
  <2>1. ExistsBijection(0 .. arrivals - 1, Arrived)
    BY <1>2, Fun_ExistsBijSymmetric DEF ExistsBijection
  <2> QED BY <1>3, <2>1, FS_Bijection
<1>5. /\ IsFiniteSet(Range(ingress)) /\ Cardinality(Range(ingress)) = Len(ingress)
      /\ IsFiniteSet(Range(granted)) /\ Cardinality(Range(granted)) = Len(granted)
  BY <1>1, ApartCounts DEF PlacesApart
<1>6. IsFiniteSet(Range(waiting)) /\ Cardinality(Range(waiting)) = Len(waiting)
  <2>1. IsInjective(waiting)
    BY <1>1, LenProperties DEF IsInjective
  <2> QED BY <1>1, <2>1, ApartCounts
<1>7. IsFiniteSet(DOMAIN settled)
  BY <1>4, FS_Subset DEF Arrived
<1>8. IsFiniteSet(ParkedSet) /\ Cardinality(ParkedSet) = pendingCount
  BY <1>1 DEF PendingCounted
<1>9. ASSUME NEW a, NEW b, IsFiniteSet(a), IsFiniteSet(b), a \cap b = {}
      PROVE  IsFiniteSet(a \cup b) /\ Cardinality(a \cup b) = Cardinality(a) + Cardinality(b)
  <2>1. /\ IsFiniteSet(a \cup b)
        /\ Cardinality(a \cup b) = Cardinality(a) + Cardinality(b) - Cardinality(a \cap b)
    BY <1>9, FS_Union
  <2>2. Cardinality(a \cap b) = 0
    BY <1>9, FS_EmptySet
  <2>3. Cardinality(a) \in Nat /\ Cardinality(b) \in Nat
    BY <1>9, FS_CardinalityType
  <2> QED BY <2>1, <2>2, <2>3
<1> DEFINE gd == Range(granted) \cup DOMAIN settled
           pd == ParkedSet \cup gd
           wd == Range(waiting) \cup pd
<1>10. /\ Range(granted) \cap DOMAIN settled = {} /\ ParkedSet \cap gd = {}
       /\ Range(waiting) \cap pd = {} /\ Range(ingress) \cap wd = {}
  BY <1>1 DEF PlacesApart, Disjoint
<1>11. IsFiniteSet(gd) /\ Cardinality(gd) = Len(granted) + Cardinality(DOMAIN settled)
  BY <1>5, <1>7, <1>9, <1>10
<1>12. IsFiniteSet(pd) /\ Cardinality(pd) = pendingCount + Cardinality(gd)
  <2> HIDE DEF gd
  <2> QED BY <1>8, <1>9, <1>10, <1>11
<1>13. IsFiniteSet(wd) /\ Cardinality(wd) = Len(waiting) + Cardinality(pd)
  <2> HIDE DEF pd
  <2> QED BY <1>6, <1>9, <1>10, <1>12
<1>14. Cardinality(Arrived) = Len(ingress) + Cardinality(wd)
  <2>1. Arrived = Range(ingress) \cup wd
    BY DEF Arrived
  <2> HIDE DEF wd
  <2> QED BY <1>5, <1>9, <1>10, <1>13, <2>1, ZenonT(40)
<1>15. /\ Len(ingress) \in Nat /\ Len(waiting) \in Nat /\ Len(granted) \in Nat
       /\ pendingCount \in Nat /\ Cardinality(DOMAIN settled) \in Nat
  BY <1>1, <1>7, <1>8, LenProperties, FS_CardinalityType
<1>16. Len(ingress) + Len(waiting) + pendingCount + Len(granted)
          + Cardinality(DOMAIN settled) = arrivals
  <2> HIDE DEF wd, pd, gd
  <2> QED BY <1>4, <1>11, <1>12, <1>13, <1>14, <1>15
<1> QED BY <1>1, <1>16 DEF PlacesApart, Arrived, EveryMessageInOnePlace

\* Every message that was taken in is in exactly one place, and the stage's
\* counter is the number of parked ones: none is lost, none counted twice.
THEOREM NothingLost == PipelineSpec => []EveryMessageInOnePlace
<1>1. PipelineIInv => EveryMessageInOnePlace
  BY PlacesAddUp
<1> QED BY <1>1, PipelineInvariant, PTL
============================================================================
