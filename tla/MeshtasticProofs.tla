-------------------------- MODULE MeshtasticProofs --------------------------
(***************************************************************************)
(* Proof that the Meshtastic transport accounts for every slot and byte of *)
(* its reassembler, and hands over only what it heard whole, for any       *)
(* senders, frames on the air and limits.                                  *)
(***************************************************************************)
EXTENDS MeshtasticIngress, FiniteSetTheorems, WellFoundedInduction, TLAPS

-----------------------------------------------------------------------------
(***************************************************************************)
(* Sums.  MapThenSumSet is a recursion over the subsets of a finite set; a *)
(* sum gains what is added to the set, in whatever order it chooses.       *)
(***************************************************************************)
\* A non-empty family of subsets of a finite set has a smallest member.
LEMMA SmallestSubset ==
    ASSUME NEW S, IsFiniteSet(S), NEW T, T \subseteq SUBSET S, T # {}
    PROVE  \E t \in T : \A u \in T : u \subseteq t => u = t
<1>1. IsWellFoundedOn(StrictSubsetOrdering(S), FiniteSubsetsOf(S))
  BY FS_StrictSubsetOrderingWellFounded
<1>2. T \subseteq FiniteSubsetsOf(S)
  BY FS_Subset DEF FiniteSubsetsOf
<1>3. PICK t \in T : \A u \in T : <<u, t>> \notin StrictSubsetOrdering(S)
  BY <1>1, <1>2, WFMin
<1>4. \A u \in T : u \subseteq t => u = t
  BY <1>3 DEF StrictSubsetOrdering
<1> QED BY <1>4

\* The element the recursion takes from a set.
Chosen(s) == CHOOSE x \in s : TRUE

\* F is the recursion on this family of sets.
Sums(F, family, w) ==
    F = [s \in family |->
            IF s = {} THEN 0 ELSE w[Chosen(s)] + F[s \ {Chosen(s)}]]

\* Chosen takes a member.
LEMMA ChosenIsMember ==
    ASSUME NEW s, s # {}
    PROVE  Chosen(s) \in s
BY DEF Chosen

\* Every set of numbers has a least one.
LEMMA LeastNumber ==
    ASSUME NEW T, T \subseteq Nat, T # {}
    PROVE  \E x \in T : \A y \in T : x <= y
<1>1. IsWellFoundedOn(OpToRel(<, Nat), Nat)
  BY NatLessThanWellFounded
<1>2. PICK x \in T : \A y \in T : ~ (<<y, x>> \in OpToRel(<, Nat))
  BY <1>1, WFMin
<1>3. \A y \in T : ~ (y < x)
  BY <1>2 DEF OpToRel
<1> QED BY <1>3

\* The recursion is defined on all subsets of a finite set: it extends from
\* the sets of at most n elements to those of one more.
LEMMA SumExists ==
    ASSUME NEW S, IsFiniteSet(S), NEW w
    PROVE  \E F : Sums(F, SUBSET S, w)
<1> DEFINE upTo(n) == {s \in SUBSET S : Cardinality(s) <= n}
           missing == {n \in Nat : ~\E F : Sums(F, upTo(n), w)}
<1>1. \A s \in SUBSET S : IsFiniteSet(s) /\ Cardinality(s) \in Nat
                            /\ Cardinality(s) <= Cardinality(S)
  BY FS_Subset, FS_CardinalityType
<1>2. missing = {}
  <2> SUFFICES ASSUME missing # {} PROVE FALSE
    OBVIOUS
  <2>1. PICK n \in missing : \A m \in missing : n <= m
    <3>1. missing \subseteq Nat
      OBVIOUS
    <3> HIDE DEF missing
    <3> QED BY <3>1, LeastNumber
  <2>2. n \in Nat /\ ~\E F : Sums(F, upTo(n), w)
    BY <2>1
  <2>3. n # 0
    <3> SUFFICES ASSUME n = 0 PROVE FALSE
      OBVIOUS
    <3>1. \A s \in upTo(0) : s = {}
      BY <1>1, FS_EmptySet
    <3> DEFINE F == [s \in upTo(0) |-> 0]
    <3>2. Sums(F, upTo(0), w)
      BY <3>1 DEF Sums
    <3> QED BY <2>2, <3>2
  <2>4. n - 1 \in Nat /\ n - 1 \notin missing
    <3> HIDE DEF missing
    <3> QED BY <2>1, <2>2, <2>3
  <2>5. PICK G : Sums(G, upTo(n - 1), w)
    BY <2>4
  <2> DEFINE rec(s) == IF s = {} THEN 0 ELSE w[Chosen(s)] + G[s \ {Chosen(s)}]
             F == [s \in upTo(n) |-> rec(s)]
  <2>6. \A s \in upTo(n - 1) : s \in upTo(n) /\ F[s] = G[s]
    <3>1. \A s \in upTo(n - 1) : G[s] = rec(s)
      BY <2>5 DEF Sums
    <3>2. \A s \in upTo(n - 1) : s \in upTo(n)
      BY <1>1, <2>2
    <3> QED BY <3>1, <3>2
  <2>7. \A s \in upTo(n) : s # {} => s \ {Chosen(s)} \in upTo(n - 1)
    <3> SUFFICES ASSUME NEW s \in SUBSET S, Cardinality(s) <= n, s # {}
                 PROVE  s \ {Chosen(s)} \in SUBSET S /\ Cardinality(s \ {Chosen(s)}) <= n - 1
      OBVIOUS
    <3>1. Cardinality(s \ {Chosen(s)}) = Cardinality(s) - 1
      BY <1>1, ChosenIsMember, FS_RemoveElement
    <3> QED BY <1>1, <2>2, <3>1
  <2> HIDE DEF upTo
  <2>8. \A s \in upTo(n) : F[s] = IF s = {} THEN 0 ELSE w[Chosen(s)] + F[s \ {Chosen(s)}]
    BY <2>6, <2>7
  <2>9. F = [s \in upTo(n) |-> F[s]]
    OBVIOUS
  <2> HIDE DEF F
  <2>10. Sums(F, upTo(n), w)
    BY <2>8, <2>9 DEF Sums
  <2> QED BY <2>2, <2>10
<1>3. Cardinality(S) \in Nat
  BY FS_CardinalityType
<1>4. upTo(Cardinality(S)) = SUBSET S
  BY <1>1
<1> QED BY <1>2, <1>3, <1>4

\* A sum can be taken apart at any element.
Splits(F, S, w) ==
    \A t \in SUBSET S : F[t] \in Nat /\ \A x \in t : F[t] = w[x] + F[t \ {x}]

\* These weights are the same on this set.
Agree(S, w, v) == \A x \in S : w[x] = v[x]

\* Every sum of numbers can be taken apart at any element.
LEMMA SumTakesAny ==
    ASSUME NEW S, IsFiniteSet(S), NEW w \in [S -> Nat], NEW F, Sums(F, SUBSET S, w)
    PROVE  Splits(F, S, w)
<1> DEFINE good(t) == F[t] \in Nat /\ \A x \in t : F[t] = w[x] + F[t \ {x}]
           bad == {t \in SUBSET S : ~good(t)}
<1> SUFFICES ASSUME bad # {} PROVE FALSE
  BY DEF Splits
<1>1. PICK t \in bad : \A u \in bad : u \subseteq t => u = t
  <2>1. bad \subseteq SUBSET S
    OBVIOUS
  <2> HIDE DEF bad
  <2> QED BY <2>1, SmallestSubset
<1>2. t \in SUBSET S /\ ~good(t)
  BY <1>1
<1>3. \A u \in SUBSET t : u # t => good(u)
  BY <1>1, <1>2
<1>4. \A s \in SUBSET S : F[s] = IF s = {} THEN 0 ELSE w[Chosen(s)] + F[s \ {Chosen(s)}]
  BY DEF Sums
<1>5. t # {}
  <2> SUFFICES ASSUME t = {} PROVE FALSE
    OBVIOUS
  <2>1. F[{}] = 0
    BY <1>4
  <2>2. good({})
    BY <2>1
  <2> HIDE DEF good
  <2> QED BY <1>2, <2>2
<1> DEFINE c == Chosen(t)
<1>6. c \in t /\ F[t] = w[c] + F[t \ {c}]
  BY <1>2, <1>4, <1>5, ChosenIsMember
<1> HIDE DEF c
<1>7. \A x \in t : w[x] \in Nat /\ t \ {x} \in SUBSET t /\ t \ {x} # t
  BY <1>2
<1>8. F[t \ {c}] \in Nat /\ w[c] \in Nat
  BY <1>3, <1>6, <1>7
<1>9. F[t] \in Nat
  BY <1>6, <1>8
<1>10. ASSUME NEW x \in t, x # c PROVE F[t] = w[x] + F[t \ {x}]
  <2>1. F[t \ {c}] = w[x] + F[(t \ {c}) \ {x}]
    <3>1. good(t \ {c}) /\ x \in t \ {c}
      BY <1>3, <1>6, <1>7, <1>10
    <3> QED BY <3>1
  <2>2. F[t \ {x}] = w[c] + F[(t \ {x}) \ {c}]
    <3>1. good(t \ {x}) /\ c \in t \ {x}
      BY <1>3, <1>6, <1>7, <1>10
    <3> QED BY <3>1
  <2>3. (t \ {c}) \ {x} = (t \ {x}) \ {c}
    OBVIOUS
  <2>4. F[(t \ {x}) \ {c}] \in Nat
    <3>1. (t \ {x}) \ {c} \in SUBSET t /\ (t \ {x}) \ {c} # t
      BY <1>6
    <3> QED BY <1>3, <3>1
  <2>5. w[x] \in Nat
    BY <1>7
  <2> DEFINE p == w[x]
             q == w[c]
             r == F[(t \ {x}) \ {c}]
  <2>6. F[t] = q + (p + r) /\ F[t \ {x}] = q + r
    BY <1>6, <2>1, <2>2, <2>3
  <2>7. p \in Nat /\ q \in Nat /\ r \in Nat
    BY <1>8, <2>4, <2>5
  <2> HIDE DEF p, q, r
  <2>8. F[t] = p + F[t \ {x}]
    BY <2>6, <2>7
  <2> QED BY <2>8 DEF p
<1> QED BY <1>2, <1>6, <1>9, <1>10

\* What a sum over a part says does not depend on the whole.
LEMMA SumAgrees ==
    ASSUME NEW S, IsFiniteSet(S), NEW T \in SUBSET S, NEW w, NEW v,
           NEW F, Sums(F, SUBSET S, w), NEW G, Sums(G, SUBSET T, v),
           Agree(T, w, v)
    PROVE  Agree({T}, F, G)
<1> DEFINE bad == {t \in SUBSET T : F[t] # G[t]}
<1> SUFFICES ASSUME bad # {} PROVE FALSE
  BY DEF Agree
<1>1. PICK t \in bad : \A u \in bad : u \subseteq t => u = t
  <2>1. bad \subseteq SUBSET S
    OBVIOUS
  <2> HIDE DEF bad
  <2> QED BY <2>1, SmallestSubset
<1>2. t \in SUBSET T /\ t \in SUBSET S /\ F[t] # G[t]
  BY <1>1
<1>3. /\ F[t] = IF t = {} THEN 0 ELSE w[Chosen(t)] + F[t \ {Chosen(t)}]
      /\ G[t] = IF t = {} THEN 0 ELSE v[Chosen(t)] + G[t \ {Chosen(t)}]
  BY <1>2 DEF Sums
<1>4. t # {} /\ Chosen(t) \in t
  BY <1>2, <1>3, ChosenIsMember
<1>5. t \ {Chosen(t)} \notin bad
  BY <1>1, <1>4
<1>6. F[t \ {Chosen(t)}] = G[t \ {Chosen(t)}]
  BY <1>2, <1>5
<1>7. w[Chosen(t)] = v[Chosen(t)]
  BY <1>2, <1>4 DEF Agree
<1> QED BY <1>2, <1>3, <1>6, <1>7

\* The weights of the filled slots.
Weights(f) == [i \in DOMAIN f |-> Size[f[i]]]

\* Bytes is such a sum.
LEMMA BytesIsSum ==
    ASSUME NEW f, IsFiniteSet(DOMAIN f)
    PROVE  \E F : Sums(F, SUBSET DOMAIN f, Weights(f)) /\ Bytes(f) = F[DOMAIN f]
<1> DEFINE isIter(g) ==
        g = [s \in SUBSET DOMAIN f |->
                IF s = {} THEN 0
                ELSE Size[f[CHOOSE x \in s : TRUE]] + g[s \ {CHOOSE x \in s : TRUE}]]
<1>1. ASSUME NEW g PROVE isIter(g) <=> Sums(g, SUBSET DOMAIN f, Weights(f))
  <2>1. \A s \in SUBSET DOMAIN f : s # {} => Weights(f)[Chosen(s)] = Size[f[Chosen(s)]]
    BY ChosenIsMember DEF Weights
  <2> QED BY <2>1 DEF Sums, Chosen
<1>2. PICK F : Sums(F, SUBSET DOMAIN f, Weights(f))
  BY SumExists
<1>3. Bytes(f) = (CHOOSE g : isIter(g))[DOMAIN f]
  BY DEF Bytes, MapThenSumSet, MapThenFoldSet
<1> HIDE DEF isIter
<1>4. isIter(F)
  BY <1>1, <1>2
<1>5. isIter(CHOOSE g : isIter(g))
  BY <1>4
<1> QED BY <1>1, <1>3, <1>5

\* The sum G is the sum F and this weight.
Gains(G, S, F, T, weight) == F[T] \in Nat /\ G[S] = weight + F[T]

\* A sum over one more element gains its weight.
LEMMA SumGrows ==
    ASSUME NEW S, NEW T, IsFiniteSet(S), NEW x \in S, T = S \ {x},
           NEW w \in [S -> Nat], NEW v \in [T -> Nat],
           NEW G, Sums(G, SUBSET S, w), NEW F, Sums(F, SUBSET T, v),
           Agree(T, w, v)
    PROVE  Gains(G, S, F, T, w[x])
<1>1. IsFiniteSet(T) /\ T \in SUBSET S
  BY FS_Subset
<1>2. F[T] \in Nat
  <2>1. Splits(F, T, v)
    BY <1>1, SumTakesAny
  <2> QED BY <2>1 DEF Splits
<1>3. G[S] = w[x] + G[S \ {x}]
  <2>1. Splits(G, S, w)
    BY SumTakesAny
  <2> QED BY <2>1 DEF Splits
<1>4. G[T] = F[T]
  <2>1. Agree({T}, G, F)
    BY <1>1, SumAgrees
  <2> QED BY <2>1 DEF Agree
<1> QED BY <1>2, <1>3, <1>4 DEF Gains

\* A body more adds its size.
LEMMA BytesGrow ==
    ASSUME NEW f, IsFiniteSet(DOMAIN f), \A i \in DOMAIN f : f[i] \in Body,
           NEW slot, slot \notin DOMAIN f, NEW body \in Body,
           NEW g, DOMAIN g = DOMAIN f \cup {slot}, g[slot] = body,
           \A i \in DOMAIN f : g[i] = f[i]
    PROVE  /\ Bytes(f) \in Nat
           /\ Bytes(g) = Bytes(f) + Size[body]
<1>2. IsFiniteSet(DOMAIN g)
  BY FS_AddElement
<1>3. PICK F : Sums(F, SUBSET DOMAIN f, Weights(f)) /\ Bytes(f) = F[DOMAIN f]
  BY BytesIsSum
<1>4. PICK G : Sums(G, SUBSET DOMAIN g, Weights(g)) /\ Bytes(g) = G[DOMAIN g]
  BY <1>2, BytesIsSum
<1>5. \A b \in Body : Size[b] \in Nat
  BY ReassemblyConstants
<1>6. Weights(f) \in [DOMAIN f -> Nat] /\ Weights(g) \in [DOMAIN g -> Nat]
  BY <1>5 DEF Weights
<1>7. Agree(DOMAIN f, Weights(g), Weights(f))
  BY DEF Weights, Agree
<1>8. slot \in DOMAIN g /\ DOMAIN f = DOMAIN g \ {slot}
  OBVIOUS
<1>9. F[DOMAIN f] \in Nat /\ G[DOMAIN g] = Weights(g)[slot] + F[DOMAIN f]
  <2>1. Gains(G, DOMAIN g, F, DOMAIN f, Weights(g)[slot])
    BY <1>2, <1>3, <1>4, <1>6, <1>7, <1>8, SumGrows
  <2> QED BY <2>1 DEF Gains
<1>10. Weights(g)[slot] = Size[body] /\ Size[body] \in Nat
  BY <1>5 DEF Weights
<1> QED BY <1>3, <1>4, <1>9, <1>10

LEMMA BytesPut ==
    ASSUME NEW f, IsFiniteSet(DOMAIN f), \A i \in DOMAIN f : f[i] \in Body,
           NEW slot, slot \notin DOMAIN f, NEW body \in Body
    PROVE  /\ Bytes(f) \in Nat
           /\ Bytes(Put(f, slot, body)) = Bytes(f) + Size[body]
<1>1. /\ DOMAIN Put(f, slot, body) = DOMAIN f \cup {slot}
      /\ Put(f, slot, body)[slot] = body
      /\ \A i \in DOMAIN f : Put(f, slot, body)[i] = f[i]
  BY DEF Put
<1> QED BY <1>1, BytesGrow

\* A first body counts alone.
LEMMA BytesFirst ==
    ASSUME NEW slot, NEW body \in Body
    PROVE  Bytes([i \in {slot} |-> body]) = Size[body]
<1> DEFINE f == [i \in {} |-> body]
<1>1. DOMAIN f = {} /\ IsFiniteSet(DOMAIN f)
  BY FS_EmptySet
<1>2. PICK F : Sums(F, SUBSET DOMAIN f, Weights(f)) /\ Bytes(f) = F[DOMAIN f]
  BY <1>1, BytesIsSum
<1>3. Bytes(f) = 0
  BY <1>1, <1>2 DEF Sums
<1>4. Put(f, slot, body) = [i \in {slot} |-> body]
  BY DEF Put
<1>5. Bytes(Put(f, slot, body)) = Bytes(f) + Size[body]
  BY <1>1, BytesPut
<1>6. Size[body] \in Nat
  BY ReassemblyConstants
<1> QED BY <1>3, <1>4, <1>5, <1>6

-----------------------------------------------------------------------------
(***************************************************************************)
(* The inductive invariant.                                                *)
(***************************************************************************)
\* An assembly in progress; `fragments' has the filled slots only.
Assembly ==
    [count     : 2 .. MaxFragmentCount,
     fragments : UNION {[slots -> Body] : slots \in SUBSET (1 .. MaxFragmentCount)},
     received  : Nat,
     total     : Nat]

\* Its counters agree with its slots, and a slot is missing.
Sound(a) ==
    /\ a \in Assembly
    /\ DOMAIN a.fragments \subseteq 1 .. a.count
    /\ a.received = Cardinality(DOMAIN a.fragments)
    /\ a.received < a.count
    /\ a.total = Bytes(a.fragments)
    /\ a.total <= MaxReassembledBytes

\* The assemblies are a finite map, and every one of them is sound.
AssembliesSound ==
    /\ assemblies = [key \in DOMAIN assemblies |-> assemblies[key]]
    /\ DOMAIN assemblies \subseteq Keys
    /\ IsFiniteSet(DOMAIN assemblies)
    /\ \A key \in DOMAIN assemblies : Sound(assemblies[key])
    /\ idle \subseteq DOMAIN assemblies
    /\ overdue \subseteq DOMAIN assemblies

AssembliesOf(sender) == {k \in DOMAIN assemblies : k.sender = sender}

\* The count of a sender is the number of its assemblies.
CountsSound ==
    /\ pendingPerSender \in [DOMAIN pendingPerSender -> Nat]
    /\ DOMAIN pendingPerSender \subseteq Sender
    /\ Cardinality(DOMAIN assemblies) <= MaxPending
    /\ \A sender \in Sender :
          /\ SenderPending(sender) = Cardinality(AssembliesOf(sender))
          /\ SenderPending(sender) <= MaxPendingPerSender
    /\ \A sender \in DOMAIN pendingPerSender : pendingPerSender[sender] > 0

\* Where the task may be, and that nothing outlives a session.
TaskSound ==
    /\ spc \in {"top", "connect", "serve", "send", "backoff", "ended"}
    /\ backoff \in MinBackoff .. MaxBackoff
    /\ stopping \in BOOLEAN
    /\ outbox = NoMessage <=> spc # "send"
    /\ spc \in {"serve", "send"} \/ assemblies = [k \in {} |-> 0]

\* A frame in which this body of this message was heard.
Heard(key, slot, count, body) ==
    [sender |-> key.sender,
     frame  |-> [id |-> key.id, index |-> slot, count |-> count, body |-> body]]

\* A filled slot holds a body that was heard in a frame of that sender, that
\* message, that index and that count.
SlotsWereHeard ==
    \A key \in DOMAIN assemblies : \A i \in DOMAIN assemblies[key].fragments :
        Heard(key, i, assemblies[key].count, assemblies[key].fragments[i]) \in heard

MeshInv ==
    /\ AssembliesSound
    /\ CountsSound
    /\ TaskSound
    /\ SlotsWereHeard
    /\ HandedOverWasHeard

-----------------------------------------------------------------------------
(***************************************************************************)
(* What accept() and the sweep do to the maps.                             *)
(***************************************************************************)
\* The slots of an assembly are finitely many numbers, and hold bodies.
LEMMA SlotsFinite ==
    ASSUME NEW a, Sound(a)
    PROVE  /\ IsFiniteSet(DOMAIN a.fragments)
           /\ \A i \in DOMAIN a.fragments : a.fragments[i] \in Body
           /\ a.count \in 2 .. MaxFragmentCount /\ a.received \in Nat /\ a.total \in Nat
           /\ IsFiniteSet(1 .. a.count) /\ Cardinality(1 .. a.count) = a.count
<1>1. a.count \in 2 .. MaxFragmentCount /\ a.received \in Nat /\ a.total \in Nat
  BY DEF Sound, Assembly
<1>2. PICK slots \in SUBSET (1 .. MaxFragmentCount) : a.fragments \in [slots -> Body]
  BY DEF Sound, Assembly
<1>3. IsFiniteSet(1 .. a.count) /\ Cardinality(1 .. a.count) = a.count
  <2>1. a.count \in Nat /\ a.count >= 2
    BY <1>1, ReassemblyConstants
  <2> HIDE DEF Assembly
  <2> QED BY <2>1, FS_Interval, SMTT(40)
<1>4. IsFiniteSet(DOMAIN a.fragments)
  BY <1>3, FS_Subset DEF Sound
<1> QED BY <1>1, <1>2, <1>3, <1>4

\* A frame that fits fills a slot that was empty, within the limit.
LEMMA FilledKeeps ==
    ASSUME AssembliesSound, NEW key, Known(key), NEW frame \in FragmentFrame, Fits(key, frame)
    PROVE  LET a == assemblies[key]
               b == Filled(key, frame)
           IN  /\ a.count = frame.count /\ frame.index \notin DOMAIN a.fragments
               /\ b \in Assembly /\ b.count = a.count
               /\ b.fragments = Put(a.fragments, frame.index, frame.body)
               /\ DOMAIN b.fragments = DOMAIN a.fragments \cup {frame.index}
               /\ DOMAIN b.fragments \subseteq 1 .. b.count
               /\ b.received = Cardinality(DOMAIN b.fragments)
               /\ b.total = Bytes(b.fragments) /\ b.total <= MaxReassembledBytes
<1> DEFINE a == assemblies[key]
           b == Filled(key, frame)
           f == Put(a.fragments, frame.index, frame.body)
<1>1. Sound(a) /\ a \in Assembly
  BY DEF AssembliesSound, Known, Sound
<1>2. /\ frame.index \in 1 .. MaxFragmentCount /\ frame.count \in 2 .. MaxFragmentCount
      /\ frame.index <= frame.count /\ frame.body \in Body
  BY DEF FragmentFrame
<1>3. /\ a.count = frame.count
      /\ frame.index \notin DOMAIN a.fragments
      /\ ~(a.total + Size[frame.body] > MaxReassembledBytes)
  BY DEF Fits, Mismatch, Duplicate, Oversize
<1>4. /\ IsFiniteSet(DOMAIN a.fragments)
      /\ \A i \in DOMAIN a.fragments : a.fragments[i] \in Body
      /\ a.received \in Nat /\ a.total \in Nat
  BY <1>1, SlotsFinite
<1>5. Size[frame.body] \in Nat /\ MaxReassembledBytes \in Nat
  BY <1>2, ReassemblyConstants
<1>6. b = [count |-> a.count, fragments |-> f, received |-> a.received + 1,
           total |-> a.total + Size[frame.body]]
  <2>1. a = [count |-> a.count, fragments |-> a.fragments, received |-> a.received,
             total |-> a.total]
    BY <1>1 DEF Assembly
  <2>2. b = [a EXCEPT !.fragments = Put(@, frame.index, frame.body),
                      !.received = @ + 1, !.total = @ + Size[frame.body]]
    BY DEF Filled
  <2> HIDE DEF a, b
  <2> QED BY <2>1, <2>2
<1>7. /\ DOMAIN f = DOMAIN a.fragments \cup {frame.index}
      /\ f \in [DOMAIN f -> Body]
  BY <1>2, <1>4 DEF Put
<1>8. Bytes(f) = a.total + Size[frame.body]
  BY <1>1, <1>2, <1>3, <1>4, BytesPut DEF Sound
<1>9. Cardinality(DOMAIN f) = a.received + 1
  BY <1>1, <1>3, <1>4, <1>7, FS_AddElement DEF Sound
<1>10. DOMAIN a.fragments \subseteq 1 .. a.count /\ a.count \in 2 .. MaxFragmentCount
  BY <1>1 DEF Sound, Assembly
<1> HIDE DEF f, a, b
<1>11. DOMAIN f \subseteq 1 .. a.count
  BY <1>2, <1>3, <1>7, <1>10
<1>12. f \in UNION {[slots -> Body] : slots \in SUBSET (1 .. MaxFragmentCount)}
  <2>1. DOMAIN f \in SUBSET (1 .. MaxFragmentCount)
    BY <1>10, <1>11, ReassemblyConstants
  <2> QED BY <1>7, <2>1
<1>13. b \in Assembly
  BY <1>4, <1>5, <1>6, <1>10, <1>12 DEF Assembly
<1>14. b.total <= MaxReassembledBytes
  BY <1>3, <1>4, <1>5, <1>6
<1> QED BY <1>3, <1>6, <1>7, <1>8, <1>9, <1>11, <1>13, <1>14 DEF a, b, f

\* What a frame of the air is.
LEMMA FrameIs ==
    ASSUME NEW frame \in FragmentFrame
    PROVE  /\ frame = [id |-> frame.id, index |-> frame.index, count |-> frame.count,
                       body |-> frame.body]
           /\ frame.id \in MessageId /\ frame.body \in Body
           /\ frame.index \in 1 .. MaxFragmentCount
           /\ frame.count \in 2 .. MaxFragmentCount
           /\ frame.index <= frame.count
BY DEF FragmentFrame

\* A slot of an assembly comes from the assembly before or from this frame.
FilledFrom(key, frame) ==
    \A k \in DOMAIN assemblies' : \A i \in DOMAIN assemblies'[k].fragments :
        \/ /\ k \in DOMAIN assemblies
           /\ i \in DOMAIN assemblies[k].fragments
           /\ assemblies'[k].count = assemblies[k].count
           /\ assemblies'[k].fragments[i] = assemblies[k].fragments[i]
        \/ /\ k = key
           /\ i = frame.index
           /\ assemblies'[k].count = frame.count
           /\ assemblies'[k].fragments[i] = frame.body

\* A new assembly takes one place, and its sender one more.
LEMMA BeginKeeps ==
    ASSUME AssembliesSound, CountsSound, NEW sender \in Sender,
           NEW frame \in FragmentFrame, Begin(Key(sender, frame), frame)
    PROVE  AssembliesSound' /\ CountsSound' /\ FilledFrom(Key(sender, frame), frame)
<1> DEFINE key == Key(sender, frame)
           first == [count     |-> frame.count,
                     fragments |-> [i \in {frame.index} |-> frame.body],
                     received  |-> 1,
                     total     |-> Size[frame.body]]
<1>1. key \in Keys /\ key.sender = sender
  BY FrameIs DEF Key, Keys
<1>2. /\ key \notin DOMAIN assemblies
      /\ ~(Cardinality(DOMAIN assemblies) >= MaxPending)
      /\ ~(SenderPending(sender) >= MaxPendingPerSender)
      /\ ~(Size[frame.body] > MaxReassembledBytes)
  BY <1>1 DEF Begin, Known, Refused
<1>3. /\ assemblies' = Put(assemblies, key, first)
      /\ pendingPerSender' = Put(pendingPerSender, sender, SenderPending(sender) + 1)
      /\ idle' = idle /\ overdue' = overdue
  BY <1>1 DEF Begin
<1>4. /\ DOMAIN assemblies' = DOMAIN assemblies \cup {key}
      /\ assemblies' = [k \in DOMAIN assemblies' |-> assemblies'[k]]
      /\ assemblies'[key] = first
      /\ \A k \in DOMAIN assemblies : assemblies'[k] = assemblies[k]
  BY <1>2, <1>3 DEF Put
<1>5. Sound(first)
  <2>1. first.fragments = [i \in {frame.index} |-> frame.body] /\ first.count = frame.count
        /\ first.received = 1 /\ first.total = Size[frame.body]
    OBVIOUS
  <2>2. Size[frame.body] \in Nat /\ MaxReassembledBytes \in Nat /\ MaxFragmentCount \in Nat
    BY FrameIs, ReassemblyConstants
  <2>3. first \in Assembly
    <3>1. first.fragments \in [{frame.index} -> Body] /\ {frame.index} \in SUBSET (1 .. MaxFragmentCount)
      BY FrameIs
    <3>2. first.fragments \in UNION {[slots -> Body] : slots \in SUBSET (1 .. MaxFragmentCount)}
      BY <3>1
    <3>3. first.count \in 2 .. MaxFragmentCount /\ first.received \in Nat /\ first.total \in Nat
      BY FrameIs, <2>1, <2>2
    <3> QED BY <3>2, <3>3 DEF Assembly
  <2>4. DOMAIN first.fragments = {frame.index}
    OBVIOUS
  <2>5. Cardinality(DOMAIN first.fragments) = 1
    BY <2>4, FS_Singleton
  <2>6. Bytes(first.fragments) = Size[frame.body]
    BY <2>1, FrameIs, BytesFirst
  <2>7. DOMAIN first.fragments \subseteq 1 .. first.count /\ first.received < first.count
    BY <2>1, <2>2, <2>4, FrameIs
  <2>8. first.total <= MaxReassembledBytes
    BY <1>2, <2>1, <2>2
  <2> HIDE DEF first
  <2> QED BY <2>1, <2>3, <2>5, <2>6, <2>7, <2>8 DEF Sound
<1>6. AssembliesSound'
  <2>1. IsFiniteSet(DOMAIN assemblies')
    BY <1>4, FS_AddElement DEF AssembliesSound
  <2>2. \A k \in DOMAIN assemblies' : Sound(assemblies'[k])
    BY <1>4, <1>5 DEF AssembliesSound
  <2>3. /\ DOMAIN assemblies' \subseteq Keys
        /\ idle' \subseteq DOMAIN assemblies'
        /\ overdue' \subseteq DOMAIN assemblies'
    BY <1>1, <1>3, <1>4 DEF AssembliesSound
  <2> QED BY <1>4, <2>1, <2>2, <2>3 DEF AssembliesSound
<1>7. CountsSound'
  <2>1. Cardinality(DOMAIN assemblies') <= MaxPending
    <3>1. Cardinality(DOMAIN assemblies') = Cardinality(DOMAIN assemblies) + 1
      BY <1>2, <1>4, FS_AddElement DEF AssembliesSound
    <3>2. Cardinality(DOMAIN assemblies) \in Nat /\ MaxPending \in Nat
      BY FS_CardinalityType, ReassemblyConstants DEF AssembliesSound
    <3> QED BY <1>2, <3>1, <3>2
  <2>2. SenderPending(sender) \in Nat /\ MaxPendingPerSender \in Nat
    BY ReassemblyConstants DEF CountsSound, SenderPending
  <2>3. /\ pendingPerSender' \in [DOMAIN pendingPerSender' -> Nat]
        /\ DOMAIN pendingPerSender' = DOMAIN pendingPerSender \cup {sender}
        /\ pendingPerSender'[sender] = SenderPending(sender) + 1
        /\ \A s \in DOMAIN pendingPerSender : s # sender =>
              pendingPerSender'[s] = pendingPerSender[s]
    BY <1>3, <2>2 DEF Put, CountsSound
  <2>4. \A s \in DOMAIN pendingPerSender' : pendingPerSender'[s] > 0
    BY <2>2, <2>3 DEF CountsSound
  <2>5. ASSUME NEW s \in Sender
        PROVE  /\ SenderPending(s)' = Cardinality(AssembliesOf(s)')
               /\ SenderPending(s)' <= MaxPendingPerSender
    <3>1. IsFiniteSet(AssembliesOf(s))
      BY FS_Subset DEF AssembliesOf, AssembliesSound
    <3>2. CASE s = sender
      <4>1. AssembliesOf(s)' = AssembliesOf(s) \cup {key} /\ key \notin AssembliesOf(s)
        BY <1>1, <1>2, <1>4, <3>2 DEF AssembliesOf
      <4>2. Cardinality(AssembliesOf(s)') = Cardinality(AssembliesOf(s)) + 1
        BY <3>1, <4>1, FS_AddElement
      <4>3. SenderPending(s)' = SenderPending(s) + 1
        BY <2>3, <3>2 DEF SenderPending
      <4> QED BY <1>2, <2>2, <3>2, <4>2, <4>3 DEF CountsSound
    <3>3. CASE s # sender
      <4>1. AssembliesOf(s)' = AssembliesOf(s)
        BY <1>1, <1>4, <3>3 DEF AssembliesOf
      <4>2. SenderPending(s)' = SenderPending(s)
        BY <2>3, <3>3 DEF SenderPending
      <4> QED BY <4>1, <4>2 DEF CountsSound
    <3> QED BY <3>2, <3>3
  <2>6. DOMAIN pendingPerSender' \subseteq Sender
    BY <2>3 DEF CountsSound
  <2> QED BY <2>1, <2>3, <2>4, <2>5, <2>6 DEF CountsSound
<1>8. FilledFrom(key, frame)
  <2> SUFFICES ASSUME NEW k \in DOMAIN assemblies', NEW i \in DOMAIN assemblies'[k].fragments
               PROVE  \/ /\ k \in DOMAIN assemblies
                         /\ i \in DOMAIN assemblies[k].fragments
                         /\ assemblies'[k].count = assemblies[k].count
                         /\ assemblies'[k].fragments[i] = assemblies[k].fragments[i]
                      \/ /\ k = key
                         /\ i = frame.index
                         /\ assemblies'[k].count = frame.count
                         /\ assemblies'[k].fragments[i] = frame.body
    BY DEF FilledFrom
  <2>1. CASE k = key
    BY <1>4, <2>1
  <2>2. CASE k # key
    BY <1>4, <2>2
  <2> QED BY <2>1, <2>2
<1> QED BY <1>6, <1>7, <1>8

\* A known assembly gains a slot.
LEMMA ProgressKeeps ==
    ASSUME AssembliesSound, CountsSound, NEW sender \in Sender,
           NEW frame \in FragmentFrame, Progress(Key(sender, frame), frame)
    PROVE  AssembliesSound' /\ CountsSound' /\ FilledFrom(Key(sender, frame), frame)
<1> DEFINE key == Key(sender, frame)
           a == assemblies[key]
           b == Filled(key, frame)
<1>1. /\ key \in DOMAIN assemblies
      /\ Fits(key, frame)
      /\ b.received < frame.count
      /\ assemblies' = [assemblies EXCEPT ![key] = b]
      /\ idle' = idle \ {key}
      /\ pendingPerSender' = pendingPerSender /\ overdue' = overdue
  BY DEF Progress, Known
<1>2. /\ a.count = frame.count
      /\ b \in Assembly /\ b.count = a.count
      /\ b.fragments = Put(a.fragments, frame.index, frame.body)
      /\ DOMAIN b.fragments = DOMAIN a.fragments \cup {frame.index}
      /\ DOMAIN b.fragments \subseteq 1 .. b.count
      /\ b.received = Cardinality(DOMAIN b.fragments)
      /\ b.total = Bytes(b.fragments) /\ b.total <= MaxReassembledBytes
  BY <1>1, FilledKeeps DEF Known
<1>3. Sound(b)
  BY <1>1, <1>2 DEF Sound
<1> HIDE DEF key, b
<1>4. /\ DOMAIN assemblies' = DOMAIN assemblies
      /\ assemblies' = [k \in DOMAIN assemblies' |-> assemblies'[k]]
      /\ assemblies'[key] = b
      /\ \A k \in DOMAIN assemblies : k # key => assemblies'[k] = assemblies[k]
  BY <1>1 DEF AssembliesSound
<1>5. AssembliesSound'
  <2>1. \A k \in DOMAIN assemblies' : Sound(assemblies'[k])
    BY <1>3, <1>4 DEF AssembliesSound
  <2> QED BY <1>1, <1>4, <2>1 DEF AssembliesSound
<1>6. CountsSound'
  <2>1. \A s \in Sender : AssembliesOf(s)' = AssembliesOf(s) /\ SenderPending(s)' = SenderPending(s)
    BY <1>1, <1>4 DEF AssembliesOf, SenderPending
  <2> QED BY <1>1, <1>4, <2>1 DEF CountsSound
<1>7. FilledFrom(key, frame)
  <2> SUFFICES ASSUME NEW k \in DOMAIN assemblies', NEW i \in DOMAIN assemblies'[k].fragments
               PROVE  \/ /\ k \in DOMAIN assemblies
                         /\ i \in DOMAIN assemblies[k].fragments
                         /\ assemblies'[k].count = assemblies[k].count
                         /\ assemblies'[k].fragments[i] = assemblies[k].fragments[i]
                      \/ /\ k = key
                         /\ i = frame.index
                         /\ assemblies'[k].count = frame.count
                         /\ assemblies'[k].fragments[i] = frame.body
    BY DEF FilledFrom
  <2>1. CASE k = key
    <3>1. i = frame.index => b.fragments[i] = frame.body
      BY <1>2 DEF Put
    <3>2. i # frame.index => i \in DOMAIN a.fragments /\ b.fragments[i] = a.fragments[i]
      <4>1. i \in DOMAIN a.fragments \cup {frame.index}
        BY <1>2, <1>4, <2>1
      <4> QED BY <1>2, <4>1 DEF Put
    <3> QED BY <1>1, <1>2, <1>4, <2>1, <3>1, <3>2
  <2>2. CASE k # key
    BY <1>4, <2>2
  <2> QED BY <2>1, <2>2
<1> QED BY <1>5, <1>6, <1>7 DEF key

\* Discarding assemblies releases as many places of each sender.
LEMMA DiscardKeeps ==
    ASSUME AssembliesSound, CountsSound, NEW keys, keys \subseteq DOMAIN assemblies,
           DiscardAll(keys)
    PROVE  /\ AssembliesSound' /\ CountsSound'
           /\ DOMAIN assemblies' = DOMAIN assemblies \ keys
           /\ \A k \in DOMAIN assemblies' : assemblies'[k] = assemblies[k]
<1> DEFINE of(s) == {k \in keys : k.sender = s}
           gone(s) == Cardinality(of(s))
<1>1. /\ assemblies' = [k \in DOMAIN assemblies \ keys |-> assemblies[k]]
      /\ pendingPerSender' =
            [s \in {t \in DOMAIN pendingPerSender : pendingPerSender[t] > gone(t)} |->
                pendingPerSender[s] - gone(s)]
      /\ idle' = idle \ keys
      /\ overdue' = overdue \ keys
  BY DEF DiscardAll, Restrict
<1>2. /\ DOMAIN assemblies' = DOMAIN assemblies \ keys
      /\ \A k \in DOMAIN assemblies' : assemblies'[k] = assemblies[k]
      /\ assemblies' = [k \in DOMAIN assemblies' |-> assemblies'[k]]
  BY <1>1
<1>3. IsFiniteSet(DOMAIN assemblies') /\ Cardinality(DOMAIN assemblies') <= Cardinality(DOMAIN assemblies)
  BY <1>2, FS_Subset DEF AssembliesSound
<1>4. AssembliesSound'
  BY <1>1, <1>2, <1>3 DEF AssembliesSound
<1>5. ASSUME NEW s \in Sender
      PROVE  /\ gone(s) \in Nat
             /\ Cardinality(AssembliesOf(s)) \in Nat
             /\ Cardinality(AssembliesOf(s)') = Cardinality(AssembliesOf(s)) - gone(s)
             /\ Cardinality(AssembliesOf(s)') \in Nat
  <2>1. IsFiniteSet(AssembliesOf(s))
    BY FS_Subset DEF AssembliesOf, AssembliesSound
  <2>2. AssembliesOf(s)' = AssembliesOf(s) \ of(s) /\ AssembliesOf(s) \cap of(s) = of(s)
        /\ of(s) \subseteq AssembliesOf(s)
    BY <1>2 DEF AssembliesOf
  <2> HIDE DEF of
  <2>3. IsFiniteSet(of(s)) /\ IsFiniteSet(AssembliesOf(s)')
    BY <2>1, <2>2, FS_Subset
  <2> QED BY <2>1, <2>2, <2>3, FS_Difference, FS_CardinalityType
<1> HIDE DEF of, gone
<1>6. \A s \in DOMAIN pendingPerSender : pendingPerSender[s] \in Nat /\ s \in Sender
  BY DEF CountsSound
<1>7. \A s \in DOMAIN pendingPerSender' :
         /\ s \in DOMAIN pendingPerSender
         /\ pendingPerSender[s] > gone(s)
         /\ pendingPerSender'[s] = pendingPerSender[s] - gone(s)
         /\ pendingPerSender'[s] \in Nat
         /\ pendingPerSender'[s] > 0
  BY <1>1, <1>5, <1>6
<1>8. pendingPerSender' \in [DOMAIN pendingPerSender' -> Nat]
  BY <1>1, <1>7
<1>9. ASSUME NEW s \in Sender
      PROVE  /\ SenderPending(s)' = Cardinality(AssembliesOf(s)')
             /\ SenderPending(s)' <= MaxPendingPerSender
  <2>1. /\ SenderPending(s) = Cardinality(AssembliesOf(s))
        /\ SenderPending(s) <= MaxPendingPerSender
    BY DEF CountsSound
  <2>2. MaxPendingPerSender \in Nat
    BY ReassemblyConstants
  <2>3. CASE s \in DOMAIN pendingPerSender'
    <3>1. SenderPending(s)' = SenderPending(s) - gone(s)
      BY <1>7, <2>3 DEF SenderPending
    <3> QED BY <1>5, <2>1, <2>2, <3>1
  <2>4. CASE s \notin DOMAIN pendingPerSender'
    <3>1. SenderPending(s)' = 0
      BY <2>4 DEF SenderPending
    <3>2. ~(SenderPending(s) > gone(s))
      BY <1>1, <1>5, <2>4 DEF SenderPending
    <3> QED BY <1>5, <2>1, <2>2, <3>1, <3>2
  <2> QED BY <2>3, <2>4
<1>10. CountsSound'
  <2>1. DOMAIN pendingPerSender' \subseteq Sender
    BY <1>6, <1>7
  <2>2. Cardinality(DOMAIN assemblies') <= MaxPending
    BY <1>3, FS_CardinalityType, ReassemblyConstants DEF AssembliesSound, CountsSound
  <2> QED BY <1>7, <1>8, <1>9, <2>1, <2>2 DEF CountsSound
<1> QED BY <1>2, <1>4, <1>10

-----------------------------------------------------------------------------
(***************************************************************************)
(* The steps of the transport.                                             *)
(***************************************************************************)
\* Nothing of what the assemblies still need is forgotten.
LEMMA HearKeeps ==
    ASSUME AssembliesSound', NEW frames, Hear(frames),
           \A k \in DOMAIN assemblies' : \A i \in DOMAIN assemblies'[k].fragments :
              Heard(k, i, assemblies'[k].count, assemblies'[k].fragments[i])
                 \in heard \cup frames
    PROVE  SlotsWereHeard'
<1> SUFFICES ASSUME NEW k \in DOMAIN assemblies', NEW i \in DOMAIN assemblies'[k].fragments
             PROVE  Heard(k, i, assemblies'[k].count, assemblies'[k].fragments[i]) \in heard'
  BY DEF SlotsWereHeard, Heard
<1> DEFINE h == Heard(k, i, assemblies'[k].count, assemblies'[k].fragments[i])
<1>1. h \in heard \cup frames
  OBVIOUS
<1>2. Key(h.sender, h.frame) = k
  <2>1. k = [sender |-> k.sender, id |-> k.id]
    BY DEF AssembliesSound, Keys
  <2> QED BY <2>1 DEF Heard, Key
<1> HIDE DEF h
<1>3. h \in heard'
  BY <1>1, <1>2 DEF Hear
<1> QED BY <1>3 DEF h

\* The frame that fills a slot is heard as it does.
LEMMA FrameFills ==
    ASSUME SlotsWereHeard, NEW sender \in Sender, NEW frame \in FragmentFrame,
           FilledFrom(Key(sender, frame), frame)
    PROVE  \A k \in DOMAIN assemblies' : \A i \in DOMAIN assemblies'[k].fragments :
              Heard(k, i, assemblies'[k].count, assemblies'[k].fragments[i])
                 \in heard \cup {[sender |-> sender, frame |-> frame]}
<1> SUFFICES ASSUME NEW k \in DOMAIN assemblies', NEW i \in DOMAIN assemblies'[k].fragments
             PROVE  Heard(k, i, assemblies'[k].count, assemblies'[k].fragments[i])
                       \in heard \cup {[sender |-> sender, frame |-> frame]}
  OBVIOUS
<1> DEFINE key == Key(sender, frame)
<1>1. Heard(key, frame.index, frame.count, frame.body) = [sender |-> sender, frame |-> frame]
  BY FrameIs DEF Heard, Key
<1>2. CASE /\ k \in DOMAIN assemblies
           /\ i \in DOMAIN assemblies[k].fragments
           /\ assemblies'[k].count = assemblies[k].count
           /\ assemblies'[k].fragments[i] = assemblies[k].fragments[i]
  BY <1>2 DEF SlotsWereHeard
<1>3. CASE /\ k = key
           /\ i = frame.index
           /\ assemblies'[k].count = frame.count
           /\ assemblies'[k].fragments[i] = frame.body
  BY <1>1, <1>3
<1> QED BY <1>2, <1>3 DEF FilledFrom

\* Assemblies that only go, or stay, leave nothing unheard.
LEMMA GoneKeeps ==
    ASSUME SlotsWereHeard, DOMAIN assemblies' \subseteq DOMAIN assemblies,
           \A k \in DOMAIN assemblies' : assemblies'[k] = assemblies[k], NEW frames
    PROVE  \A k \in DOMAIN assemblies' : \A i \in DOMAIN assemblies'[k].fragments :
              Heard(k, i, assemblies'[k].count, assemblies'[k].fragments[i])
                 \in heard \cup frames
BY DEF SlotsWereHeard

\* The end of a session leaves nothing.
LEMMA EndKeeps ==
    ASSUME CountsSound, EndSession
    PROVE  /\ AssembliesSound' /\ CountsSound' /\ SlotsWereHeard'
           /\ assemblies' = [k \in {} |-> 0] /\ outbox' = NoMessage
<1>1. /\ assemblies' = [k \in {} |-> 0] /\ DOMAIN assemblies' = {}
      /\ pendingPerSender' = [s \in {} |-> 0] /\ DOMAIN pendingPerSender' = {}
      /\ idle' = {} /\ overdue' = {}
      /\ outbox' = NoMessage
  BY DEF EndSession
<1>2. IsFiniteSet(DOMAIN assemblies') /\ Cardinality(DOMAIN assemblies') = 0
  BY <1>1, FS_EmptySet
<1>3. assemblies' = [key \in DOMAIN assemblies' |-> assemblies'[key]]
  BY <1>1
<1>4. AssembliesSound'
  BY <1>1, <1>2, <1>3 DEF AssembliesSound
<1>5. \A s \in Sender : SenderPending(s)' = 0 /\ AssembliesOf(s)' = {}
  BY <1>1 DEF SenderPending, AssembliesOf
<1>6. CountsSound'
  <2>1. pendingPerSender' \in [DOMAIN pendingPerSender' -> Nat]
    BY <1>1
  <2>2. MaxPending \in Nat /\ MaxPendingPerSender \in Nat
    BY ReassemblyConstants
  <2>3. \A s \in Sender : Cardinality(AssembliesOf(s)') = 0
    BY <1>5, FS_EmptySet
  <2> QED BY <1>1, <1>2, <1>5, <2>1, <2>2, <2>3 DEF CountsSound
<1>7. SlotsWereHeard'
  BY <1>1 DEF SlotsWereHeard
<1> QED BY <1>1, <1>4, <1>6, <1>7

\* What is handed over is a message, not the absence of one.
LEMMA HandOverTask ==
    ASSUME TaskSound, spc = "serve", NEW sender, NEW payload, HandOver(sender, payload),
           backoff' = backoff, stopping' = stopping
    PROVE  TaskSound'
<1>1. [sender |-> sender, payload |-> payload] # NoMessage
  BY DEF NoMessage
<1> QED BY <1>1 DEF TaskSound, HandOver

\* A SINGLE frame is heard whole.
LEMMA HearSingleKeeps ==
    ASSUME MeshInv, NEW sender \in Sender, NEW body \in Single, HearSingle(sender, body)
    PROVE  MeshInv'
<1> DEFINE h == [sender |-> sender,
                 frame  |-> [id |-> MessageIdOf(<<body>>), index |-> 1,
                             count |-> 1, body |-> body]]
<1>1. /\ spc = "serve" /\ HandOver(sender, <<body>>)
      /\ assemblies' = assemblies /\ pendingPerSender' = pendingPerSender
      /\ idle' = idle /\ overdue' = overdue
      /\ backoff' = backoff /\ stopping' = stopping
      /\ Hear({h})
  BY DEF HearSingle, reassemblyVars
<1> HIDE DEF h
<1>2. AssembliesSound'
  BY <1>1 DEF MeshInv, AssembliesSound
<1>3. CountsSound'
  BY <1>1 DEF MeshInv, CountsSound, SenderPending, AssembliesOf
<1>4. TaskSound'
  BY <1>1, HandOverTask DEF MeshInv
<1>5. SlotsWereHeard'
  BY <1>1, <1>2, GoneKeeps, HearKeeps DEF MeshInv
<1>6. HandedOverWasHeard'
  <2> SUFFICES ASSUME spc' = "send", NEW i \in DOMAIN outbox'.payload
               PROVE  [sender |-> outbox'.sender,
                       frame  |-> [id    |-> MessageIdOf(outbox'.payload),
                                   index |-> i,
                                   count |-> Len(outbox'.payload),
                                   body  |-> outbox'.payload[i]]] \in heard'
    BY DEF HandedOverWasHeard
  <2>1. outbox' = [sender |-> sender, payload |-> <<body>>]
    BY <1>1 DEF HandOver
  <2>2. outbox'.payload = <<body>> /\ outbox'.sender = sender
    BY <2>1
  <2>3. i = 1 /\ Len(outbox'.payload) = 1 /\ outbox'.payload[i] = body
    BY <2>2
  <2>4. heard' = heard \cup {h}
    BY <1>1 DEF Hear
  <2> QED BY <2>2, <2>3, <2>4 DEF h
<1> QED BY <1>2, <1>3, <1>4, <1>5, <1>6 DEF MeshInv

\* Nothing is handed over when the task keeps serving.
LEMMA ServesOn ==
    ASSUME TaskSound, spc = "serve", spc' = spc, backoff' = backoff, stopping' = stopping,
           outbox' = outbox
    PROVE  TaskSound' /\ HandedOverWasHeard'
BY DEF TaskSound, HandedOverWasHeard

\* A FRAGMENT frame that completes nothing.
LEMMA HearPartKeeps ==
    ASSUME MeshInv, NEW sender \in Sender, NEW frame \in FragmentFrame,
           HearPart(sender, frame)
    PROVE  MeshInv'
<1> DEFINE key == Key(sender, frame)
           h == [sender |-> sender, frame |-> frame]
<1>1. /\ spc = "serve" /\ spc' = spc /\ backoff' = backoff /\ stopping' = stopping
      /\ outbox' = outbox /\ Hear({h})
  BY DEF HearPart
<1>2. TaskSound' /\ HandedOverWasHeard'
  BY <1>1, ServesOn DEF MeshInv
<1>3. CASE Begin(key, frame)
  <2>1. AssembliesSound' /\ CountsSound' /\ FilledFrom(key, frame)
    BY <1>3, BeginKeeps DEF MeshInv
  <2>2. SlotsWereHeard'
    BY <1>1, <2>1, FrameFills, HearKeeps DEF MeshInv
  <2> QED BY <1>2, <2>1, <2>2 DEF MeshInv
<1>4. CASE Progress(key, frame)
  <2>1. AssembliesSound' /\ CountsSound' /\ FilledFrom(key, frame)
    BY <1>4, ProgressKeeps DEF MeshInv
  <2>2. SlotsWereHeard'
    BY <1>1, <2>1, FrameFills, HearKeeps DEF MeshInv
  <2> QED BY <1>2, <2>1, <2>2 DEF MeshInv
<1>5. CASE Poison(key, frame)
  <2>1. {key} \subseteq DOMAIN assemblies /\ DiscardAll({key})
    BY <1>5 DEF Poison, Known
  <2>2. /\ AssembliesSound' /\ CountsSound'
        /\ DOMAIN assemblies' = DOMAIN assemblies \ {key}
        /\ \A k \in DOMAIN assemblies' : assemblies'[k] = assemblies[k]
    BY <2>1, DiscardKeeps DEF MeshInv
  <2>3. SlotsWereHeard'
    BY <1>1, <2>2, GoneKeeps, HearKeeps DEF MeshInv
  <2> QED BY <1>2, <2>2, <2>3 DEF MeshInv
<1>6. CASE Ignore(key, frame)
  <2>1. /\ assemblies' = assemblies /\ pendingPerSender' = pendingPerSender
        /\ idle' = idle /\ overdue' = overdue
    BY <1>6 DEF Ignore, reassemblyVars
  <2>2. AssembliesSound'
    BY <2>1 DEF MeshInv, AssembliesSound
  <2>3. CountsSound'
    BY <2>1 DEF MeshInv, CountsSound, SenderPending, AssembliesOf
  <2>4. SlotsWereHeard'
    BY <1>1, <2>1, <2>2, GoneKeeps, HearKeeps DEF MeshInv
  <2> QED BY <1>2, <2>2, <2>3, <2>4 DEF MeshInv
<1> QED BY <1>3, <1>4, <1>5, <1>6 DEF HearPart

\* The payload that complete() puts together has every slot filled, each with
\* a body that was heard.
LEMMA CompleteIsHeard ==
    ASSUME AssembliesSound, SlotsWereHeard, NEW sender \in Sender,
           NEW frame \in FragmentFrame, LastFragment(Key(sender, frame), frame)
    PROVE  /\ Concatenated(Key(sender, frame), frame) \in Seq(Body)
           /\ Len(Concatenated(Key(sender, frame), frame)) = frame.count
           /\ \A i \in 1 .. frame.count :
                 Heard(Key(sender, frame), i, frame.count,
                       Concatenated(Key(sender, frame), frame)[i])
                    \in heard \cup {[sender |-> sender, frame |-> frame]}
<1> DEFINE key == Key(sender, frame)
           a == assemblies[key]
           b == Filled(key, frame)
           p == Concatenated(key, frame)
<1>1. Known(key) /\ Fits(key, frame) /\ b.received = frame.count
  BY DEF LastFragment
<1>2. /\ a.count = frame.count
      /\ b \in Assembly /\ b.count = a.count
      /\ b.fragments = Put(a.fragments, frame.index, frame.body)
      /\ DOMAIN b.fragments = DOMAIN a.fragments \cup {frame.index}
      /\ DOMAIN b.fragments \subseteq 1 .. b.count
      /\ b.received = Cardinality(DOMAIN b.fragments)
  BY <1>1, FilledKeeps
<1>3. /\ frame.count \in Nat /\ IsFiniteSet(1 .. frame.count)
      /\ Cardinality(1 .. frame.count) = frame.count
  <2>1. frame.count \in Nat /\ frame.count >= 2
    BY FrameIs, ReassemblyConstants
  <2> QED BY <2>1, FS_Interval, SMTT(40)
<1>4. DOMAIN b.fragments = 1 .. frame.count
  BY <1>1, <1>2, <1>3, FS_Subset
<1>5. \A i \in DOMAIN b.fragments : b.fragments[i] \in Body
  <2>1. PICK slots \in SUBSET (1 .. MaxFragmentCount) : b.fragments \in [slots -> Body]
    BY <1>2 DEF Assembly
  <2> QED BY <2>1
<1>6. p = [i \in 1 .. frame.count |-> b.fragments[i]]
  BY DEF Concatenated
<1> HIDE DEF b, p
<1>7. p \in Seq(Body) /\ Len(p) = frame.count
  BY <1>3, <1>4, <1>5, <1>6
<1>8. Heard(key, frame.index, frame.count, frame.body) = [sender |-> sender, frame |-> frame]
  BY FrameIs DEF Heard, Key
<1>9. ASSUME NEW i \in 1 .. frame.count
      PROVE  Heard(key, i, frame.count, p[i]) \in heard \cup {[sender |-> sender, frame |-> frame]}
  <2>1. p[i] = b.fragments[i]
    BY <1>6
  <2>2. CASE i = frame.index
    <3>1. b.fragments[i] = frame.body
      BY <1>2, <2>2 DEF Put
    <3> QED BY <1>8, <2>1, <2>2, <3>1
  <2>3. CASE i # frame.index
    <3>1. i \in DOMAIN a.fragments
      BY <1>2, <1>4, <2>3
    <3>2. b.fragments[i] = a.fragments[i]
      BY <1>2, <2>3, <3>1 DEF Put
    <3> QED BY <1>1, <1>2, <2>1, <3>1, <3>2 DEF SlotsWereHeard, Known
  <2> QED BY <2>2, <2>3
<1> QED BY <1>7, <1>9 DEF p

\* The last missing fragment: its assembly goes, and what is handed over was
\* heard.
LEMMA HearLastKeeps ==
    ASSUME MeshInv, NEW sender \in Sender, NEW frame \in FragmentFrame,
           HearLast(sender, frame)
    PROVE  MeshInv'
<1> DEFINE key == Key(sender, frame)
           h == [sender |-> sender, frame |-> frame]
           p == Concatenated(key, frame)
<1>1. /\ spc = "serve" /\ backoff' = backoff /\ stopping' = stopping
      /\ LastFragment(key, frame) /\ DiscardAll({key}) /\ Hear({h})
      /\ IF Verified(key, frame) THEN HandOver(sender, p) ELSE UNCHANGED <<spc, outbox>>
  BY DEF HearLast
<1>2. {key} \subseteq DOMAIN assemblies
  BY <1>1 DEF LastFragment, Known
<1>3. /\ AssembliesSound' /\ CountsSound'
      /\ DOMAIN assemblies' = DOMAIN assemblies \ {key}
      /\ \A k \in DOMAIN assemblies' : assemblies'[k] = assemblies[k]
  BY <1>1, <1>2, DiscardKeeps DEF MeshInv
<1>4. SlotsWereHeard'
  BY <1>1, <1>3, GoneKeeps, HearKeeps DEF MeshInv
<1>5. CASE Verified(key, frame) /\ Decodes(p)
  <2>1. HandOver(sender, p)
    BY <1>1, <1>5
  <2>2. TaskSound'
    BY <1>1, <2>1, HandOverTask DEF MeshInv
  <2>3. spc' = "send" /\ outbox' = [sender |-> sender, payload |-> p]
    BY <1>5, <2>1 DEF HandOver
  <2>4. heard' = heard \cup {h}
    BY <1>1, <2>3 DEF Hear
  <2>5. /\ p \in Seq(Body) /\ Len(p) = frame.count
        /\ \A i \in 1 .. frame.count :
              Heard(key, i, frame.count, p[i]) \in heard \cup {h}
    BY <1>1, CompleteIsHeard DEF MeshInv
  <2>6. MessageIdOf(p) = key.id
    BY <1>5 DEF Verified
  <2>7. outbox'.payload = p /\ outbox'.sender = sender
    BY <2>3
  <2>8. key.sender = sender
    BY DEF Key
  <2> HIDE DEF p, h, key
  <2>9. HandedOverWasHeard'
    <3> SUFFICES ASSUME spc' = "send", NEW i \in DOMAIN outbox'.payload
                 PROVE  [sender |-> outbox'.sender,
                         frame  |-> [id    |-> MessageIdOf(outbox'.payload),
                                     index |-> i,
                                     count |-> Len(outbox'.payload),
                                     body  |-> outbox'.payload[i]]] \in heard'
      BY DEF HandedOverWasHeard
    <3>1. i \in 1 .. frame.count
      BY <2>5, <2>7
    <3>2. Heard(key, i, frame.count, p[i]) \in heard'
      BY <2>4, <2>5, <3>1
    <3> QED BY <2>5, <2>6, <2>7, <2>8, <3>2 DEF Heard
  <2> QED BY <1>3, <1>4, <2>2, <2>9 DEF MeshInv
<1>6. CASE ~(Verified(key, frame) /\ Decodes(p))
  <2>1. spc' = spc /\ outbox' = outbox
    BY <1>1, <1>6 DEF HandOver
  <2>2. TaskSound' /\ HandedOverWasHeard'
    BY <1>1, <2>1, ServesOn DEF MeshInv
  <2> QED BY <1>3, <1>4, <2>2 DEF MeshInv
<1> QED BY <1>5, <1>6

\* A step that leaves the reassembler and the frames heard alone.
LEMMA OnlyTheTask ==
    ASSUME MeshInv, UNCHANGED <<reassemblyVars, heard>>
    PROVE  AssembliesSound' /\ CountsSound' /\ SlotsWereHeard'
<1>1. /\ assemblies' = assemblies /\ pendingPerSender' = pendingPerSender
      /\ idle' = idle /\ overdue' = overdue /\ heard' = heard
  BY DEF reassemblyVars
<1>2. AssembliesSound'
  BY <1>1 DEF MeshInv, AssembliesSound
<1>3. CountsSound'
  BY <1>1 DEF MeshInv, CountsSound, SenderPending, AssembliesOf
<1>4. SlotsWereHeard'
  BY <1>1 DEF MeshInv, SlotsWereHeard, Heard
<1> QED BY <1>2, <1>3, <1>4

\* The delay stays between its bounds.
LEMMA BackoffBounded ==
    ASSUME backoff \in MinBackoff .. MaxBackoff
    PROVE  /\ MinBackoff \in MinBackoff .. MaxBackoff
           /\ (IF 2 * backoff <= MaxBackoff THEN 2 * backoff ELSE MaxBackoff)
                 \in MinBackoff .. MaxBackoff
BY MeshtasticConstants

\* The invariant holds at the start.
LEMMA MeshInitially ==
    ASSUME MeshInit
    PROVE  MeshInv
<1>1. /\ assemblies = [k \in {} |-> 0] /\ DOMAIN assemblies = {}
      /\ pendingPerSender = [s \in {} |-> 0] /\ DOMAIN pendingPerSender = {}
      /\ idle = {} /\ overdue = {}
      /\ spc = "top" /\ backoff = MinBackoff /\ stopping = FALSE /\ outbox = NoMessage
  BY DEF MeshInit, ReassemblyInit
<1>2. IsFiniteSet(DOMAIN assemblies) /\ Cardinality(DOMAIN assemblies) = 0
  BY <1>1, FS_EmptySet
<1>3. AssembliesSound
  <2>1. assemblies = [key \in DOMAIN assemblies |-> assemblies[key]]
    BY <1>1
  <2> QED BY <1>1, <1>2, <2>1 DEF AssembliesSound
<1>4. CountsSound
  <2>1. \A s \in Sender : SenderPending(s) = 0 /\ AssembliesOf(s) = {}
    BY <1>1 DEF SenderPending, AssembliesOf
  <2>2. \A s \in Sender : Cardinality(AssembliesOf(s)) = 0
    BY <2>1, FS_EmptySet
  <2>3. MaxPending \in Nat /\ MaxPendingPerSender \in Nat
    BY ReassemblyConstants
  <2>4. pendingPerSender \in [DOMAIN pendingPerSender -> Nat]
    BY <1>1
  <2> QED BY <1>1, <1>2, <2>1, <2>2, <2>3, <2>4 DEF CountsSound
<1>5. TaskSound
  <2>1. MinBackoff \in MinBackoff .. MaxBackoff
    BY MeshtasticConstants
  <2>2. stopping \in BOOLEAN /\ backoff \in MinBackoff .. MaxBackoff
    BY <1>1, <2>1
  <2>3. outbox = NoMessage <=> spc # "send"
    BY <1>1
  <2> QED BY <1>1, <2>2, <2>3 DEF TaskSound
<1>6. SlotsWereHeard /\ HandedOverWasHeard
  BY <1>1 DEF SlotsWereHeard, HandedOverWasHeard
<1> QED BY <1>3, <1>4, <1>5, <1>6 DEF MeshInv

\* Every step keeps it.
LEMMA MeshStep ==
    ASSUME MeshInv, [MeshNext]_meshVars
    PROVE  MeshInv'
<1>1. TaskSound
  BY DEF MeshInv
<1>2. CASE TryAgain
  <2>1. AssembliesSound' /\ CountsSound' /\ SlotsWereHeard'
    BY <1>2, OnlyTheTask DEF TryAgain
  <2>2. TaskSound' /\ HandedOverWasHeard'
    BY <1>1, <1>2 DEF TryAgain, TaskSound, HandedOverWasHeard, reassemblyVars
  <2> QED BY <2>1, <2>2 DEF MeshInv
<1>3. CASE ConnectFails
  <2>1. AssembliesSound' /\ CountsSound' /\ SlotsWereHeard'
    BY <1>3, OnlyTheTask DEF ConnectFails
  <2>2. TaskSound' /\ HandedOverWasHeard'
    BY <1>1, <1>3 DEF ConnectFails, TaskSound, HandedOverWasHeard, reassemblyVars
  <2> QED BY <2>1, <2>2 DEF MeshInv
<1>4. CASE Connects
  <2>1. AssembliesSound' /\ CountsSound' /\ SlotsWereHeard'
    BY <1>4, OnlyTheTask DEF Connects
  <2>2. TaskSound' /\ HandedOverWasHeard'
    BY <1>1, <1>4, BackoffBounded DEF Connects, TaskSound, HandedOverWasHeard, reassemblyVars
  <2> QED BY <2>1, <2>2 DEF MeshInv
<1>5. CASE BackoffEnds
  <2>1. AssembliesSound' /\ CountsSound' /\ SlotsWereHeard'
    BY <1>5, OnlyTheTask DEF BackoffEnds
  <2>2. TaskSound' /\ HandedOverWasHeard'
    BY <1>1, <1>5, BackoffBounded DEF BackoffEnds, TaskSound, HandedOverWasHeard, reassemblyVars
  <2> QED BY <2>1, <2>2 DEF MeshInv
<1>6. CASE Disconnected \/ Stops \/ SendFails
  <2>1. /\ EndSession /\ backoff' = backoff /\ stopping' = stopping
        /\ spc' \in {"backoff", "ended"}
    BY <1>6 DEF Disconnected, Stops, SendFails
  <2>2. /\ AssembliesSound' /\ CountsSound' /\ SlotsWereHeard'
        /\ assemblies' = [k \in {} |-> 0] /\ outbox' = NoMessage
    BY <2>1, EndKeeps DEF MeshInv
  <2>3. TaskSound' /\ HandedOverWasHeard'
    BY <1>1, <2>1, <2>2 DEF TaskSound, HandedOverWasHeard
  <2> QED BY <2>2, <2>3 DEF MeshInv
<1>7. ASSUME NEW sender \in Sender, NEW body \in Single, HearSingle(sender, body)
      PROVE  MeshInv'
  BY <1>7, HearSingleKeeps
<1>8. ASSUME NEW sender \in Sender, NEW frame \in Air[sender],
             HearPart(sender, frame) \/ HearLast(sender, frame)
      PROVE  MeshInv'
  <2>1. frame \in FragmentFrame
    BY MeshtasticConstants
  <2> QED BY <1>8, <2>1, HearPartKeeps, HearLastKeeps
<1>9. CASE Sweep
  <2>1. /\ spc = "serve" /\ spc' = spc /\ backoff' = backoff /\ stopping' = stopping
        /\ outbox' = outbox /\ DiscardAll(Expired) /\ Hear({})
    BY <1>9 DEF Sweep, SweepExpired
  <2>2. Expired \subseteq DOMAIN assemblies
    BY DEF Expired, MeshInv, AssembliesSound
  <2>3. /\ AssembliesSound' /\ CountsSound'
        /\ DOMAIN assemblies' = DOMAIN assemblies \ Expired
        /\ \A k \in DOMAIN assemblies' : assemblies'[k] = assemblies[k]
    BY <2>1, <2>2, DiscardKeeps DEF MeshInv
  <2>4. SlotsWereHeard'
    BY <2>1, <2>3, GoneKeeps, HearKeeps DEF MeshInv
  <2>5. TaskSound' /\ HandedOverWasHeard'
    BY <1>1, <2>1, ServesOn
  <2> QED BY <2>3, <2>4, <2>5 DEF MeshInv
<1>10. CASE Sent
  <2>1. /\ spc = "send" /\ spc' = "serve" /\ outbox' = NoMessage
        /\ assemblies' = assemblies /\ pendingPerSender' = pendingPerSender
        /\ idle' = idle /\ overdue' = overdue
        /\ backoff' = backoff /\ stopping' = stopping /\ Hear({})
    BY <1>10 DEF Sent, reassemblyVars
  <2>2. AssembliesSound'
    BY <2>1 DEF MeshInv, AssembliesSound
  <2>3. CountsSound'
    BY <2>1 DEF MeshInv, CountsSound, SenderPending, AssembliesOf
  <2>4. SlotsWereHeard'
    BY <2>1, <2>2, GoneKeeps, HearKeeps DEF MeshInv
  <2>5. TaskSound' /\ HandedOverWasHeard'
    BY <1>1, <2>1 DEF TaskSound, HandedOverWasHeard
  <2> QED BY <2>2, <2>3, <2>4, <2>5 DEF MeshInv
<1>11. CASE ShutdownComes
  <2>1. AssembliesSound' /\ CountsSound' /\ SlotsWereHeard'
    BY <1>11, OnlyTheTask DEF ShutdownComes
  <2>2. TaskSound'
    BY <1>1, <1>11 DEF ShutdownComes, TaskSound, reassemblyVars
  <2>3. HandedOverWasHeard'
    BY <1>11 DEF ShutdownComes, HandedOverWasHeard, MeshInv
  <2> QED BY <2>1, <2>2, <2>3 DEF MeshInv
<1>12. ASSUME NEW key \in Keys, TimePasses(key)
       PROVE  MeshInv'
  <2>1. /\ assemblies' = assemblies /\ pendingPerSender' = pendingPerSender
        /\ idle' \subseteq idle \cup {key} /\ overdue' \subseteq overdue \cup {key}
        /\ key \in DOMAIN assemblies
        /\ spc' = spc /\ backoff' = backoff /\ stopping' = stopping
        /\ outbox' = outbox /\ heard' = heard
    BY <1>12 DEF TimePasses, IdleLapses, AbsoluteLapses, Known
  <2>2. AssembliesSound'
    BY <2>1 DEF MeshInv, AssembliesSound
  <2>3. CountsSound'
    BY <2>1 DEF MeshInv, CountsSound, SenderPending, AssembliesOf
  <2>4. SlotsWereHeard'
    BY <2>1 DEF MeshInv, SlotsWereHeard, Heard
  <2>5. TaskSound'
    BY <1>1, <2>1 DEF TaskSound
  <2>6. HandedOverWasHeard'
    BY <2>1 DEF MeshInv, HandedOverWasHeard
  <2> QED BY <2>2, <2>3, <2>4, <2>5, <2>6 DEF MeshInv
<1>13. CASE UNCHANGED meshVars
  <2>1. UNCHANGED <<reassemblyVars, heard>> /\ spc' = spc /\ backoff' = backoff
        /\ stopping' = stopping /\ outbox' = outbox /\ assemblies' = assemblies
        /\ heard' = heard
    BY <1>13 DEF meshVars, reassemblyVars
  <2>2. AssembliesSound' /\ CountsSound' /\ SlotsWereHeard'
    BY <2>1, OnlyTheTask
  <2>3. TaskSound'
    BY <1>1, <2>1 DEF TaskSound
  <2>4. HandedOverWasHeard'
    BY <2>1 DEF MeshInv, HandedOverWasHeard
  <2> QED BY <2>2, <2>3, <2>4 DEF MeshInv
<1> QED BY <1>2, <1>3, <1>4, <1>5, <1>6, <1>7, <1>8, <1>9, <1>10, <1>11, <1>12, <1>13
        DEF MeshNext

-----------------------------------------------------------------------------
\* The invariant holds in every state the transport reaches, whatever the air
\* loses, repeats, reorders or garbles and whenever sessions end.
THEOREM MeshInvariant == MeshSpec => []MeshInv
<1>1. MeshInit => MeshInv
  BY MeshInitially
<1>2. MeshInv /\ [MeshNext]_meshVars => MeshInv'
  BY MeshStep
<1> QED BY <1>1, <1>2, PTL DEF MeshSpec

\* The accounting of reassembly.rs: the pending counts of the senders, the
\* received counts and the byte totals always agree with the maps, and all
\* stay within the limits of ReassemblerConfig, for any limits.
THEOREM SlotsStayAccounted == MeshSpec => []SlotsAccounted
<1>1. MeshInv => SlotsAccounted
  <2> SUFFICES ASSUME MeshInv PROVE SlotsAccounted
    OBVIOUS
  <2>1. ReassemblyTypeOK
    <3>1. ASSUME NEW key \in DOMAIN assemblies
          PROVE  /\ DOMAIN assemblies[key] = {"count", "fragments", "received", "total"}
                 /\ DOMAIN assemblies[key].fragments \subseteq 1 .. assemblies[key].count
                 /\ Range(assemblies[key].fragments) \subseteq Body
      <4> DEFINE a == assemblies[key]
      <4>1. Sound(a)
        BY DEF MeshInv, AssembliesSound
      <4>2. DOMAIN a = {"count", "fragments", "received", "total"}
        BY <4>1 DEF Sound, Assembly
      <4>3. Range(a.fragments) \subseteq Body
        BY <4>1, SlotsFinite DEF Range
      <4> QED BY <4>1, <4>2, <4>3 DEF Sound
    <3> QED BY <3>1 DEF ReassemblyTypeOK, MeshInv, AssembliesSound, CountsSound, Keys
  <2>2. MeshTypeOK
    BY <2>1 DEF MeshTypeOK, MeshInv, TaskSound
  <2>3. \A key \in DOMAIN assemblies : Sound(assemblies[key])
    BY DEF MeshInv, AssembliesSound
  <2>4. \A key \in DOMAIN assemblies :
           /\ assemblies[key].received = Cardinality(DOMAIN assemblies[key].fragments)
           /\ assemblies[key].received < assemblies[key].count
           /\ assemblies[key].total = Bytes(assemblies[key].fragments)
           /\ assemblies[key].total <= MaxReassembledBytes
    BY <2>3 DEF Sound
  <2>5. CountsSound
    BY DEF MeshInv
  <2>6. \A sender \in Sender :
           /\ SenderPending(sender) =
                 Cardinality({k \in DOMAIN assemblies : k.sender = sender})
           /\ SenderPending(sender) <= MaxPendingPerSender
    BY <2>5 DEF CountsSound, AssembliesOf
  <2> QED BY <2>2, <2>4, <2>5, <2>6 DEF SlotsAccounted, CountsSound
<1> QED BY <1>1, MeshInvariant, PTL

\* The transport hands to the pipeline only a payload it heard whole, from the
\* one sender it attributes it to, and whose hash is its message id.
THEOREM OnlyWhatWasHeard == MeshSpec => []HandedOverWasHeard
<1>1. MeshInv => HandedOverWasHeard
  BY DEF MeshInv
<1> QED BY <1>1, MeshInvariant, PTL
============================================================================
