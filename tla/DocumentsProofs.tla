--------------------------- MODULE DocumentsProofs ---------------------------
(***************************************************************************)
(* What the operations on documents do, for any keys: prefixes of nodes,   *)
(* what a merge adds, removes and leaves (IsPatch), that a tree stays a    *)
(* tree, and what a listing names. The recursive functions of Documents    *)
(* are CHOOSEn by their equations, so a lemma first shows that a function  *)
(* that satisfies them exists.                                             *)
(***************************************************************************)
EXTENDS Documents, SequenceTheorems, FiniteSetTheorems, TLAPS

(* Induction over the natural numbers, for a set instead of an operator.   *)
LEMMA NatInductionOnSets ==
    ASSUME NEW S, 0 \in S, \A n \in Nat : n \in S => n + 1 \in S
    PROVE  Nat \subseteq S
<1> DEFINE R == OpToRel(<,Nat)
           T == Nat \ S
<1> SUFFICES ASSUME T # {} PROVE FALSE
  OBVIOUS
<1>1. IsWellFoundedOn(R, Nat)
  BY NatLessThanWellFounded
<1>2. \A x, y \in Nat : y < x => <<y, x>> \in R
  BY DEF OpToRel
<1> HIDE DEF R
<1>3. PICK x \in T : \A y \in T : ~(<<y, x>> \in R)
  BY <1>1, WFMin
<1>4. x \in Nat /\ x # 0 /\ x - 1 \in Nat /\ x - 1 < x
  OBVIOUS
<1>5. x - 1 \in S
  BY <1>2, <1>3, <1>4
<1>6. (x - 1) + 1 \in S
  BY <1>4, <1>5
<1> QED
  BY <1>3, <1>4, <1>6

-----------------------------------------------------------------------------
(* Prefixes, by index: IsPrefix is defined by a concatenation.             *)
LEMMA PrefixByIndex ==
    ASSUME NEW K, NEW s \in Seq(K), NEW t \in Seq(K)
    PROVE  IsPrefix(s, t) <=> Len(s) <= Len(t) /\ \A i \in 1..Len(s) : s[i] = t[i]
<1>1. SubSeq(s, 1, Len(s)) = s
  BY SubSeqProperties, SeqEqual
<1> SUFFICES ASSUME Len(s) <= Len(t)
             PROVE  SubSeq(s, 1, Len(s)) = SubSeq(t, 1, Len(s))
                      <=> \A i \in 1..Len(s) : s[i] = t[i]
  BY DEF IsPrefix
<1>2. /\ SubSeq(t, 1, Len(s)) \in Seq(K)
      /\ Len(SubSeq(t, 1, Len(s))) = Len(s)
      /\ \A i \in 1..Len(s) : SubSeq(t, 1, Len(s))[i] = t[i]
  OBVIOUS
<1>3. ASSUME \A i \in 1..Len(s) : s[i] = t[i] PROVE s = SubSeq(t, 1, Len(s))
  BY <1>2, <1>3, SeqEqual
<1> QED
  BY <1>1, <1>2, <1>3

LEMMA PrefixIntro ==
    ASSUME NEW K, NEW s \in Seq(K), NEW t \in Seq(K), Len(s) <= Len(t),
           \A i \in 1..Len(s) : s[i] = t[i]
    PROVE  IsPrefix(s, t)
BY PrefixByIndex

LEMMA PrefixElim ==
    ASSUME NEW K, NEW s \in Seq(K), NEW t \in Seq(K), IsPrefix(s, t)
    PROVE  Len(s) <= Len(t) /\ \A i \in 1..Len(s) : s[i] = t[i]
BY PrefixByIndex

(* The prefix order on the nodes of a document.                            *)
LEMMA PrefixReflexive ==
    ASSUME NEW K, NEW n \in Seq(K)
    PROVE  IsPrefix(n, n)
BY PrefixIntro

LEMMA PrefixEmpty ==
    ASSUME NEW K, NEW n \in Seq(K)
    PROVE  IsPrefix(<<>>, n)
BY DEF IsPrefix

LEMMA PrefixAntisymmetric ==
    ASSUME NEW K, NEW m \in Seq(K), NEW n \in Seq(K), IsPrefix(m, n), IsPrefix(n, m)
    PROVE  m = n
<1>1. Len(m) <= Len(n) /\ \A i \in 1..Len(m) : m[i] = n[i]
  BY PrefixElim
<1>2. Len(n) <= Len(m)
  BY PrefixElim
<1>3. Len(m) = Len(n)
  BY <1>1, <1>2
<1> QED
  BY <1>1, <1>3, SeqEqual

LEMMA PrefixTransitive ==
    ASSUME NEW K, NEW l \in Seq(K), NEW m \in Seq(K), NEW n \in Seq(K),
           IsPrefix(l, m), IsPrefix(m, n)
    PROVE  IsPrefix(l, n)
<1>1. Len(l) <= Len(m) /\ \A i \in 1..Len(l) : l[i] = m[i]
  BY PrefixElim
<1>2. Len(m) <= Len(n) /\ \A i \in 1..Len(m) : m[i] = n[i]
  BY PrefixElim
<1>3. Len(l) <= Len(n) /\ \A i \in 1..Len(l) : l[i] = n[i]
  BY <1>1, <1>2
<1> QED
  BY <1>3, PrefixIntro

LEMMA PrefixesComparable ==
    ASSUME NEW K, NEW l \in Seq(K), NEW m \in Seq(K), NEW n \in Seq(K),
           IsPrefix(l, n), IsPrefix(m, n)
    PROVE  IsPrefix(l, m) \/ IsPrefix(m, l)
<1>1. \A i \in 1..Len(l) : l[i] = n[i]
  BY PrefixElim
<1>2. \A i \in 1..Len(m) : m[i] = n[i]
  BY PrefixElim
<1>3. CASE Len(l) <= Len(m)
  <2>1. \A i \in 1..Len(l) : l[i] = m[i]
    BY <1>1, <1>2, <1>3
  <2> QED
    BY <2>1, <1>3, PrefixIntro
<1>4. CASE Len(m) <= Len(l)
  <2>1. \A i \in 1..Len(m) : m[i] = l[i]
    BY <1>1, <1>2, <1>4
  <2> QED
    BY <2>1, <1>4, PrefixIntro
<1> QED
  BY <1>3, <1>4

(* The children of a node, and the paths down to one.                      *)
LEMMA PrefixOfAppend ==
    ASSUME NEW K, NEW m \in Seq(K), NEW k \in K
    PROVE  /\ Append(m, k) \in Seq(K)
           /\ IsPrefix(m, Append(m, k))
           /\ ~IsPrefix(Append(m, k), m)
           /\ \A n \in Seq(K) : IsPrefix(n, Append(m, k)) => n = Append(m, k) \/ IsPrefix(n, m)
<1>0. SUFFICES ASSUME NEW a, a = Append(m, k)
               PROVE  /\ a \in Seq(K)
                    /\ IsPrefix(m, a)
                    /\ ~IsPrefix(a, m)
                    /\ \A n \in Seq(K) : IsPrefix(n, a) => n = a \/ IsPrefix(n, m)
  OBVIOUS
<1>1. /\ a \in Seq(K)
      /\ Len(a) = Len(m) + 1
      /\ \A i \in 1..Len(m) : a[i] = m[i]
  BY <1>0
<1>2. IsPrefix(m, a)
  BY <1>1, PrefixIntro
<1>3. ~IsPrefix(a, m)
  BY <1>1, PrefixElim
<1>4. ASSUME NEW n \in Seq(K), IsPrefix(n, a), n # a PROVE IsPrefix(n, m)
  <2>1. Len(n) <= Len(a) /\ \A i \in 1..Len(n) : n[i] = a[i]
    BY <1>1, <1>4, PrefixElim
  <2>2. Len(n) # Len(a)
    BY <1>1, <1>4, <2>1, SeqEqual
  <2>3. Len(n) <= Len(m) /\ \A i \in 1..Len(n) : n[i] = m[i]
    BY <1>1, <2>1, <2>2
  <2> QED
    BY <2>3, PrefixIntro
<1> QED
  BY <1>1, <1>2, <1>3, <1>4

LEMMA PrefixOfSubSeq ==
    ASSUME NEW K, NEW n \in Seq(K), NEW i \in 0..Len(n)
    PROVE  /\ SubSeq(n, 1, i) \in Seq(K)
           /\ Len(SubSeq(n, 1, i)) = i
           /\ IsPrefix(SubSeq(n, 1, i), n)
<1>0. SUFFICES ASSUME NEW m, m = SubSeq(n, 1, i)
               PROVE  m \in Seq(K) /\ Len(m) = i /\ IsPrefix(m, n)
  OBVIOUS
<1>1. m \in Seq(K) /\ Len(m) = i /\ \A j \in 1..i : m[j] = n[j]
  BY <1>0
<1>2. IsPrefix(m, n)
  BY <1>1, PrefixIntro
<1> QED
  BY <1>1, <1>2

LEMMA PrefixIsSubSeq ==
    ASSUME NEW K, NEW n \in Seq(K), NEW m \in Seq(K), IsPrefix(m, n)
    PROVE  Len(m) \in 0..Len(n) /\ m = SubSeq(n, 1, Len(m))
<1>1. Len(m) \in 0..Len(n) /\ \A i \in 1..Len(m) : m[i] = n[i]
  BY PrefixElim
<1>2. /\ SubSeq(n, 1, Len(m)) \in Seq(K)
      /\ Len(SubSeq(n, 1, Len(m))) = Len(m)
      /\ \A j \in 1..Len(m) : SubSeq(n, 1, Len(m))[j] = n[j]
  BY <1>1
<1> QED
  BY <1>1, <1>2, SeqEqual

LEMMA SubSeqByOne ==
    ASSUME NEW K, NEW n \in Seq(K), NEW i \in 0..Len(n) - 1
    PROVE  /\ SubSeq(n, 1, i + 1) = Append(SubSeq(n, 1, i), n[i + 1])
           /\ n[i + 1] \in K
<1>1. /\ SubSeq(n, 1, i) \in Seq(K)
      /\ Len(SubSeq(n, 1, i)) = i
      /\ \A j \in 1..i : SubSeq(n, 1, i)[j] = n[j]
  OBVIOUS
<1>2. /\ SubSeq(n, 1, i + 1) \in Seq(K)
      /\ Len(SubSeq(n, 1, i + 1)) = i + 1
      /\ \A j \in 1..i + 1 : SubSeq(n, 1, i + 1)[j] = n[j]
  OBVIOUS
<1>3. n[i + 1] \in K
  OBVIOUS
<1>4. /\ Append(SubSeq(n, 1, i), n[i + 1]) \in Seq(K)
      /\ Len(Append(SubSeq(n, 1, i), n[i + 1])) = i + 1
      /\ \A j \in 1..i + 1 : Append(SubSeq(n, 1, i), n[i + 1])[j] = n[j]
  BY <1>1, <1>3
<1> QED
  BY <1>2, <1>3, <1>4, SeqEqual

-----------------------------------------------------------------------------
(* A document is a tree: what is above a node is a map.                    *)
Tree(doc, K) ==
    /\ DOMAIN doc \subseteq Seq(K)
    /\ IsMap(doc, <<>>)
    /\ \A n \in DOMAIN doc, m \in Seq(K) : IsPrefix(m, n) /\ m # n => IsMap(doc, m)

(* The operations of Documents keep a tree, and what they change.          *)
LEMMA EmptyDocumentIsTree ==
    ASSUME NEW K
    PROVE  /\ Tree(EmptyDocument, K)
           /\ DOMAIN EmptyDocument = {<<>>}
           /\ EmptyDocument[<<>>] = Map
<1>1. DOMAIN EmptyDocument = {<<>>} /\ EmptyDocument[<<>>] = Map
  BY DEF EmptyDocument
<1>2. ASSUME NEW m \in Seq(K), IsPrefix(m, <<>>) PROVE m = <<>>
  <2>1. Len(m) <= 0
    BY <1>2 DEF IsPrefix
  <2> QED
    BY <2>1
<1> QED
  BY <1>1, <1>2 DEF Tree, IsMap

LEMMA PutIsTree ==
    ASSUME NEW K, NEW doc, Tree(doc, K), NEW m \in Seq(K), NEW k \in K,
           IsMap(doc, m), NEW value, NEW node, node = Append(m, k),
           NEW new, new = Put(doc, node, value)
    PROVE  Tree(new, K)
<1>1. /\ node \in Seq(K) /\ ~IsPrefix(node, m)
      /\ \A n \in Seq(K) : IsPrefix(n, node) => n = node \/ IsPrefix(n, m)
  BY PrefixOfAppend
<1>2. /\ \A n : n \in DOMAIN new <=> n = node \/ (n \in DOMAIN doc /\ ~IsPrefix(node, n))
      /\ \A n \in DOMAIN new : n # node => new[n] = doc[n]
  BY DEF Put, Outside
<1>3. DOMAIN new \subseteq Seq(K)
  BY <1>1, <1>2 DEF Tree
<1>4. ASSUME NEW n, IsMap(doc, n), ~IsPrefix(node, n), n \in Seq(K) PROVE IsMap(new, n)
  <2>1. n # node
    BY <1>4, PrefixReflexive
  <2> QED
    BY <1>2, <1>4, <2>1 DEF IsMap
<1>5. ~IsPrefix(node, <<>>)
  <2>1. <<>> \in Seq(K)
    OBVIOUS
  <2>2. IsPrefix(<<>>, m)
    BY PrefixEmpty
  <2> QED
    BY <1>1, <2>1, <2>2, PrefixTransitive
<1>6. IsMap(new, <<>>)
  <2>1. <<>> \in Seq(K) /\ IsMap(doc, <<>>)
    BY DEF Tree
  <2> QED
    BY <1>4, <1>5, <2>1
<1>7. ASSUME NEW n \in DOMAIN new, NEW p \in Seq(K), IsPrefix(p, n), p # n
      PROVE  IsMap(new, p)
  <2>1. CASE n = node
    <3>1. IsPrefix(p, m)
      BY <1>1, <1>7, <2>1
    <3>2. ~IsPrefix(node, p)
      BY <1>1, <3>1, PrefixTransitive
    <3>3. IsMap(doc, p)
      <4>1. p = m \/ p # m
        OBVIOUS
      <4> QED
        BY <3>1, <4>1 DEF Tree, IsMap
    <3> QED
      BY <1>4, <3>2, <3>3
  <2>2. CASE n # node
    <3>1. n \in DOMAIN doc /\ ~IsPrefix(node, n) /\ n \in Seq(K)
      BY <1>2, <1>3, <2>2
    <3>2. IsMap(doc, p)
      BY <1>7, <3>1 DEF Tree
    <3>3. ~IsPrefix(node, p)
      BY <1>1, <1>7, <3>1, PrefixTransitive
    <3> QED
      BY <1>4, <3>2, <3>3
  <2> QED
    BY <2>1, <2>2
<1> QED
  BY <1>3, <1>6, <1>7 DEF Tree

(* Nothing is changed but that node is a map now.                          *)
MapAdded(doc, new, node) ==
    /\ IsMap(new, node)
    /\ DOMAIN doc \subseteq DOMAIN new
    /\ \A n \in DOMAIN new : n = node \/ (n \in DOMAIN doc /\ new[n] = doc[n])

LEMMA EnsureMapNodes ==
    ASSUME NEW K, NEW doc, Tree(doc, K), NEW m \in Seq(K), NEW k \in K, IsMap(doc, m),
           NEW node \in Seq(K), node = Append(m, k), NEW new, new = EnsureMap(doc, node)
    PROVE  Tree(new, K) /\ MapAdded(doc, new, node)
<1>1. CASE IsMap(doc, node)
  BY <1>1 DEF EnsureMap, MapAdded
<1>2. CASE ~IsMap(doc, node)
  <2>1. new = Put(doc, node, Map)
    BY <1>2 DEF EnsureMap
  <2>2. Tree(new, K)
    BY <2>1, PutIsTree
  <2>3. /\ \A n : n \in DOMAIN new <=>
                     n = node \/ (n \in DOMAIN doc /\ ~IsPrefix(node, n))
        /\ new[node] = Map
        /\ \A n \in DOMAIN new : n # node => new[n] = doc[n]
    BY <2>1 DEF Put, Outside
  <2>4. IsMap(new, node)
    BY <2>3 DEF IsMap
  <2>5. node \in Seq(K)
    OBVIOUS
  <2>6. ASSUME NEW n \in DOMAIN doc PROVE n \in DOMAIN new
    BY <1>2, <2>3, <2>5 DEF Tree
  <2> QED
    BY <2>2, <2>3, <2>4, <2>6 DEF MapAdded
<1> QED
  BY <1>1, <1>2

-----------------------------------------------------------------------------
(* MergeDataAtPath opens the maps of its path one by one. Its recursive    *)
(* function exists, so what it computes can be read off its definition.    *)
OpeningStep(doc, segments, f) ==
    [i \in 0..Len(segments) |->
        IF i = 0 THEN doc ELSE EnsureMap(f[i - 1], SubSeq(segments, 1, i))]

LEMMA OpeningExists ==
    ASSUME NEW K, NEW segments \in Seq(K), NEW doc
    PROVE  \E f : f = OpeningStep(doc, segments, f)
<1> DEFINE Step(f, n) == [i \in 0..n |->
               IF i = 0 THEN doc ELSE EnsureMap(f[i - 1], SubSeq(segments, 1, i))]
           S == {n \in Nat : \E f : f = Step(f, n)}
<1>1. 0 \in S
  <2>1. Step(<<>>, 0) = Step(Step(<<>>, 0), 0)
    OBVIOUS
  <2> QED
    BY <2>1
<1>2. ASSUME NEW n \in Nat, n \in S PROVE n + 1 \in S
  <2>1. PICK f : f = Step(f, n)
    BY <1>2
  <2>2. PICK g : g = [i \in 0..n + 1 |->
                        IF i = n + 1 THEN EnsureMap(f[n], SubSeq(segments, 1, n + 1))
                        ELSE f[i]]
    OBVIOUS
  <2>3. g = Step(g, n + 1)
    BY <2>1, <2>2
  <2> QED
    BY <2>3
<1>3. Len(segments) \in S
  <2> HIDE DEF S
  <2> QED
    BY <1>1, <1>2, NatInductionOnSets
<1> QED
  BY <1>3 DEF OpeningStep

(* What is left of a document when a path has been opened in it.           *)
Opened(doc, new, node) ==
    /\ DOMAIN doc \subseteq DOMAIN new
    /\ \A n \in DOMAIN new :
          \/ n \in DOMAIN doc /\ new[n] = doc[n]
          \/ IsPrefix(n, node) /\ new[n] = Map
    /\ IsMap(new, node)

LEMMA MergeOpensPath ==
    ASSUME NEW K, NEW doc, Tree(doc, K), NEW path, NEW newData,
           PathSegments(path) \in Seq(K)
    PROVE  \E opened : /\ MergeDataAtPath(doc, path, newData)
                             = PutAll(opened, PathSegments(path), newData)
                       /\ Tree(opened, K)
                       /\ Opened(doc, opened, PathSegments(path))
<1>0. SUFFICES ASSUME NEW segments \in Seq(K), segments = PathSegments(path)
               PROVE  \E opened : /\ MergeDataAtPath(doc, path, newData)
                                        = PutAll(opened, segments, newData)
                                  /\ Tree(opened, K)
                                  /\ Opened(doc, opened, segments)
  OBVIOUS
<1> DEFINE current == CHOOSE f : f = OpeningStep(doc, segments, f)
<1>1. current = OpeningStep(doc, segments, current)
  BY OpeningExists
<1>2. MergeDataAtPath(doc, path, newData)
        = PutAll(current[Len(segments)], segments, newData)
  BY <1>0 DEF MergeDataAtPath, OpeningStep
<1> HIDE DEF current
<1> DEFINE S == {n \in Nat : n <= Len(segments) =>
                    /\ Tree(current[n], K)
                    /\ Opened(doc, current[n], SubSeq(segments, 1, n))}
<1>3. 0 \in S
  <2>1. current[0] = doc /\ SubSeq(segments, 1, 0) = <<>>
    BY <1>1 DEF OpeningStep
  <2>2. Opened(doc, doc, <<>>)
    BY DEF Opened, Tree
  <2> QED
    BY <2>1, <2>2
<1>4. ASSUME NEW n \in Nat, n \in S PROVE n + 1 \in S
  <2> SUFFICES ASSUME n + 1 <= Len(segments)
               PROVE  /\ Tree(current[n + 1], K)
                      /\ Opened(doc, current[n + 1], SubSeq(segments, 1, n + 1))
    OBVIOUS
  <2>1. PICK m \in Seq(K), k \in K, node \in Seq(K) :
           /\ m = SubSeq(segments, 1, n)
           /\ node = SubSeq(segments, 1, n + 1)
           /\ node = Append(m, k)
    <3>1. n \in 0..Len(segments) /\ n + 1 \in 0..Len(segments) /\ n \in 0..Len(segments) - 1
      OBVIOUS
    <3>2. SubSeq(segments, 1, n) \in Seq(K) /\ SubSeq(segments, 1, n + 1) \in Seq(K)
      BY <3>1, PrefixOfSubSeq
    <3>3. /\ SubSeq(segments, 1, n + 1) = Append(SubSeq(segments, 1, n), segments[n + 1])
          /\ segments[n + 1] \in K
      BY <3>1, SubSeqByOne
    <3> QED
      BY <3>2, <3>3
  <2>2. PICK old : old = current[n]
    OBVIOUS
  <2>3. PICK new : new = current[n + 1]
    OBVIOUS
  <2>4. new = EnsureMap(old, node)
    BY <1>1, <2>1, <2>2, <2>3 DEF OpeningStep
  <2>5. Tree(old, K) /\ Opened(doc, old, m)
    BY <1>4, <2>1, <2>2
  <2>6. Tree(new, K) /\ MapAdded(old, new, node)
    <3>1. node = Append(m, k) /\ IsMap(old, m)
      BY <2>1, <2>5 DEF Opened
    <3> QED
      BY <2>4, <2>5, <3>1, EnsureMapNodes
  <2>7. IsPrefix(node, node) /\ \A x \in Seq(K) : IsPrefix(x, m) => IsPrefix(x, node)
    <3>1. IsPrefix(m, node)
      <4>1. IsPrefix(m, Append(m, k))
        BY PrefixOfAppend
      <4> QED
        BY <2>1, <4>1
    <3> QED
      BY <3>1, PrefixReflexive, PrefixTransitive
  <2>8. ASSUME NEW x \in DOMAIN new
        PROVE  \/ x \in DOMAIN doc /\ new[x] = doc[x]
               \/ IsPrefix(x, node) /\ new[x] = Map
    <3>1. x \in Seq(K)
      BY <2>6 DEF Tree
    <3>2. CASE x = node
      BY <2>6, <2>7, <3>2 DEF IsMap, MapAdded
    <3>3. CASE x \in DOMAIN old /\ new[x] = old[x]
      BY <2>5, <2>7, <3>1, <3>3 DEF Opened
    <3> QED
      BY <2>6, <3>2, <3>3 DEF MapAdded
  <2>9. DOMAIN doc \subseteq DOMAIN new
    BY <2>5, <2>6 DEF Opened, MapAdded
  <2>10. Opened(doc, new, node)
    BY <2>6, <2>8, <2>9 DEF Opened, MapAdded
  <2> QED
    BY <2>1, <2>3, <2>6, <2>10
<1>5. Len(segments) \in S
  <2> HIDE DEF S
  <2> QED
    BY <1>3, <1>4, NatInductionOnSets
<1>6. SubSeq(segments, 1, Len(segments)) = segments
  BY PrefixReflexive, PrefixIsSubSeq
<1>7. Len(segments) \in Nat /\ Len(segments) <= Len(segments)
  OBVIOUS
<1>8. Tree(current[Len(segments)], K) /\ Opened(doc, current[Len(segments)], segments)
  BY <1>5, <1>6, <1>7
<1> QED
  BY <1>2, <1>8

-----------------------------------------------------------------------------
(* What is left of a document when data has been put at a node.            *)
AllPut(doc, new, node, newData) ==
    /\ \A k \in DOMAIN newData :
          Append(node, k) \in DOMAIN new /\ new[Append(node, k)] = newData[k]
    /\ \A n \in DOMAIN new :
          \/ \E k \in DOMAIN newData : n = Append(node, k) /\ new[n] = newData[k]
          \/ /\ n \in DOMAIN doc /\ new[n] = doc[n]
             /\ \A k \in DOMAIN newData : ~IsPrefix(Append(node, k), n)
    /\ \A n \in DOMAIN doc :
          (\A k \in DOMAIN newData : ~IsPrefix(Append(node, k), n)) => n \in DOMAIN new

LEMMA PutAllNodes ==
    ASSUME NEW K, NEW doc, NEW node \in Seq(K), NEW newData, DOMAIN newData \subseteq K,
           NEW new, new = PutAll(doc, node, newData)
    PROVE  AllPut(doc, new, node, newData)
<1> DEFINE written == {Append(node, k) : k \in DOMAIN newData}
           kept == {n \in DOMAIN doc : \A w \in written : ~IsPrefix(w, n)}
<1>1. new = [n \in kept \cup written |->
               IF n \in written THEN newData[Last(n)] ELSE doc[n]]
  BY DEF PutAll
<1>2. \A k \in DOMAIN newData : Last(Append(node, k)) = k
  BY DEF Last
<1>3. \A n : n \in written <=> \E k \in DOMAIN newData : n = Append(node, k)
  OBVIOUS
<1>4. \A n : n \in kept <=>
         n \in DOMAIN doc /\ \A k \in DOMAIN newData : ~IsPrefix(Append(node, k), n)
  OBVIOUS
<1> HIDE DEF written, kept
<1>5. DOMAIN new = kept \cup written
  BY <1>1
<1>6. ASSUME NEW k \in DOMAIN newData
      PROVE  Append(node, k) \in DOMAIN new /\ new[Append(node, k)] = newData[k]
  BY <1>1, <1>2, <1>3
<1>7. ASSUME NEW n \in DOMAIN new
      PROVE  \/ \E k \in DOMAIN newData : n = Append(node, k) /\ new[n] = newData[k]
             \/ /\ n \in DOMAIN doc /\ new[n] = doc[n]
                /\ \A k \in DOMAIN newData : ~IsPrefix(Append(node, k), n)
  <2>1. CASE n \in written
    BY <1>3, <1>6, <2>1
  <2>2. CASE n \notin written
    <3>1. n \in kept /\ new[n] = doc[n]
      BY <1>1, <1>5, <2>2
    <3> QED
      BY <1>4, <3>1
  <2> QED
    BY <2>1, <2>2
<1>8. ASSUME NEW n \in DOMAIN doc,
             \A k \in DOMAIN newData : ~IsPrefix(Append(node, k), n)
      PROVE  n \in DOMAIN new
  BY <1>4, <1>5, <1>8
<1> QED
  BY <1>6, <1>7, <1>8 DEF AllPut

LEMMA PutAllIsTree ==
    ASSUME NEW K, NEW doc, Tree(doc, K), NEW node \in Seq(K), IsMap(doc, node),
           NEW newData, DOMAIN newData \subseteq K,
           NEW new, AllPut(doc, new, node, newData)
    PROVE  Tree(new, K)
<1>1. DOMAIN new \subseteq Seq(K)
  <2>1. ASSUME NEW n \in DOMAIN new PROVE n \in Seq(K)
    <3>1. CASE \E k \in DOMAIN newData : n = Append(node, k)
      BY <3>1, PrefixOfAppend
    <3>2. CASE n \in DOMAIN doc
      BY <3>2 DEF Tree
    <3> QED
      BY <3>1, <3>2 DEF AllPut
  <2> QED
    BY <2>1
<1>2. ASSUME NEW p \in Seq(K), IsMap(doc, p),
             \A k \in DOMAIN newData : ~IsPrefix(Append(node, k), p)
      PROVE  IsMap(new, p)
  <2>1. p \in DOMAIN new
    BY <1>2 DEF AllPut, IsMap
  <2>2. ASSUME NEW k \in DOMAIN newData PROVE p # Append(node, k)
    <3>1. IsPrefix(p, p)
      BY PrefixReflexive
    <3> QED
      BY <1>2, <3>1
  <2> QED
    BY <1>2, <2>1, <2>2 DEF AllPut, IsMap
<1>3. ASSUME NEW p \in Seq(K), IsPrefix(p, node), NEW k \in DOMAIN newData
      PROVE  ~IsPrefix(Append(node, k), p)
  <2>1. Append(node, k) \in Seq(K) /\ ~IsPrefix(Append(node, k), node)
    BY PrefixOfAppend
  <2> QED
    BY <1>3, <2>1, PrefixTransitive
<1>4. ASSUME NEW p \in Seq(K), IsPrefix(p, node) PROVE IsMap(new, p)
  <2>1. IsMap(doc, p)
    <3>1. p = node \/ p # node
      OBVIOUS
    <3> QED
      BY <1>4, <3>1 DEF Tree, IsMap
  <2> QED
    BY <1>2, <1>3, <1>4, <2>1
<1>5. IsMap(new, <<>>)
  <2>1. <<>> \in Seq(K) /\ IsPrefix(<<>>, node)
    BY PrefixEmpty
  <2> QED
    BY <1>4, <2>1
<1>6. ASSUME NEW n \in DOMAIN new, NEW p \in Seq(K), IsPrefix(p, n), p # n
      PROVE  IsMap(new, p)
  <2>1. ASSUME NEW k \in DOMAIN newData, n = Append(node, k) PROVE IsMap(new, p)
    <3>1. IsPrefix(p, node)
      BY <1>6, <2>1, PrefixOfAppend
    <3> QED
      BY <1>4, <3>1
  <2>2. ASSUME n \in DOMAIN doc, \A k \in DOMAIN newData : ~IsPrefix(Append(node, k), n)
        PROVE  IsMap(new, p)
    <3>1. IsMap(doc, p)
      BY <1>6, <2>2 DEF Tree
    <3>2. ASSUME NEW k \in DOMAIN newData PROVE ~IsPrefix(Append(node, k), p)
      <4>1. Append(node, k) \in Seq(K) /\ n \in Seq(K)
        BY <1>1, PrefixOfAppend
      <4> QED
        BY <1>6, <2>2, <4>1, PrefixTransitive
    <3> QED
      BY <1>2, <3>1, <3>2
  <2> QED
    BY <2>1, <2>2 DEF AllPut
<1> QED
  BY <1>1, <1>5, <1>6 DEF Tree

-----------------------------------------------------------------------------
(* The node of the time of the last change.                                *)
TimestampNode == <<TimestampKey>>

(* What a patch changes: it keeps what is neither below the keys it puts   *)
(* nor in the way of its path, opens its path, and has its parameters and  *)
(* the time.                                                               *)
IsPatch(doc, new, node, params, now) ==
    /\ \A n \in DOMAIN doc :
          (/\ IsPrefix(TimestampNode, n) => n = TimestampNode
           /\ \A k \in DOMAIN params : IsPrefix(Append(node, k), n) => n = Append(node, k))
             => n \in DOMAIN new
    /\ \A n \in DOMAIN new :
          \/ /\ n \in DOMAIN doc /\ new[n] = doc[n]
             /\ ~IsPrefix(TimestampNode, n)
             /\ \A k \in DOMAIN params : ~IsPrefix(Append(node, k), n)
          \/ IsPrefix(n, node) /\ new[n] = Map
          \/ n = TimestampNode /\ new[n] = now
          \/ \E k \in DOMAIN params : n = Append(node, k) /\ new[n] = params[k]
    /\ \A k \in DOMAIN params :
          ~IsPrefix(TimestampNode, Append(node, k)) =>
             Append(node, k) \in DOMAIN new /\ new[Append(node, k)] = params[k]
    /\ TimestampNode \in DOMAIN new /\ new[TimestampNode] = now

(* The one fact about Patched the other modules rest on.                   *)
LEMMA PatchedNodes ==
    ASSUME NEW K, NEW doc, Tree(doc, K), NEW path, PathSegments(path) \in Seq(K),
           NEW params, DOMAIN params \subseteq K, TimestampKey \in K, NEW now,
           NEW new, new = Patched(doc, path, params, now)
    PROVE  Tree(new, K) /\ IsPatch(doc, new, PathSegments(path), params, now)
<1>0. SUFFICES ASSUME NEW node \in Seq(K), node = PathSegments(path)
               PROVE  Tree(new, K) /\ IsPatch(doc, new, node, params, now)
  OBVIOUS
<1>1. PICK opened : /\ MergeDataAtPath(doc, path, params) = PutAll(opened, node, params)
                    /\ Tree(opened, K)
                    /\ Opened(doc, opened, node)
  BY <1>0, MergeOpensPath
<1>2. PICK merged : merged = PutAll(opened, node, params)
  OBVIOUS
<1>3. AllPut(opened, merged, node, params)
  BY <1>2, PutAllNodes
<1>4. Tree(merged, K)
  BY <1>1, <1>3, PutAllIsTree DEF Opened
<1>5. new = Put(merged, TimestampNode, now)
  BY <1>1, <1>2 DEF Patched, TimestampNode
<1>6. /\ TimestampNode = Append(<<>>, TimestampKey) /\ <<>> \in Seq(K)
      /\ TimestampNode \in Seq(K)
  BY DEF TimestampNode
<1>7. Tree(new, K)
  BY <1>4, <1>5, <1>6, PutIsTree DEF Tree
<1>8. /\ \A n : n \in DOMAIN new <=>
            n = TimestampNode \/ (n \in DOMAIN merged /\ ~IsPrefix(TimestampNode, n))
      /\ new[TimestampNode] = now
      /\ \A n \in DOMAIN new : n # TimestampNode => new[n] = merged[n]
  BY <1>5 DEF Put, Outside
<1>9. ASSUME NEW n \in DOMAIN doc,
             IsPrefix(TimestampNode, n) => n = TimestampNode,
             \A k \in DOMAIN params : IsPrefix(Append(node, k), n) => n = Append(node, k)
      PROVE  n \in DOMAIN new
  <2>1. n \in DOMAIN opened
    BY <1>1 DEF Opened
  <2>2. n \in DOMAIN merged
    BY <1>3, <1>9, <2>1 DEF AllPut
  <2> QED
    BY <1>8, <1>9, <2>2
<1>10. ASSUME NEW n \in DOMAIN new
       PROVE  \/ /\ n \in DOMAIN doc /\ new[n] = doc[n]
                 /\ ~IsPrefix(TimestampNode, n)
                 /\ \A k \in DOMAIN params : ~IsPrefix(Append(node, k), n)
              \/ IsPrefix(n, node) /\ new[n] = Map
              \/ n = TimestampNode /\ new[n] = now
              \/ \E k \in DOMAIN params : n = Append(node, k) /\ new[n] = params[k]
  <2>1. CASE n = TimestampNode
    BY <1>8, <2>1
  <2>2. CASE n # TimestampNode
    <3>1. n \in DOMAIN merged /\ new[n] = merged[n] /\ ~IsPrefix(TimestampNode, n)
      BY <1>8, <2>2
    <3>2. ASSUME ~\E k \in DOMAIN params : n = Append(node, k) /\ new[n] = params[k]
          PROVE  /\ n \in DOMAIN opened /\ new[n] = opened[n]
                 /\ \A k \in DOMAIN params : ~IsPrefix(Append(node, k), n)
      BY <1>3, <3>1, <3>2 DEF AllPut
    <3>3. ASSUME n \in DOMAIN opened, new[n] = opened[n]
          PROVE  \/ n \in DOMAIN doc /\ new[n] = doc[n]
                 \/ IsPrefix(n, node) /\ new[n] = Map
      BY <1>1, <3>3 DEF Opened
    <3> QED
      BY <3>1, <3>2, <3>3
  <2> QED
    BY <2>1, <2>2
<1>11. ASSUME NEW k \in DOMAIN params, ~IsPrefix(TimestampNode, Append(node, k))
       PROVE  Append(node, k) \in DOMAIN new /\ new[Append(node, k)] = params[k]
  <2>1. Append(node, k) \in DOMAIN merged /\ merged[Append(node, k)] = params[k]
    BY <1>3 DEF AllPut
  <2>2. Append(node, k) # TimestampNode
    BY <1>6, <1>11, PrefixReflexive
  <2> QED
    BY <1>8, <1>11, <2>1, <2>2
<1>12. TimestampNode \in DOMAIN new /\ new[TimestampNode] = now
  BY <1>8
<1>13. IsPatch(doc, new, node, params, now)
  BY <1>9, <1>10, <1>11, <1>12 DEF IsPatch
<1> QED
  BY <1>7, <1>13

(* So an upload needs no argument of its own.                              *)
LEMMA UploadIsPatchOfEmptyDocument ==
    ASSUME NEW params, NEW now
    PROVE  Uploaded(params, now) = Patched(EmptyDocument, EmptyString, params, now)
<1> DEFINE current == CHOOSE f : f = OpeningStep(EmptyDocument, <<>>, f)
<1>1. PathSegments(EmptyString) = <<>> /\ Len(<<>>) = 0
  BY DEF PathSegments
<1>2. current = OpeningStep(EmptyDocument, <<>>, current)
  <2>1. <<>> \in Seq({})
    OBVIOUS
  <2> QED
    BY <2>1, OpeningExists
<1>3. MergeDataAtPath(EmptyDocument, EmptyString, params)
        = PutAll(current[0], <<>>, params)
  BY <1>1 DEF MergeDataAtPath, OpeningStep
<1> HIDE DEF current
<1>4. current[0] = EmptyDocument
  BY <1>1, <1>2 DEF OpeningStep
<1> QED
  BY <1>3, <1>4 DEF Uploaded, Patched

LEMMA PatchedIsFinite ==
    ASSUME NEW K, NEW doc, Tree(doc, K), IsFiniteSet(DOMAIN doc), NEW node \in Seq(K),
           NEW params, IsFiniteSet(DOMAIN params), NEW now,
           NEW new, DOMAIN new \subseteq Seq(K), IsPatch(doc, new, node, params, now)
    PROVE  IsFiniteSet(DOMAIN new)
<1> DEFINE opened == {SubSeq(node, 1, i) : i \in 0..Len(node)}
           written == {Append(node, k) : k \in DOMAIN params}
<1>1. IsFiniteSet(opened)
  <2> DEFINE f == [i \in 0..Len(node) |-> SubSeq(node, 1, i)]
  <2>1. IsFiniteSet(0..Len(node))
    BY FS_Interval
  <2>2. f \in Surjection(0..Len(node), opened)
    BY DEF Surjection
  <2> QED
    BY <2>1, <2>2, FS_Surjection
<1>2. IsFiniteSet(written)
  <2> DEFINE f == [k \in DOMAIN params |-> Append(node, k)]
  <2>1. f \in Surjection(DOMAIN params, written)
    BY DEF Surjection
  <2> QED
    BY <2>1, FS_Surjection
<1>3. IsFiniteSet({TimestampNode})
  BY FS_Singleton
<1>4. ASSUME NEW n \in DOMAIN new
      PROVE  n \in DOMAIN doc \/ n \in opened \/ n \in written \/ n \in {TimestampNode}
  <2>1. ASSUME IsPrefix(n, node) PROVE n \in opened
    BY <2>1, PrefixIsSubSeq
  <2> QED
    BY <2>1 DEF IsPatch
<1> HIDE DEF opened, written
<1>5. IsFiniteSet(((DOMAIN doc \cup opened) \cup written) \cup {TimestampNode})
  BY <1>1, <1>2, <1>3, FS_Union
<1>6. DOMAIN new \subseteq ((DOMAIN doc \cup opened) \cup written) \cup {TimestampNode}
  BY <1>4
<1> QED
  BY <1>5, <1>6, FS_Subset

(* The times the handler adds: one for all, and one for each parameter.    *)
LEMMA AddTimestampsNodes ==
    ASSUME NEW params, NEW path, NEW now, NEW all, all = AddTimestamps(params, path, now)
    PROVE  /\ DOMAIN params \subseteq DOMAIN all
           /\ \A k \in DOMAIN all :
                 \/ k \in DOMAIN params /\ all[k] = params[k]
                 \/ all[k] = now /\ (k = TimestampKey \/ \E p \in DOMAIN params : k = SuffixedKey(p))
           /\ \A k \in DOMAIN params : k # TimestampKey =>
                 \/ all[k] = params[k]
                 \/ path = EmptyString /\ \E p \in DOMAIN params : k = SuffixedKey(p)
BY DEF AddTimestamps

LEMMA AddTimestampsIsFinite ==
    ASSUME NEW params, IsFiniteSet(DOMAIN params), NEW path, NEW now
    PROVE  IsFiniteSet(DOMAIN AddTimestamps(params, path, now))
<1> DEFINE suffixed == {SuffixedKey(k) : k \in DOMAIN params}
           all == AddTimestamps(params, path, now)
<1>1. IsFiniteSet(suffixed)
  <2> DEFINE f == [k \in DOMAIN params |-> SuffixedKey(k)]
  <2>1. f \in Surjection(DOMAIN params, suffixed)
    BY DEF Surjection
  <2> QED
    BY <2>1, FS_Surjection
<1>2. DOMAIN all \subseteq (DOMAIN params \cup suffixed) \cup {TimestampKey}
  BY DEF AddTimestamps
<1> HIDE DEF suffixed
<1>3. IsFiniteSet((DOMAIN params \cup suffixed) \cup {TimestampKey})
  BY <1>1, FS_Singleton, FS_Union
<1> QED
  BY <1>2, <1>3, FS_Subset

-----------------------------------------------------------------------------
(* The names of a listing are joined one by one.                           *)
PathStep(node, f) ==
    [i \in 0..Len(node) |->
        IF i = 0 THEN EmptyString
        ELSE IF f[i - 1] = EmptyString THEN node[i]
        ELSE f[i - 1] \o node[i]]

LEMMA PathExists ==
    ASSUME NEW K, NEW node \in Seq(K)
    PROVE  \E f : f = PathStep(node, f)
<1> DEFINE Step(f, n) == [i \in 0..n |->
               IF i = 0 THEN EmptyString
               ELSE IF f[i - 1] = EmptyString THEN node[i]
               ELSE f[i - 1] \o node[i]]
           S == {n \in Nat : \E f : f = Step(f, n)}
<1>1. 0 \in S
  <2>1. Step(<<>>, 0) = Step(Step(<<>>, 0), 0)
    OBVIOUS
  <2> QED
    BY <2>1
<1>2. ASSUME NEW n \in Nat, n \in S PROVE n + 1 \in S
  <2>1. PICK f : f = Step(f, n)
    BY <1>2
  <2>2. PICK last : last = IF f[n] = EmptyString THEN node[n + 1] ELSE f[n] \o node[n + 1]
    OBVIOUS
  <2>3. PICK g : g = [i \in 0..n + 1 |-> IF i = n + 1 THEN last ELSE f[i]]
    OBVIOUS
  <2>4. g = Step(g, n + 1)
    BY <2>1, <2>2, <2>3
  <2> QED
    BY <2>4
<1>3. Len(node) \in S
  <2> HIDE DEF S
  <2> QED
    BY <1>1, <1>2, NatInductionOnSets
<1> QED
  BY <1>3 DEF PathStep

(* A node whose names are not empty and have no separator in them.         *)
PlainNode(node) == \A i \in DOMAIN node : Len(node[i]) = 1 /\ node[i] # EmptyString

(* A string is the first i names of a node one after the other.            *)
Spells(string, node, i) ==
    /\ Len(string) = i
    /\ string # EmptyString
    /\ \A j \in 1..i : <<string[j]>> = node[j]

LEMMA PathOfPlainNode ==
    ASSUME NEW P, NEW node \in Seq(Seq(P)), node # <<>>, PlainNode(node)
    PROVE  Split(PathOf(node)) = node
<1> DEFINE prefix == CHOOSE f : f = PathStep(node, f)
<1>1. prefix = PathStep(node, prefix)
  BY PathExists
<1>2. PathOf(node) = prefix[Len(node)]
  BY DEF PathOf, PathStep
<1> HIDE DEF prefix
<1> DEFINE S == {n \in Nat : n + 1 <= Len(node) =>
                    prefix[n + 1] \in Seq(P) /\ Spells(prefix[n + 1], node, n + 1)}
<1>first. prefix[0] = EmptyString
  <2>1. 0 \in 0..Len(node)
    OBVIOUS
  <2> QED
    BY <1>1, <2>1 DEF PathStep
<1>next. ASSUME NEW i \in 1..Len(node)
      PROVE  prefix[i] = IF prefix[i - 1] = EmptyString THEN node[i]
                                                        ELSE prefix[i - 1] \o node[i]
  <2>1. i \in 0..Len(node) /\ i # 0
    OBVIOUS
  <2> QED
    BY <1>1, <2>1 DEF PathStep
<1>3. ASSUME NEW i \in 1..Len(node)
      PROVE  /\ node[i] \in Seq(P) /\ Len(node[i]) = 1 /\ node[i] # EmptyString
             /\ <<node[i][1]>> = node[i]
  <2>1. node[i] \in Seq(P) /\ Len(node[i]) = 1 /\ node[i] # EmptyString
    BY DEF PlainNode
  <2> QED
    BY <2>1
<1>4. 0 \in S
  <2> SUFFICES ASSUME 1 <= Len(node)
               PROVE  prefix[1] \in Seq(P) /\ Spells(prefix[1], node, 1)
    OBVIOUS
  <2>1. 1 \in 1..Len(node) /\ 1 - 1 = 0
    OBVIOUS
  <2>2. prefix[1] = node[1]
    BY <1>first, <1>next, <2>1
  <2> QED
    BY <1>3, <2>1, <2>2 DEF Spells
<1>5. ASSUME NEW n \in Nat, n \in S PROVE n + 1 \in S
  <2> SUFFICES ASSUME n + 2 <= Len(node)
               PROVE  prefix[n + 2] \in Seq(P) /\ Spells(prefix[n + 2], node, n + 2)
    OBVIOUS
  <2>1. prefix[n + 1] \in Seq(P) /\ Spells(prefix[n + 1], node, n + 1)
    BY <1>5
  <2>2. prefix[n + 2] = prefix[n + 1] \o node[n + 2]
    <3>1. n + 2 \in 1..Len(node) /\ (n + 2) - 1 = n + 1
      OBVIOUS
    <3>2. prefix[n + 1] # EmptyString
      BY <2>1 DEF Spells
    <3> QED
      BY <1>next, <3>1, <3>2
  <2>3. PICK old \in Seq(P), key \in Seq(P) :
           /\ old = prefix[n + 1] /\ key = node[n + 2]
           /\ Len(key) = 1 /\ <<key[1]>> = key
    <3>1. n + 2 \in 1..Len(node)
      OBVIOUS
    <3>2. /\ node[n + 2] \in Seq(P) /\ Len(node[n + 2]) = 1
          /\ <<node[n + 2][1]>> = node[n + 2]
      BY <1>3, <3>1
    <3>3. prefix[n + 1] \in Seq(P)
      BY <2>1
    <3> QED
      BY <3>2, <3>3, Zenon
  <2>0. PICK new : new = prefix[n + 2]
    OBVIOUS
  <2>4. new = old \o key /\ Len(old) = n + 1
    BY <2>1, <2>2, <2>0, <2>3 DEF Spells
  <2>5. /\ new \in Seq(P) /\ Len(new) = n + 2
        /\ \A j \in 1..n + 1 : new[j] = old[j]
        /\ new[n + 2] = key[1]
    <3>1. old \o key \in Seq(P) /\ Len(old \o key) = Len(old) + Len(key)
      OBVIOUS
    <3>2. \A j \in 1..Len(old) : (old \o key)[j] = old[j]
      OBVIOUS
    <3>3. (old \o key)[Len(old) + 1] = key[1]
      <4>1. Len(old) + 1 \in 1..Len(old) + Len(key) /\ ~(Len(old) + 1 <= Len(old))
        BY <2>0, <2>3
      <4>2. (old \o key)[Len(old) + 1] = key[(Len(old) + 1) - Len(old)]
        BY <4>1, ConcatProperties
      <4>3. (Len(old) + 1) - Len(old) = 1
        OBVIOUS
      <4> QED
        BY <4>2, <4>3
    <3>4. new \in Seq(P) /\ Len(new) = n + 2
      BY <2>0, <2>3, <2>4, <3>1
    <3>5. \A j \in 1..n + 1 : new[j] = old[j]
      BY <2>4, <3>2
    <3>6. new[n + 2] = key[1]
      <4>1. Len(old) + 1 = n + 2
        BY <2>4
      <4> QED
        BY <2>4, <3>3, <4>1
    <3> QED
      BY <3>4, <3>5, <3>6
  <2>6. new # EmptyString
    <3>1. Len(EmptyString) = 1
      BY DEF EmptyString
    <3>2. Len(new) # 1
      BY <2>5
    <3> QED
      BY <3>1, <3>2, Zenon
  <2>7. ASSUME NEW j \in 1..n + 2 PROVE <<new[j]>> = node[j]
    <3>1. CASE j = n + 2
      BY <2>0, <2>3, <2>5, <3>1
    <3>2. CASE j # n + 2
      <4>1. j \in 1..n + 1
        BY <3>2
      <4> QED
        BY <2>1, <2>0, <2>3, <2>5, <4>1 DEF Spells
    <3> QED
      BY <3>1, <3>2
  <2> QED
    BY <2>0, <2>3, <2>5, <2>6, <2>7 DEF Spells
<1>6. Len(node) - 1 \in S
  <2>1. Len(node) - 1 \in Nat
    OBVIOUS
  <2> HIDE DEF S
  <2> QED
    BY <1>4, <1>5, <2>1, NatInductionOnSets
<1>7. PICK string \in Seq(P) : string = PathOf(node) /\ Spells(string, node, Len(node))
  BY <1>2, <1>6
<1>8. /\ Split(string) \in Seq(Seq(P)) /\ Len(Split(string)) = Len(node)
      /\ \A i \in 1..Len(node) : Split(string)[i] = node[i]
  <2>1. DOMAIN string = 1..Len(node)
    BY <1>7 DEF Spells
  <2>2. PICK split : split = Split(string)
    OBVIOUS
  <2>3. split = [i \in 1..Len(node) |-> <<string[i]>>]
    BY <2>1, <2>2 DEF Split
  <2>4. \A i \in 1..Len(node) : <<string[i]>> \in Seq(P)
    BY <1>7, <2>1
  <2>5. split \in Seq(Seq(P)) /\ Len(split) = Len(node)
    BY <2>3, <2>4
  <2>6. \A i \in 1..Len(node) : split[i] = node[i]
    BY <1>7, <2>3 DEF Spells
  <2> QED
    BY <2>2, <2>5, <2>6
<1> QED
  BY <1>7, <1>8, SeqEqual
-----------------------------------------------------------------------------
(* The segments of a path are joined one by one.                           *)
FlattenStep(segments, f) ==
    [i \in 1..Len(segments) |-> IF i = 1 THEN segments[i] ELSE f[i - 1] \o segments[i]]

(* Taking a joined path apart again gives its segments, when each of them  *)
(* is one part.                                                            *)
LEMMA SplitOfJoin ==
    ASSUME NEW P, NEW segments \in Seq(Seq(P)), segments # <<>>,
           \A i \in DOMAIN segments : Len(segments[i]) = 1
    PROVE  Split(Join(segments)) = segments
<1> DEFINE parts(i) == [j \in 1..i |-> segments[j][1]]
           flat == CHOOSE f : f = FlattenStep(segments, f)
<1>1. ASSUME NEW i \in 1..Len(segments)
      PROVE  segments[i] \in Seq(P) /\ Len(segments[i]) = 1 /\ segments[i] = <<segments[i][1]>>
             /\ segments[i][1] \in P
  <2>1. segments[i] \in Seq(P) /\ Len(segments[i]) = 1
    OBVIOUS
  <2> QED
    BY <2>1
<1>2. ASSUME NEW i \in 1..Len(segments)
      PROVE  /\ parts(i) \in Seq(P) /\ Len(parts(i)) = i
             /\ \A j \in 1..i : parts(i)[j] = segments[j][1]
  <2>1. \A j \in 1..i : segments[j][1] \in P
    BY <1>1
  <2> QED
    BY <2>1
<1>3. ASSUME NEW i \in 2..Len(segments) PROVE parts(i) = parts(i - 1) \o segments[i]
  <2> HIDE DEF parts
  <2>1. PICK k \in 1..Len(segments) : k = i - 1 /\ i = k + 1 /\ k \in Nat
    OBVIOUS
  <2>2. PICK s \in Seq(P) : s = parts(i - 1) /\ Len(s) = k /\ \A j \in 1..k : s[j] = segments[j][1]
    BY <1>2, <2>1
  <2>3. PICK t \in Seq(P) : t = segments[i] /\ Len(t) = 1
    <3>1. i \in 1..Len(segments)
      OBVIOUS
    <3> QED
      BY <1>1, <3>1
  <2>4. PICK u \in Seq(P) : u = parts(i) /\ Len(u) = k + 1 /\ \A j \in 1..k + 1 : u[j] = segments[j][1]
    <3>1. i \in 1..Len(segments)
      OBVIOUS
    <3> QED
      BY <1>2, <2>1, <3>1
  <2>5. /\ s \o t \in Seq(P) /\ Len(s \o t) = Len(s) + Len(t)
        /\ \A j \in 1..Len(s) + Len(t) :
              (s \o t)[j] = IF j <= Len(s) THEN s[j] ELSE t[j - Len(s)]
    BY ConcatProperties
  <2>6. ASSUME NEW j \in 1..k + 1 PROVE u[j] = (s \o t)[j]
    <3>1. CASE j <= k
      <4>1. j \in 1..k /\ j \in 1..Len(s) + Len(t)
        BY <2>1, <2>2, <2>3, <3>1
      <4> QED
        BY <2>2, <2>4, <2>5, <3>1, <4>1
    <3>2. CASE j = k + 1
      <4>1. j - k = 1 /\ ~(j <= k) /\ j \in 1..Len(s) + Len(t)
        BY <2>1, <2>2, <2>3, <3>2
      <4>2. (s \o t)[j] = t[1]
        BY <2>2, <2>5, <4>1
      <4> QED
        BY <2>1, <2>3, <2>4, <3>2, <4>2
    <3>3. j <= k \/ j = k + 1
      BY <2>1
    <3> QED
      BY <3>1, <3>2, <3>3, Zenon
  <2>7. u = s \o t
    <3>1. Len(s \o t) = k + 1
      BY <2>1, <2>2, <2>3, <2>5
    <3> QED
      BY <2>4, <2>5, <2>6, <3>1, SeqEqual
  <2> QED
    BY <2>2, <2>3, <2>4, <2>7
<1>4. parts(1) = segments[1]
  <2>1. 1 \in 1..Len(segments)
    OBVIOUS
  <2>2. segments[1] = <<segments[1][1]>>
    BY <1>1, <2>1
  <2>3. parts(1) = <<segments[1][1]>>
    OBVIOUS
  <2> QED
    BY <2>2, <2>3
<1>5. \E f : f = FlattenStep(segments, f)
  <2>1. PICK f : f = [i \in 1..Len(segments) |-> parts(i)]
    OBVIOUS
  <2>2. f = FlattenStep(segments, f)
    <3> HIDE DEF parts
    <3>1. ASSUME NEW i \in 1..Len(segments)
          PROVE  f[i] = IF i = 1 THEN segments[i] ELSE f[i - 1] \o segments[i]
      <4>1. CASE i = 1
        BY <1>4, <2>1, <4>1
      <4>2. CASE i # 1
        <5>1. i \in 2..Len(segments) /\ i - 1 \in 1..Len(segments)
          BY <4>2
        <5> QED
          BY <1>3, <2>1, <4>2, <5>1
      <4> QED
        BY <4>1, <4>2
    <3> QED
      BY <2>1, <3>1 DEF FlattenStep
  <2> QED
    BY <2>2
<1>6. flat = FlattenStep(segments, flat)
  BY <1>5
<1>7. Join(segments) = flat[Len(segments)]
  <2>1. Len(segments) # 0
    OBVIOUS
  <2> QED
    BY <2>1 DEF Join, FlattenSeq, FlattenStep
<1> HIDE DEF flat
<1> DEFINE S == {n \in Nat : n + 1 <= Len(segments) => flat[n + 1] = parts(n + 1)}
<1>8. 0 \in S
  <2> SUFFICES ASSUME 1 <= Len(segments) PROVE flat[1] = parts(1)
    OBVIOUS
  <2> HIDE DEF parts
  <2> QED
    BY <1>4, <1>6 DEF FlattenStep
<1>9. ASSUME NEW n \in Nat, n \in S PROVE n + 1 \in S
  <2> SUFFICES ASSUME n + 2 <= Len(segments) PROVE flat[n + 2] = parts(n + 2)
    OBVIOUS
  <2>1. n + 2 \in 2..Len(segments) /\ n + 2 \in 1..Len(segments) /\ (n + 2) - 1 = n + 1 /\ n + 2 # 1
    OBVIOUS
  <2>2. flat[n + 1] = parts(n + 1)
    BY <1>9
  <2> HIDE DEF parts
  <2>3. flat[n + 2] = flat[n + 1] \o segments[n + 2]
    BY <1>6, <2>1 DEF FlattenStep
  <2>4. parts(n + 2) = parts(n + 1) \o segments[n + 2]
    BY <1>3, <2>1
  <2> QED
    BY <2>2, <2>3, <2>4
<1>10. Join(segments) = parts(Len(segments))
  <2> HIDE DEF S, parts
  <2>1. Nat \subseteq S
    BY <1>8, <1>9, NatInductionOnSets
  <2>2. PICK n \in Nat : Len(segments) = n + 1
    <3>1. Len(segments) \in Nat \ {0}
      OBVIOUS
    <3>2. Len(segments) - 1 \in Nat /\ Len(segments) = (Len(segments) - 1) + 1
      BY <3>1
    <3> QED
      BY <3>2
  <2>3. flat[n + 1] = parts(n + 1)
    BY <2>1, <2>2 DEF S
  <2> QED
    BY <1>7, <2>2, <2>3
<1>11. Split(Join(segments)) = [j \in 1..Len(segments) |-> <<segments[j][1]>>]
  BY <1>10 DEF Split
<1> QED
  BY <1>1, <1>11
=============================================================================
