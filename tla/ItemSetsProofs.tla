---------------------------- MODULE ItemSetsProofs ----------------------------
(***************************************************************************)
(* Proofs about the scripts that freeze a pair of item sets, for all item  *)
(* files, all translations and any number of runs of finalize-mt.py.       *)
(***************************************************************************)
EXTENDS ItemSets, FiniteSums

-----------------------------------------------------------------------------
(* Files of items. *)

Item == [key : Int, kind : Kinds, labels : Seq(Int), gold : Nat \ {0}]
English == [key : Int, kind : Kinds, labels : Seq(Int), gold : Int,
            lost : SUBSET Fields, broken : BOOLEAN]

OneEach(set) == \A i, j \in DOMAIN set : set[i].key = set[j].key => i = j

\* A merged set: items of ids of their own, each with a label at its slot.
IsMerged(set) ==
    /\ set \in Seq(Item) /\ OneEach(set)
    /\ \A i \in DOMAIN set : set[i].gold \in DOMAIN set[i].labels

\* The keys of a file are finitely many.
LEMMA KeysAreFinite ==
    ASSUME NEW set, NEW n \in Nat, DOMAIN set = 1..n
    PROVE  IsFiniteSet(Keys(set))
<1> DEFINE f == [i \in 1..n |-> set[i].key]
<1>1. Keys(set) = {f[i] : i \in 1..n}
  BY DEF Keys
<1> HIDE DEF f
<1>2. QED
  BY <1>1, CountOfIndexed

\* What merge-item-sets writes.
LEMMA MergedIs ==
    ASSUME NEW files \in InputSets, Merge(files) # NoSet
    PROVE  IsMerged(Merge(files))
<1> DEFINE all == UNION {Range(files[f]) : f \in DOMAIN files}
           keys == UNION {Keys(files[f]) : f \in DOMAIN files}
           by_id(k) == CHOOSE item \in all : item.key = k
           m == Len(files)
<1>1. files \in Seq(Seq(Item)) /\ m \in Nat /\ DOMAIN files = 1..m
  <2>1. InputSets \subseteq Seq(Seq(Item))
    BY Zenon, ItemSetsAssumption DEF Item
  <2>2. files \in Seq(Seq(Item))
    BY <2>1
  <2>3. QED
    BY <2>2
<1>2. \A f \in 1..m : files[f] \in Seq(Item)
  BY <1>1
<1>3. \A f \in 1..m : \A i \in DOMAIN files[f] :
        files[f][i] \in Item /\ files[f][i].gold \in DOMAIN files[f][i].labels
  <2>1. \A f \in DOMAIN files : \A i \in DOMAIN files[f] :
          files[f][i].gold \in DOMAIN files[f][i].labels
    BY ItemSetsAssumption
  <2>2. \A f \in 1..m : \A i \in DOMAIN files[f] : files[f][i] \in Item
    BY <1>2
  <2>3. QED
    BY <1>1, <2>1, <2>2
<1>4. \A item \in all : item \in Item /\ item.gold \in DOMAIN item.labels
  <2> SUFFICES ASSUME NEW f \in 1..m, NEW i \in DOMAIN files[f]
               PROVE  files[f][i] \in Item /\ files[f][i].gold \in DOMAIN files[f][i].labels
    BY <1>1 DEF Range
  <2>1. QED
    BY <1>3
<1>5. \A k \in keys : k \in Int /\ \E item \in all : item.key = k
  <2> SUFFICES ASSUME NEW k \in keys
               PROVE  k \in Int /\ \E item \in all : item.key = k
    OBVIOUS
  <2>1. PICK f \in 1..m : k \in Keys(files[f])
    BY <1>1
  <2>2. PICK i \in DOMAIN files[f] : k = files[f][i].key
    BY <2>1 DEF Keys
  <2>3. files[f][i] \in all
    <3>1. files[f][i] \in Range(files[f])
      BY DEF Range
    <3>2. QED
      BY <1>1, <3>1
  <2>4. files[f][i].key \in Int
    BY <1>3 DEF Item
  <2>5. QED
    BY <2>2, <2>3, <2>4
<1> HIDE DEF m
<1>6. IsFiniteSet(keys)
  <2> DEFINE g == [f \in 1..m |-> Keys(files[f])]
  <2>1. {Keys(files[f]) : f \in DOMAIN files} = {g[f] : f \in 1..m}
    BY <1>1
  <2>2. \A f \in 1..m : g[f] = Keys(files[f]) /\ IsFiniteSet(g[f])
    <3> SUFFICES ASSUME NEW f \in 1..m
                 PROVE  IsFiniteSet(Keys(files[f]))
      OBVIOUS
    <3> DEFINE n == Len(files[f])
    <3>1. n \in Nat /\ DOMAIN files[f] = 1..n
      BY <1>2
    <3> HIDE DEF n
    <3>2. QED
      BY <3>1, KeysAreFinite
  <2> HIDE DEF g
  <2>3. IsFiniteSet({g[f] : f \in 1..m})
    <3>1. m \in Nat
      BY <1>1
    <3>2. QED
      BY <3>1, CountOfIndexed
  <2>4. \A T \in {g[f] : f \in 1..m} : IsFiniteSet(T)
    BY <2>2
  <2>5. QED
    BY <2>1, <2>3, <2>4, FS_UNION
<1>7. Merge(files) = [n \in DOMAIN InOrder(keys) |-> by_id(InOrder(keys)[n])]
  BY DEF Merge
<1> DEFINE c == Cardinality(keys)
<1>8. DOMAIN InOrder(keys) = 1..c
  BY DEF InOrder
<1> HIDE DEF keys, all, c
<1>9. /\ c \in Nat /\ \A n \in 1..c : InOrder(keys)[n] \in keys
      /\ \A n, l \in 1..c : InOrder(keys)[n] = InOrder(keys)[l] => n = l
  BY <1>5, <1>6, KeysInOrder DEF c
<1>10. \A n \in 1..c : LET item == Merge(files)[n] IN
         item \in all /\ item.key = InOrder(keys)[n]
  <2> SUFFICES ASSUME NEW n \in 1..c
               PROVE  Merge(files)[n] \in all /\ Merge(files)[n].key = InOrder(keys)[n]
    OBVIOUS
  <2>1. Merge(files)[n] = by_id(InOrder(keys)[n])
    BY <1>7, <1>8
  <2>2. \E item \in all : item.key = InOrder(keys)[n]
    BY <1>5, <1>9
  <2>3. QED
    BY <2>1, <2>2
<1>11. DOMAIN Merge(files) = 1..c /\ Merge(files) = [n \in 1..c |-> Merge(files)[n]]
  BY <1>7, <1>8
<1> HIDE DEF by_id
<1>12. Merge(files) \in Seq(Item)
  <2>1. \A n \in 1..c : Merge(files)[n] \in Item
    BY <1>4, <1>10
  <2> DEFINE M == Merge(files)
  <2>2. DOMAIN M = 1..c /\ M = [n \in 1..c |-> M[n]] /\ \A n \in 1..c : M[n] \in Item
    BY <1>11, <2>1
  <2> HIDE DEF M
  <2>3. M \in Seq(Item)
    BY <1>9, <2>2
  <2>4. QED
    BY <2>3 DEF M
<1>13. OneEach(Merge(files))
  BY <1>9, <1>10, <1>11 DEF OneEach
<1>14. QED
  BY <1>4, <1>10, <1>11, <1>12, <1>13 DEF IsMerged

\* The item of a key in a file of items with ids of their own.
LEMMA ItemOfIs ==
    ASSUME NEW set, OneEach(set), NEW i \in DOMAIN set
    PROVE  ItemOf(set, set[i].key) = set[i] /\ set[i].key \in Keys(set)
<1>1. \A j \in DOMAIN set : set[j].key = set[i].key => j = i
  BY DEF OneEach
<1>2. QED
  BY <1>1 DEF ItemOf, Keys

\* The items that are kept of a file.
LEMMA KeepIs ==
    ASSUME NEW set \in Seq(English), OneEach(set), NEW drops
    PROVE  LET kept == Keep(set, drops) IN
           /\ OneEach(kept)
           /\ Keys(kept) = Keys(set) \ drops
           /\ \A n \in DOMAIN kept : \E i \in DOMAIN set : kept[n] = set[i]
<1> DEFINE S == {i \in DOMAIN set : set[i].key \notin drops}
           c == Cardinality(S)
           kept == Keep(set, drops)
<1>1. IsFiniteSet(S) /\ S \subseteq Int
  <2> DEFINE n == Len(set)
  <2>1. n \in Nat /\ DOMAIN set = 1..n
    OBVIOUS
  <2> HIDE DEF n
  <2>2. IsFiniteSet(1..n)
    BY <2>1, FS_Interval
  <2>3. QED
    BY <2>1, <2>2, FS_Subset
<1>2. DOMAIN InOrder(S) = 1..c
  BY DEF InOrder
<1>3. kept = [n \in DOMAIN InOrder(S) |-> set[InOrder(S)[n]]]
  BY DEF Keep
<1>4. \A i \in S : i \in DOMAIN set /\ set[i].key \notin drops
  OBVIOUS
<1>5. \A i \in DOMAIN set : set[i].key \notin drops => i \in S
  OBVIOUS
<1> HIDE DEF S, c
<1>6. /\ c \in Nat /\ \A n \in 1..c : InOrder(S)[n] \in S
      /\ \A n, l \in 1..c : InOrder(S)[n] = InOrder(S)[l] => n = l
      /\ \A i \in S : \E n \in 1..c : InOrder(S)[n] = i
  BY <1>1, KeysInOrder DEF c
<1>7. DOMAIN kept = 1..c /\ \A n \in 1..c : kept[n] = set[InOrder(S)[n]]
  BY <1>2, <1>3
<1> HIDE DEF kept
<1>8. OneEach(kept)
  BY <1>4, <1>6, <1>7 DEF OneEach
<1>9. Keys(kept) = Keys(set) \ drops
  <2>1. \A k \in Keys(kept) : k \in Keys(set) \ drops
    BY <1>4, <1>6, <1>7 DEF Keys
  <2>2. \A k \in Keys(set) \ drops : k \in Keys(kept)
    <3> SUFFICES ASSUME NEW i \in DOMAIN set, set[i].key \notin drops
                 PROVE  set[i].key \in Keys(kept)
      BY DEF Keys
    <3>1. PICK n \in 1..c : InOrder(S)[n] = i
      BY <1>5, <1>6
    <3>2. QED
      BY <1>7, <3>1 DEF Keys
  <2>3. QED
    BY <2>1, <2>2
<1>10. QED
  BY <1>4, <1>6, <1>7, <1>8, <1>9 DEF kept

-----------------------------------------------------------------------------
(* Slots. *)

\* The slot of a label: labels that are used name a slot each.
LEMMA SlotOfLabel ==
    ASSUME NEW e, NEW i \in DOMAIN e.labels, e.labels \in Seq(Int),
           LabelsUsable(e.kind, e.labels), e.gold = e.labels[i]
    PROVE  SlotOf(e) = i
<1> DEFINE n == Len(e.labels)
<1>1. n \in Nat /\ DOMAIN e.labels = 1..n /\ \A j \in 1..n : e.labels[j] \in Int
  OBVIOUS
<1>2. CASE e.kind = "choice"
  <2>1. \A j, l \in 1..n : j < l => e.labels[j] < e.labels[l]
    BY <1>1, <1>2 DEF LabelsUsable
  <2>2. {j \in 1..n : e.labels[j] < e.labels[i]} = 1..(i - 1)
    <3>1. \A j \in 1..n : e.labels[j] < e.labels[i] => j < i
      <4> SUFFICES ASSUME NEW j \in 1..n, e.labels[j] < e.labels[i], ~(j < i)
                   PROVE  FALSE
        OBVIOUS
      <4>1. j = i \/ i < j
        BY <1>1
      <4>2. QED
        BY <1>1, <2>1, <4>1
    <3>2. \A j \in 1..(i - 1) : j \in 1..n /\ e.labels[j] < e.labels[i]
      BY <1>1, <2>1
    <3>3. \A j \in 1..n : j < i => j \in 1..(i - 1)
      BY <1>1
    <3>4. QED
      BY <3>1, <3>2, <3>3
  <2>3. SlotOf(e) = 1 + Cardinality({j \in 1..n : e.labels[j] < e.labels[i]})
    BY <1>1, <1>2 DEF SlotOf
  <2> DEFINE p == i - 1
  <2>4. p \in Nat /\ 1 + p = i
    BY <1>1
  <2>5. SlotOf(e) = 1 + Cardinality(1..p)
    BY <2>2, <2>3
  <2> HIDE DEF p
  <2>6. Cardinality(1..p) = p
    BY <2>4, FS_Interval
  <2>7. QED
    BY <2>4, <2>5, <2>6
<1>3. CASE e.kind # "choice"
  <2>1. \A j \in DOMAIN e.labels : e.labels[j] = e.labels[i] => j = i
    BY DEF LabelsUsable, IsInjective
  <2>2. SlotOf(e) = CHOOSE j \in DOMAIN e.labels : e.labels[j] = e.labels[i]
    BY <1>3 DEF SlotOf
  <2>3. QED
    BY <2>1, <2>2
<1>4. QED
  BY <1>2, <1>3

\* As many labels as slots.
LEMMA LabelsCount ==
    ASSUME NEW labels \in Seq(Int), IsInjective(labels)
    PROVE  Cardinality(Range(labels)) = Len(labels)
<1> DEFINE n == Len(labels)
<1>1. n \in Nat /\ DOMAIN labels = 1..n
  OBVIOUS
<1>2. Range(labels) = {labels[i] : i \in 1..n} /\ \A i, j \in 1..n : labels[i] = labels[j] => i = j
  BY <1>1 DEF Range, IsInjective
<1> HIDE DEF n
<1>3. Cardinality({labels[i] : i \in 1..n}) = n
  BY <1>1, <1>2, CountOfIndexed
<1>4. QED
  BY <1>2, <1>3 DEF n

-----------------------------------------------------------------------------
(* The inductive invariant. *)

\* The English item of a Chinese one: label by label in the same slots, each
\* the one translation in m of its label, and the right answer in the right slot.
MadeFrom(e, z, m) ==
    /\ e.key = z.key /\ e.kind = z.kind
    /\ DOMAIN e.labels = DOMAIN z.labels /\ LabelsUsable(e.kind, e.labels)
    /\ e.gold = e.labels[z.gold]
    /\ \A i \in DOMAIN z.labels :
          IF z.kind = "noul" THEN e.labels[i] = z.labels[i]
          ELSE z.labels[i] \in DOMAIN m /\ e.labels[i] = m[z.labels[i]]

\* Every item the translator is past is in the raw file or was left out, and
\* the raw file holds nothing else.
TranslatedSoFar ==
    /\ at \in Nat \ {0} /\ at - 1 <= Len(Wanted)
    /\ mt \in [DOMAIN mt -> Nat]
    /\ raw \in Seq(English) /\ OneEach(raw)
    /\ \A r \in DOMAIN raw : \E n \in 1..(at - 1) : MadeFrom(raw[r], zh[n], mt)
    /\ \A n \in 1..(at - 1) : zh[n].key \in Keys(raw) \cup dropped

ItemSetsInv ==
    /\ inputs \in InputSets /\ limit \in Limits
    /\ stage \in {"merge", "failed", "translate", "finalize", "report", "gate", "done"}
    /\ stage = "merge" => at = 1 /\ mt = <<>> /\ raw = <<>>
    /\ stage \notin {"merge", "failed"} => IsMerged(zh) /\ TranslatedSoFar
    /\ stage \in {"merge", "translate"} => declared = NoSet
    /\ stage \in {"finalize", "report", "gate", "done"} => at > Len(Wanted)
    /\ stage \in {"finalize", "report", "gate"} => declared \in {NoSet, FinalDrops}
    /\ stage \in {"report", "gate"} => en = Keep(raw, FinalDrops)
    /\ verdict = "pair" => stage = "done" /\ en \in {raw, Keep(raw, FinalDrops)}

\* A translation that knows more labels.
LEMMA MadeFromStays ==
    ASSUME NEW e, NEW z, NEW m, NEW more, MadeFrom(e, z, m),
           \A l \in DOMAIN m : l \in DOMAIN more /\ more[l] = m[l]
    PROVE  MadeFrom(e, z, more)
BY DEF MadeFrom

\* The items that are wanted are the first ones of the merged set.
LEMMA WantedIs ==
    ASSUME zh \in Seq(Item), limit \in Nat
    PROVE  /\ Wanted \in Seq(Item) /\ Len(Wanted) \in Nat /\ Len(Wanted) <= Len(zh)
           /\ \A n \in 1..Len(Wanted) : n \in DOMAIN zh /\ Wanted[n] = zh[n]
<1> DEFINE c == IF limit < Len(zh) THEN limit ELSE Len(zh)
<1>1. Len(zh) \in Nat /\ DOMAIN zh = 1..Len(zh)
  OBVIOUS
<1>2. CASE limit = 0
  BY <1>1, <1>2 DEF Wanted
<1>3. CASE limit # 0
  <2>1. c \in Nat /\ c <= Len(zh)
    BY <1>1
  <2>2. Wanted = SubSeq(zh, 1, c)
    BY <1>3 DEF Wanted
  <2> HIDE DEF c
  <2>3. Wanted \in Seq(Item) /\ Len(Wanted) = c /\ \A n \in 1..c : Wanted[n] = zh[n]
    BY <1>1, <2>1, <2>2
  <2>4. QED
    BY <1>1, <2>1, <2>3
<1>4. QED
  BY <1>2, <1>3

\* Init establishes the invariant.
LEMMA ItemSetsInit == Init => ItemSetsInv
BY DEF Init, ItemSetsInv

\* A merged set, and nothing translated yet.
LEMMA ItemSetsMerge == ItemSetsInv /\ MergeItemSets => ItemSetsInv'
<1> SUFFICES ASSUME ItemSetsInv, MergeItemSets
             PROVE  ItemSetsInv'
  OBVIOUS
<1>1. /\ stage = "merge" /\ inputs \in InputSets /\ limit \in Limits /\ limit \in Nat
      /\ at = 1 /\ mt = <<>> /\ raw = <<>> /\ declared = NoSet /\ verdict # "pair"
      /\ zh' = Merge(inputs)
      /\ UNCHANGED <<inputs, limit, at, mt, raw, dropped, en, declared, finals, verdict>>
  BY ItemSetsAssumption DEF ItemSetsInv, MergeItemSets
<1>2. CASE zh' = NoSet
  BY <1>1, <1>2 DEF ItemSetsInv, MergeItemSets
<1>3. CASE zh' # NoSet
  <2>1. stage' = "translate"
    BY <1>3 DEF MergeItemSets
  <2>2. IsMerged(zh')
    BY <1>1, <1>3, MergedIs
  <2>3. Len(Wanted)' \in Nat
    <3> DEFINE c == IF limit < Len(zh') THEN limit ELSE Len(zh')
    <3>1. zh' \in Seq(Item) /\ Len(zh') \in Nat /\ c \in Nat /\ c <= Len(zh')
      BY <1>1, <2>2 DEF IsMerged
    <3>2. Len(Wanted') = Len(zh') \/ Len(Wanted') = Len(SubSeq(zh', 1, c))
      BY <1>1 DEF Wanted
    <3>3. QED
      BY <3>1, <3>2
  <2>4. TranslatedSoFar'
    <3>1. mt' \in [DOMAIN mt' -> Nat] /\ raw' \in Seq(English) /\ DOMAIN raw' = {}
      BY <1>1
    <3>2. QED
      BY <1>1, <2>3, <3>1 DEF TranslatedSoFar, OneEach
  <2>5. QED
    BY <1>1, <2>1, <2>2, <2>4 DEF ItemSetsInv
<1>4. QED
  BY <1>2, <1>3

\* One item more.
LEMMA ItemSetsTranslate == ItemSetsInv /\ Translate => ItemSetsInv'
<1> SUFFICES ASSUME ItemSetsInv, Translate
             PROVE  ItemSetsInv'
  OBVIOUS
<1> DEFINE item == Wanted[at]
<1>1. /\ stage = "translate" /\ limit \in Nat /\ declared = NoSet /\ verdict # "pair"
      /\ IsMerged(zh) /\ TranslatedSoFar /\ at <= Len(Wanted) /\ at' = at + 1
      /\ UNCHANGED <<stage, inputs, zh, limit, en, declared, finals, verdict>>
  BY ItemSetsAssumption DEF ItemSetsInv, Translate
<1>2. Wanted' = Wanted
  BY <1>1 DEF Wanted
<1>3. PICK new \in [LabelsToTranslate(item) \ DOMAIN mt -> EnLabels] :
        /\ mt' = Learnt(new)
        /\ LET labels == IF item.kind = "noul" THEN item.labels ELSE Translated(item.labels, mt') IN
           \/ /\ LabelsUsable(item.kind, labels)
              /\ \E lost \in Losses, broken \in BOOLEAN :
                    raw' = Append(raw, [key |-> item.key, kind |-> item.kind, labels |-> labels,
                                        gold |-> labels[item.gold], lost |-> lost, broken |-> broken])
              /\ UNCHANGED dropped
           \/ /\ dropped' = dropped \cup LeftOut(item)
              /\ UNCHANGED raw
  BY DEF Translate
<1> DEFINE labels == IF item.kind = "noul" THEN item.labels ELSE Translated(item.labels, mt')
<1>4. /\ Len(Wanted) \in Nat /\ at \in 1..Len(Wanted) /\ at \in DOMAIN zh /\ item = zh[at]
      /\ item \in Item /\ item.gold \in DOMAIN item.labels /\ item.labels \in Seq(Int)
  <2>1. zh \in Seq(Item) /\ \A i \in DOMAIN zh : zh[i].gold \in DOMAIN zh[i].labels
    BY <1>1 DEF IsMerged
  <2>2. at \in Nat \ {0}
    BY <1>1 DEF TranslatedSoFar
  <2>3. Len(Wanted) \in Nat /\ \A n \in 1..Len(Wanted) : n \in DOMAIN zh /\ Wanted[n] = zh[n]
    BY <1>1, <2>1, WantedIs
  <2>4. at \in 1..Len(Wanted) /\ at \in DOMAIN zh /\ item = zh[at]
    BY <1>1, <2>2, <2>3
  <2>5. item \in Item
    BY <2>1, <2>4
  <2>6. QED
    BY <2>1, <2>3, <2>4, <2>5 DEF Item
<1> HIDE DEF item
<1>5. /\ mt' \in [DOMAIN mt' -> Nat]
      /\ \A l \in DOMAIN mt : l \in DOMAIN mt' /\ mt'[l] = mt[l]
      /\ LabelsToTranslate(item) \subseteq DOMAIN mt'
  <2>1. DOMAIN mt' = DOMAIN mt \cup LabelsToTranslate(item)
    BY <1>3 DEF Learnt
  <2>2. \A l \in DOMAIN mt' : mt'[l] = IF l \in DOMAIN mt THEN mt[l] ELSE new[l]
    BY <1>3 DEF Learnt
  <2>3. mt \in [DOMAIN mt -> Nat]
    BY <1>1 DEF TranslatedSoFar
  <2>4. \A l \in DOMAIN mt' : mt'[l] \in Nat
    BY <2>1, <2>2, <2>3, ItemSetsAssumption
  <2>5. mt' = [l \in DOMAIN mt' |-> mt'[l]]
    BY <1>3 DEF Learnt
  <2>6. QED
    BY <2>1, <2>2, <2>4, <2>5
<1>6. /\ labels \in Seq(Int) /\ DOMAIN labels = DOMAIN item.labels
      /\ \A i \in DOMAIN item.labels :
            IF item.kind = "noul" THEN labels[i] = item.labels[i]
            ELSE item.labels[i] \in DOMAIN mt' /\ labels[i] = mt'[item.labels[i]]
  <2>1. CASE item.kind = "noul"
    BY <1>4, <2>1
  <2>2. CASE item.kind # "noul"
    <3>1. \A i \in DOMAIN item.labels : item.labels[i] \in DOMAIN mt' /\ mt'[item.labels[i]] \in Int
      BY <1>5, <2>2 DEF LabelsToTranslate, Range
    <3> DEFINE n == Len(item.labels)
    <3>2. n \in Nat /\ DOMAIN item.labels = 1..n
      BY <1>4
    <3>3. labels = [i \in 1..n |-> mt'[item.labels[i]]]
      BY <2>2, <3>2 DEF Translated
    <3>4. QED
      BY <2>2, <3>1, <3>2, <3>3
  <2>3. QED
    BY <2>1, <2>2
<1> HIDE DEF labels
<1>7. /\ \A r \in DOMAIN raw : \E n \in 1..(at - 1) : MadeFrom(raw[r], zh[n], mt')
      /\ \A n \in 1..(at - 1) : zh[n].key \in Keys(raw) \cup dropped
      /\ raw \in Seq(English) /\ OneEach(raw) /\ at \in Nat \ {0} /\ at - 1 <= Len(Wanted)
  <2>1. /\ \A r \in DOMAIN raw : \E n \in 1..(at - 1) : MadeFrom(raw[r], zh[n], mt)
        /\ \A n \in 1..(at - 1) : zh[n].key \in Keys(raw) \cup dropped
        /\ raw \in Seq(English) /\ OneEach(raw) /\ at \in Nat \ {0} /\ at - 1 <= Len(Wanted)
    BY <1>1 DEF TranslatedSoFar
  <2>2. QED
    BY <1>5, <2>1, MadeFromStays
<1>8. TranslatedSoFar'
  <2>1. CASE dropped' = dropped \cup LeftOut(item) /\ raw' = raw
    <3>1. item.key \in dropped' /\ dropped \subseteq dropped'
      BY <2>1 DEF LeftOut
    <3>2. \A n \in 1..(at' - 1) : n \in 1..(at - 1) \/ n = at
      BY <1>1, <1>7
    <3>3. \A n \in 1..(at' - 1) : zh[n].key \in Keys(raw) \cup dropped'
      BY <1>4, <1>7, <3>1, <3>2
    <3>4. \A r \in DOMAIN raw : \E n \in 1..(at' - 1) : MadeFrom(raw[r], zh[n], mt')
      <4>1. 1..(at - 1) \subseteq 1..(at' - 1)
        BY <1>1, <1>7
      <4>2. QED
        BY <1>7, <4>1
    <3>5. QED
      BY <1>1, <1>2, <1>4, <1>5, <1>7, <2>1, <3>3, <3>4 DEF TranslatedSoFar, Keys
  <2>2. ASSUME LabelsUsable(item.kind, labels), dropped' = dropped,
               NEW lost \in Losses, NEW broken \in BOOLEAN,
               raw' = Append(raw, [key |-> item.key, kind |-> item.kind, labels |-> labels,
                                   gold |-> labels[item.gold], lost |-> lost, broken |-> broken])
        PROVE  TranslatedSoFar'
    <3> DEFINE e == [key |-> item.key, kind |-> item.kind, labels |-> labels,
                     gold |-> labels[item.gold], lost |-> lost, broken |-> broken]
               c == Len(raw)
    <3>1. e \in English
      <4>1. labels[item.gold] \in Int
        BY <1>4, <1>6
      <4>2. lost \in SUBSET Fields
        BY ItemSetsAssumption
      <4>3. QED
        BY <1>4, <1>6, <4>1, <4>2 DEF English, Item
    <3>2. MadeFrom(e, zh[at], mt') /\ e.key = zh[at].key
      BY <1>4, <1>6, <2>2 DEF MadeFrom
    <3> HIDE DEF e
    <3>3. /\ c \in Nat /\ DOMAIN raw = 1..c /\ DOMAIN raw' = 1..(c + 1)
          /\ raw' \in Seq(English) /\ raw'[c + 1] = e /\ \A r \in 1..c : raw'[r] = raw[r]
      BY <1>7, <2>2, <3>1 DEF e
    <3> HIDE DEF c
    <3>4. \A r \in 1..(c + 1) : r \in 1..c \/ r = c + 1
      BY <3>3
    <3>5. \A r \in DOMAIN raw' : \E n \in 1..(at' - 1) : MadeFrom(raw'[r], zh[n], mt')
      <4> SUFFICES ASSUME NEW r \in 1..(c + 1)
                   PROVE  \E n \in 1..(at' - 1) : MadeFrom(raw'[r], zh[n], mt')
        BY <3>3
      <4>1. CASE r \in 1..c
        <5>1. PICK n \in 1..(at - 1) : MadeFrom(raw[r], zh[n], mt')
          BY <1>7, <3>3, <4>1
        <5>2. n \in 1..(at' - 1)
          BY <1>1, <1>7
        <5>3. QED
          BY <3>3, <4>1, <5>1, <5>2
      <4>2. CASE r = c + 1
        <5>1. at \in 1..(at' - 1)
          BY <1>1, <1>7
        <5>2. QED
          BY <3>2, <3>3, <4>2, <5>1
      <4>3. QED
        BY <3>4, <4>1, <4>2
    <3>6. OneEach(raw')
      <4>1. \A r \in 1..c : raw[r].key # e.key
        <5> SUFFICES ASSUME NEW r \in 1..c
                     PROVE  raw[r].key # e.key
          OBVIOUS
        <5>1. PICK n \in 1..(at - 1) : MadeFrom(raw[r], zh[n], mt')
          BY <1>7, <3>3
        <5>2. raw[r].key = zh[n].key
          BY <5>1 DEF MadeFrom
        <5>3. n \in DOMAIN zh /\ n # at
          <6>1. DOMAIN zh = 1..Len(zh) /\ Len(zh) \in Nat
            BY <1>1 DEF IsMerged
          <6>2. QED
            BY <1>4, <1>7, <6>1
        <5>4. zh[n].key # zh[at].key
          BY <1>1, <1>4, <5>3 DEF IsMerged, OneEach
        <5>5. QED
          BY <3>2, <5>2, <5>4
      <4>2. \A i, j \in 1..c : raw[i].key = raw[j].key => i = j
        BY <1>7, <3>3 DEF OneEach
      <4>3. \A i, j \in 1..(c + 1) : raw'[i].key = raw'[j].key => i = j
        BY <3>3, <3>4, <4>1, <4>2
      <4>4. QED
        BY <3>3, <4>3 DEF OneEach
    <3>7. \A n \in 1..(at' - 1) : zh[n].key \in Keys(raw') \cup dropped'
      <4>1. \A n \in 1..(at' - 1) : n \in 1..(at - 1) \/ n = at
        BY <1>1, <1>7
      <4>2. e.key \in Keys(raw')
        <5>1. c + 1 \in DOMAIN raw'
          BY <3>3
        <5>2. QED
          BY <3>3, <5>1 DEF Keys
      <4>3. Keys(raw) \subseteq Keys(raw')
        <5>1. \A r \in 1..c : r \in DOMAIN raw' /\ raw'[r].key = raw[r].key
          BY <3>3
        <5>2. QED
          BY <3>3, <5>1 DEF Keys
      <4>4. QED
        BY <1>7, <2>2, <3>2, <4>1, <4>2, <4>3
    <3>8. QED
      BY <1>1, <1>2, <1>4, <1>5, <1>7, <3>3, <3>5, <3>6, <3>7 DEF TranslatedSoFar, Keys
  <2>3. QED
    BY <1>3, <2>1, <2>2 DEF labels
<1>9. QED
  BY <1>1, <1>8 DEF ItemSetsInv

\* While the sets are finalised and checked the merged and the raw set stay.
LEMMA ItemSetsFixed ==
    ASSUME UNCHANGED <<inputs, zh, limit, at, mt, raw, dropped>>
    PROVE  /\ Wanted' = Wanted /\ FinalDrops' = FinalDrops
           /\ Keep(raw, FinalDrops)' = Keep(raw, FinalDrops)
           /\ TranslatedSoFar => TranslatedSoFar'
           /\ IsMerged(zh)' = IsMerged(zh)
<1>1. Wanted' = Wanted
  BY DEF Wanted
<1>2. FinalDrops' = FinalDrops
  BY DEF FinalDrops
<1>3. Keep(raw, FinalDrops)' = Keep(raw, FinalDrops)
  BY <1>2
<1>4. TranslatedSoFar => TranslatedSoFar'
  BY <1>1 DEF TranslatedSoFar
<1>5. QED
  BY <1>1, <1>2, <1>3, <1>4

\* Every step keeps the invariant.
LEMMA ItemSetsStep == ItemSetsInv /\ [Next]_vars => ItemSetsInv'
<1> SUFFICES ASSUME ItemSetsInv, [Next]_vars
             PROVE  ItemSetsInv'
  OBVIOUS
<1>1. CASE MergeItemSets
  BY <1>1, ItemSetsMerge
<1>2. CASE Translate
  BY <1>2, ItemSetsTranslate
<1>3. CASE WriteRaw
  <2>1. UNCHANGED <<inputs, zh, limit, at, mt, raw, dropped>>
    BY <1>3 DEF WriteRaw
  <2>2. QED
    BY <1>3, <2>1, ItemSetsFixed DEF ItemSetsInv, WriteRaw
<1>4. CASE FinalizeSet
  <2>1. UNCHANGED <<inputs, zh, limit, at, mt, raw, dropped>>
    BY <1>4 DEF FinalizeSet
  <2>2. QED
    BY <1>4, <2>1, ItemSetsFixed DEF ItemSetsInv, FinalizeSet
<1>5. CASE FinalizeReport
  <2>1. UNCHANGED <<inputs, zh, limit, at, mt, raw, dropped>>
    BY <1>5 DEF FinalizeReport
  <2>2. QED
    BY <1>5, <2>1, ItemSetsFixed DEF ItemSetsInv, FinalizeReport
<1>6. CASE FinalizeKilled
  <2>1. UNCHANGED <<inputs, zh, limit, at, mt, raw, dropped>>
    BY <1>6 DEF FinalizeKilled
  <2>2. QED
    BY <1>6, <2>1, ItemSetsFixed DEF ItemSetsInv, FinalizeKilled
<1>7. CASE GateFinal
  <2>1. UNCHANGED <<inputs, zh, limit, at, mt, raw, dropped>>
    BY <1>7 DEF GateFinal
  <2>2. QED
    BY <1>7, <2>1, ItemSetsFixed DEF ItemSetsInv, GateFinal
<1>8. CASE GateRaw
  <2>1. UNCHANGED <<inputs, zh, limit, at, mt, raw, dropped>>
    BY <1>8 DEF GateRaw
  <2>2. QED
    BY <1>8, <2>1, ItemSetsFixed DEF ItemSetsInv, GateRaw
<1>9. CASE UNCHANGED vars
  <2>1. UNCHANGED <<inputs, zh, limit, at, mt, raw, dropped>>
    BY <1>9 DEF vars
  <2>2. QED
    BY <1>9, <2>1, ItemSetsFixed DEF ItemSetsInv, vars
<1>10. QED
  BY <1>1, <1>2, <1>3, <1>4, <1>5, <1>6, <1>7, <1>8, <1>9 DEF Next

\* Every item of the raw set, and the Chinese item of its key: all the slots agree.
LEMMA SlotsOfRaw ==
    ASSUME IsMerged(zh), TranslatedSoFar, limit \in Nat, NEW r \in DOMAIN raw
    PROVE  LET e == raw[r] z == ItemOf(zh, e.key) IN
           /\ e \in English /\ e.key \in Keys(zh)
           /\ MadeFrom(e, z, mt) /\ z \in Item /\ z.gold \in DOMAIN z.labels
           /\ SlotOf(e) = z.gold
           /\ \A i \in DOMAIN z.labels :
                SlotOf([e EXCEPT !.gold = IF z.kind = "noul" THEN z.labels[i] ELSE mt[z.labels[i]]]) = i
<1> DEFINE e == raw[r]
           z == ItemOf(zh, e.key)
<1>1. PICK n \in 1..(at - 1) : MadeFrom(e, zh[n], mt)
  BY DEF TranslatedSoFar
<1>2. n \in DOMAIN zh
  <2>1. zh \in Seq(Item)
    BY DEF IsMerged
  <2>2. Len(Wanted) \in Nat /\ \A l \in 1..Len(Wanted) : l \in DOMAIN zh
    BY <2>1, WantedIs
  <2>3. n \in 1..Len(Wanted)
    BY <2>2 DEF TranslatedSoFar
  <2>4. QED
    BY <2>2, <2>3
<1>3. zh[n].key = e.key
  BY <1>1 DEF MadeFrom
<1>4. z = zh[n] /\ e.key \in Keys(zh)
  BY <1>2, <1>3, ItemOfIs DEF IsMerged
<1>5. /\ z \in Item /\ z.gold \in DOMAIN z.labels /\ MadeFrom(e, z, mt)
      /\ e \in English /\ e.labels \in Seq(Int)
  <2>1. zh[n] \in Item /\ zh[n].gold \in DOMAIN zh[n].labels
    BY <1>2 DEF IsMerged
  <2>2. e \in English
    BY DEF TranslatedSoFar
  <2>3. e.labels \in Seq(Int)
    BY <2>2 DEF English
  <2>4. QED
    BY <1>1, <1>4, <2>1, <2>2, <2>3
<1> HIDE DEF e, z
<1>6. SlotOf(e) = z.gold
  BY <1>5, SlotOfLabel DEF MadeFrom
<1>7. ASSUME NEW i \in DOMAIN z.labels
      PROVE  SlotOf([e EXCEPT !.gold = IF z.kind = "noul" THEN z.labels[i] ELSE mt[z.labels[i]]]) = i
  <2> DEFINE other == [e EXCEPT !.gold = IF z.kind = "noul" THEN z.labels[i] ELSE mt[z.labels[i]]]
  <2>1. (IF z.kind = "noul" THEN z.labels[i] ELSE mt[z.labels[i]]) = e.labels[i]
    BY <1>5 DEF MadeFrom
  <2>2. other.kind = e.kind /\ other.labels = e.labels /\ other.gold = e.labels[i]
    BY <1>5, <2>1 DEF English
  <2>3. LabelsUsable(e.kind, e.labels) /\ i \in DOMAIN e.labels
    BY <1>5 DEF MadeFrom
  <2> HIDE DEF other
  <2>4. SlotOf(other) = i
    BY <1>5, <2>2, <2>3, SlotOfLabel
  <2>5. QED
    BY <2>4 DEF other
<1>8. QED
  BY <1>4, <1>5, <1>6, <1>7 DEF e, z

\* The final set is part of the raw one.
LEMMA KeptOfRaw ==
    ASSUME TranslatedSoFar, NEW set \in {raw, Keep(raw, FinalDrops)}
    PROVE  /\ OneEach(set) /\ Keys(set) \subseteq Keys(raw)
           /\ \A k \in Keys(set) : \E r \in DOMAIN raw :
                 raw[r].key = k /\ ItemOf(set, k) = raw[r] /\ ItemOf(raw, k) = raw[r]
<1>1. raw \in Seq(English) /\ OneEach(raw)
  BY DEF TranslatedSoFar
<1>2. /\ OneEach(set) /\ Keys(set) \subseteq Keys(raw)
      /\ \A n \in DOMAIN set : \E r \in DOMAIN raw : set[n] = raw[r]
  <2>1. CASE set = raw
    BY <1>1, <2>1
  <2>2. CASE set = Keep(raw, FinalDrops)
    BY <1>1, <2>2, KeepIs
  <2>3. QED
    BY <2>1, <2>2
<1>3. ASSUME NEW k \in Keys(set)
      PROVE  \E r \in DOMAIN raw :
                raw[r].key = k /\ ItemOf(set, k) = raw[r] /\ ItemOf(raw, k) = raw[r]
  <2>1. PICK n \in DOMAIN set : set[n].key = k
    BY DEF Keys
  <2>2. PICK r \in DOMAIN raw : set[n] = raw[r]
    BY <1>2
  <2>3. QED
    BY <1>1, <1>2, <2>1, <2>2, ItemOfIs
<1>4. QED
  BY <1>2, <1>3

-----------------------------------------------------------------------------
(* What the invariant says of a pair. *)

\* No slot drifts.
LEMMA NoSlotDrifts == ItemSetsInv => SlotsDoNotDrift
<1> SUFFICES ASSUME ItemSetsInv, verdict = "pair", NEW k \in Keys(en)
             PROVE  LET z == ItemOf(zh, k) e == ItemOf(en, k) IN
                    /\ SlotOf(e) = z.gold
                    /\ \A i \in DOMAIN z.labels :
                        SlotOf([e EXCEPT !.gold = IF z.kind = "noul" THEN z.labels[i]
                                                  ELSE mt[z.labels[i]]]) = i
  BY DEF SlotsDoNotDrift
<1>1. /\ IsMerged(zh) /\ TranslatedSoFar /\ limit \in Nat
      /\ en \in {raw, Keep(raw, FinalDrops)}
  BY ItemSetsAssumption DEF ItemSetsInv
<1>2. PICK r \in DOMAIN raw : raw[r].key = k /\ ItemOf(en, k) = raw[r]
  BY <1>1, KeptOfRaw
<1>3. QED
  BY <1>1, <1>2, SlotsOfRaw

\* What finalize-mt has written, set and report, passes the gate.
LEMMA FinalPasses ==
    ASSUME IsMerged(zh), TranslatedSoFar, limit \in Nat
    PROVE  PassesParity(Keep(raw, FinalDrops), FinalDrops)
<1> DEFINE set == Keep(raw, FinalDrops)
           drops == FinalDrops
<1>1. raw \in Seq(English) /\ OneEach(raw) /\ OneEach(zh)
  BY DEF TranslatedSoFar, IsMerged
<1>2. OneEach(set) /\ Keys(set) = Keys(raw) \ drops
  BY <1>1, KeepIs
<1>3. \A k \in Keys(raw) : k \in Keys(zh)
  <2> SUFFICES ASSUME NEW r \in DOMAIN raw
               PROVE  raw[r].key \in Keys(zh)
    BY DEF Keys
  <2>1. QED
    BY SlotsOfRaw
<1>4. /\ drops \subseteq Keys(zh)
      /\ \A k \in Keys(zh) : k \notin Keys(raw) => k \in drops
      /\ \A k \in Keys(zh) : Unusable(ItemOf(zh, k), ItemOf(raw, k)) => k \in drops
  BY DEF FinalDrops
<1>5. ASSUME NEW k \in Keys(set)
      PROVE  LET z == ItemOf(zh, k) e == ItemOf(set, k) IN
             /\ z.kind = e.kind /\ Len(z.labels) = Cardinality(Range(e.labels))
             /\ e.gold \in Range(e.labels) /\ SlotOf(e) = z.gold
             /\ SeenLosses(e) = {} /\ ~e.broken
  <2> DEFINE z == ItemOf(zh, k)
             e == ItemOf(set, k)
  <2>1. PICK r \in DOMAIN raw : raw[r].key = k /\ e = raw[r] /\ ItemOf(raw, k) = raw[r]
    BY KeptOfRaw
  <2>2. /\ e \in English /\ k \in Keys(zh) /\ MadeFrom(e, z, mt)
        /\ z \in Item /\ z.gold \in DOMAIN z.labels /\ SlotOf(e) = z.gold
    BY <2>1, SlotsOfRaw
  <2>3. ~ Unusable(z, e)
    BY <1>2, <1>4, <2>1, <2>2
  <2> HIDE DEF z, e
  <2>4. SeenLosses(e) = {} /\ ~e.broken
    BY <2>3 DEF Unusable
  <2>5. /\ e.labels \in Seq(Int) /\ IsInjective(e.labels) /\ z.kind = e.kind
        /\ Len(z.labels) = Len(e.labels) /\ e.gold \in Range(e.labels)
    <3>1. e.labels \in Seq(Int) /\ z.labels \in Seq(Int)
      BY <2>2 DEF English, Item
    <3>2. DOMAIN e.labels = DOMAIN z.labels /\ IsInjective(e.labels) /\ z.kind = e.kind
      BY <2>2 DEF MadeFrom, LabelsUsable
    <3>3. e.gold \in Range(e.labels)
      BY <2>2, <3>2 DEF MadeFrom, Range
    <3>4. QED
      BY <3>1, <3>2, <3>3
  <2>6. Cardinality(Range(e.labels)) = Len(e.labels)
    BY <2>5, LabelsCount
  <2>7. QED
    BY <2>2, <2>4, <2>5, <2>6 DEF z, e
<1> HIDE DEF set, drops
<1>6. Keys(set) \subseteq Keys(zh) /\ Keys(zh) \ Keys(set) = drops
  BY <1>2, <1>3, <1>4
<1>7. /\ IsInjective([i \in DOMAIN zh |-> zh[i].key])
      /\ IsInjective([i \in DOMAIN set |-> set[i].key])
  BY <1>1, <1>2 DEF OneEach, IsInjective
<1>8. PassesParity(set, drops)
  BY <1>5, <1>6, <1>7 DEF PassesParity
<1>9. QED
  BY <1>8 DEF set, drops

\* What is left out of a pair, and why.
LEMMA DropsHaveAReason == ItemSetsInv => DropsAreTheUnusable
<1> SUFFICES ASSUME ItemSetsInv
             PROVE  DropsAreTheUnusable
  OBVIOUS
<1>1. limit \in Nat
  BY ItemSetsAssumption DEF ItemSetsInv
<1>2. stage = "gate" /\ declared # NoSet => PassesParity(en, declared)
  BY <1>1, FinalPasses DEF ItemSetsInv
<1>3. ASSUME verdict = "pair", NEW k \in Keys(zh) \ Keys(en)
      PROVE  \/ k \in dropped \cup (Keys(zh) \ Keys(Wanted))
             \/ k \in Keys(raw) /\ LET e == ItemOf(raw, k) IN
                     SeenLosses(e) # {} \/ e.broken \/ SlotOf(e) # ItemOf(zh, k).gold
  <2>1. /\ IsMerged(zh) /\ TranslatedSoFar /\ at > Len(Wanted)
        /\ en \in {raw, Keep(raw, FinalDrops)}
    BY <1>3 DEF ItemSetsInv
  <2>2. PICK n \in DOMAIN zh : zh[n].key = k
    BY DEF Keys
  <2>3. /\ Wanted \in Seq(Item) /\ Len(Wanted) \in Nat
        /\ \A l \in 1..Len(Wanted) : l \in DOMAIN zh /\ Wanted[l] = zh[l]
    BY <1>1, <2>1, WantedIs DEF IsMerged
  <2>4. CASE n \in 1..Len(Wanted)
    <3>1. n \in 1..(at - 1)
      BY <2>1, <2>3, <2>4 DEF TranslatedSoFar
    <3>2. k \in Keys(raw) \/ k \in dropped
      BY <2>1, <2>2, <3>1 DEF TranslatedSoFar
    <3>3. ASSUME k \in Keys(raw)
          PROVE  Unusable(ItemOf(zh, k), ItemOf(raw, k))
      <4>1. en = Keep(raw, FinalDrops)
        BY <1>3, <2>1, <3>3
      <4>2. k \in FinalDrops
        BY <1>3, <2>1, <3>3, <4>1, KeepIs DEF TranslatedSoFar
      <4>3. QED
        BY <3>3, <4>2 DEF FinalDrops
    <3>4. QED
      BY <3>2, <3>3 DEF Unusable
  <2>5. CASE n \notin 1..Len(Wanted)
    <3>1. DOMAIN Wanted = 1..Len(Wanted)
      BY <2>3
    <3>2. \A l \in 1..Len(Wanted) : Wanted[l].key # k
      BY <2>1, <2>2, <2>3, <2>5 DEF IsMerged, OneEach
    <3>3. k \notin Keys(Wanted)
      BY <3>1, <3>2 DEF Keys
    <3>4. QED
      BY <3>3
  <2>6. QED
    BY <2>4, <2>5
<1>4. QED
  BY <1>2, <1>3 DEF DropsAreTheUnusable

\* merge-item-sets.py, translate-mt.py, finalize-mt.py, check-en-parity.py: in
\* every pair that passed the gate the English item has, slot by slot, the
\* translation of the Chinese label, whatever was translated to what, killed or
\* run again.
THEOREM SlotsNeverDrift == Spec => []SlotsDoNotDrift
<1>1. Init => ItemSetsInv
  BY ItemSetsInit
<1>2. ItemSetsInv /\ [Next]_vars => ItemSetsInv'
  BY ItemSetsStep
<1>3. ItemSetsInv => SlotsDoNotDrift
  BY NoSlotDrifts
<1>4. QED
  BY <1>1, <1>2, <1>3, PTL DEF Spec

\* finalize-mt.py and check-en-parity.py: a finalised set with its report always
\* passes the gate, and what an accepted pair lacks was left out by the
\* translator, is unusable by the shared rules, or was beyond the --limit.
THEOREM DropsAreAccountedFor == Spec => []DropsAreTheUnusable
<1>1. Init => ItemSetsInv
  BY ItemSetsInit
<1>2. ItemSetsInv /\ [Next]_vars => ItemSetsInv'
  BY ItemSetsStep
<1>3. ItemSetsInv => DropsAreTheUnusable
  BY DropsHaveAReason
<1>4. QED
  BY <1>1, <1>2, <1>3, PTL DEF Spec

=============================================================================
