---------------------------- MODULE ConfigStoreProof ----------------------------
(***************************************************************************)
(* Theorems about ConfigStore, for every set of requests, pages, texts and *)
(* items and every number of saves, failures and restarts.                 *)
(***************************************************************************)
EXTENDS ConfigStore, FiniteSetTheorems, FunctionTheorems,
        SequenceTheorems, WellFoundedInduction, TLAPS

-----------------------------------------------------------------------------
(* Facts about the operators of the model                                  *)

\* A non-empty set of natural numbers has a least member.
LEMMA LeastIn ==
    ASSUME NEW T \in SUBSET Nat, T # {}
    PROVE  \E x \in T : \A y \in T : x <= y
<1>1. PICK x \in T : \A y \in T : ~(<<y, x>> \in OpToRel(<, Nat))
    BY WFMin, NatLessThanWellFounded
<1>2. \A y \in T : ~(y < x)
    BY <1>1 DEF OpToRel
<1>3. ASSUME NEW y \in T PROVE x <= y
  <2>1. x \in Nat /\ y \in Nat /\ ~(y < x)
      BY <1>2
  <2>2. QED
      BY <2>1
<1>4. QED
    BY <1>3

\* A non-empty set of positions has a last member.
LEMMA GreatestIn ==
    ASSUME NEW n \in Nat, NEW I \in SUBSET (1..n), I # {}
    PROVE  \E m \in I : \A i \in I : i <= m
<1> DEFINE T == {n - i : i \in I}
<1>1. T \in SUBSET Nat /\ T # {}
  <2>1. \A i \in I : n - i \in Nat
      OBVIOUS
  <2>2. QED
      BY <2>1
<1> HIDE DEF T
<1>2. PICK x \in T : \A y \in T : x <= y
    BY <1>1, LeastIn
<1> USE DEF T
<1>3. PICK m \in I : x = n - m
    OBVIOUS
<1>4. ASSUME NEW i \in I PROVE i <= m
  <2>1. n - m <= n - i
      BY <1>2, <1>3
  <2>2. i \in Nat /\ m \in Nat
      OBVIOUS
  <2>3. QED
      BY <2>1, <2>2
<1>5. QED
    BY <1>4

\* A function on 1..k that lists positions in ascending order.
IsAscending(f, k) == \A a, b \in 1..k : a < b => f[a] < f[b]

Listed(I) == \E f \in [1..Cardinality(I) -> I] : IsAscending(f, Cardinality(I))

\* Any positions can be listed in ascending order: otherwise a set with the
\* fewest of them that cannot, without its last one, could not either.
LEMMA AscendingExists ==
    ASSUME NEW n \in Nat, NEW I \in SUBSET (1..n)
    PROVE  Listed(I)
<1> DEFINE Sizes == {k \in Nat : \E J \in SUBSET (1..n) : Cardinality(J) = k /\ ~Listed(J)}
<1>f. \A J \in SUBSET (1..n) : IsFiniteSet(J) /\ Cardinality(J) \in Nat
  <2>1. IsFiniteSet(1..n)
      BY FS_Interval
  <2>2. QED
      BY <2>1, FS_Subset, FS_CardinalityType
<1>1. ASSUME Sizes # {} PROVE FALSE
  <2>1. Sizes \in SUBSET Nat
      OBVIOUS
  <2>2. PICK k \in Sizes : \A y \in Sizes : k <= y
    <3> HIDE DEF Sizes
    <3>1. QED
        BY <1>1, <2>1, LeastIn
  <2>3. PICK J \in SUBSET (1..n) : Cardinality(J) = k /\ ~Listed(J)
      OBVIOUS
  <2>4. k \in Nat /\ IsFiniteSet(J)
      BY <1>f
  <2>5. J # {}
    <3>1. SUFFICES ASSUME J = {} PROVE FALSE
        OBVIOUS
    <3>2. Cardinality(J) = 0
        BY <3>1, FS_EmptySet
    <3>3. 1..0 = {}
        OBVIOUS
    <3>4. [x \in {} |-> x] \in [1..0 -> J]
        BY <3>3
    <3>5. IsAscending([x \in {} |-> x], 0)
        BY <3>3 DEF IsAscending
    <3>6. QED
        BY <2>3, <3>2, <3>4, <3>5 DEF Listed
  <2>6. PICK m \in J : \A i \in J : i <= m
      BY <2>5, GreatestIn
  <2> DEFINE R == J \ {m}
  <2>7. Cardinality(R) = k - 1 /\ k - 1 \in Nat
    <3>1. Cardinality(R) = k - 1
        BY <2>3, <2>4, <2>6, FS_RemoveElement
    <3>2. Cardinality(R) \in Nat
        BY <1>f
    <3>3. QED
        BY <3>1, <3>2
  <2>8. Listed(R)
    <3>1. R \in SUBSET (1..n)
        OBVIOUS
    <3>2. k - 1 \notin Sizes
        BY <2>2, <2>4
    <3>3. QED
        BY <2>7, <3>1, <3>2
  <2>9. PICK f \in [1..k - 1 -> R] : IsAscending(f, k - 1)
      BY <2>7, <2>8 DEF Listed
  <2> DEFINE g == [x \in 1..k |-> IF x = k THEN m ELSE f[x]]
  <2>10. \A x \in 1..k : x # k => x \in 1..k - 1
      BY <2>4
  <2>11. g \in [1..k -> J]
      BY <2>6, <2>9, <2>10
  <2>12. IsAscending(g, k)
    <3> SUFFICES ASSUME NEW a \in 1..k, NEW b \in 1..k, a < b PROVE g[a] < g[b]
        BY DEF IsAscending
    <3>1. a \in 1..k - 1 /\ g[a] = f[a]
        BY <2>4
    <3>2. f[a] \in J /\ f[a] # m /\ f[a] \in Nat /\ m \in Nat
      <4>1. f[a] \in R
          BY <2>9, <3>1
      <4>2. f[a] \in J /\ f[a] # m
          BY <4>1
      <4>3. J \subseteq Nat
          BY <2>3
      <4>4. f[a] \in Nat /\ m \in Nat
          BY <2>6, <4>2, <4>3
      <4>5. QED
          BY <4>2, <4>4
    <3>3. CASE b = k
      <4>1. f[a] <= m
          BY <2>6, <3>2
      <4>2. g[b] = m
          BY <3>3
      <4>3. QED
          BY <3>1, <3>2, <4>1, <4>2
    <3>4. CASE b # k
      <4>1. b \in 1..k - 1 /\ g[b] = f[b]
          BY <2>10, <3>4
      <4>2. QED
          BY <2>9, <3>1, <4>1 DEF IsAscending
    <3>5. QED
        BY <3>3, <3>4
  <2> HIDE DEF g
  <2>13. Listed(J)
      BY <2>3, <2>11, <2>12 DEF Listed
  <2>14. QED
      BY <2>3, <2>13
<1>2. CASE Sizes = {}
    BY <1>2, <1>f
<1>3. QED
    BY <1>1, <1>2

\* Ascending lists each of the positions once.
LEMMA AscendingLists ==
    ASSUME NEW n \in Nat, NEW I \in SUBSET (1..n)
    PROVE  /\ Cardinality(I) \in Nat
           /\ Ascending(I) \in [1..Cardinality(I) -> I]
           /\ \A a, b \in 1..Cardinality(I) : Ascending(I)[a] = Ascending(I)[b] => a = b
           /\ \A i \in I : \E a \in 1..Cardinality(I) : Ascending(I)[a] = i
<1> DEFINE k == Cardinality(I)
           f == Ascending(I)
<1>1. IsFiniteSet(I) /\ k \in Nat
  <2>1. IsFiniteSet(1..n)
      BY FS_Interval
  <2>2. QED
      BY <2>1, FS_Subset, FS_CardinalityType
<1>2. f \in [1..k -> I] /\ \A a, b \in 1..k : a < b => f[a] < f[b]
  <2>1. \E g \in [1..k -> I] : \A a, b \in 1..k : a < b => g[a] < g[b]
      BY AscendingExists DEF Listed, IsAscending
  <2>2. QED
      BY <2>1 DEF Ascending
<1> HIDE DEF k, f
<1>3. \A a, b \in 1..k : f[a] = f[b] => a = b
  <2> SUFFICES ASSUME NEW a \in 1..k, NEW b \in 1..k, f[a] = f[b], a # b PROVE FALSE
      OBVIOUS
  <2>1. f[a] \in I /\ f[b] \in I
      BY <1>2
  <2>2. f[a] \in Nat /\ f[b] \in Nat /\ a \in Nat /\ b \in Nat
    <3>1. I \subseteq Nat
        OBVIOUS
    <3>2. a \in Nat /\ b \in Nat
        BY <1>1
    <3>3. f[a] \in Nat /\ f[b] \in Nat
        BY <2>1, <3>1
    <3>4. QED
        BY <3>2, <3>3
  <2>3. a < b \/ b < a
      BY <2>2
  <2>4. f[a] < f[b] \/ f[b] < f[a]
      BY <1>2, <2>3
  <2>5. QED
      BY <2>2, <2>4
<1>4. f \in Injection(1..k, I)
    BY <1>2, <1>3, Fun_IsInj
<1>5. Cardinality(1..k) = k
    BY <1>1, FS_Interval
<1>6. f \in Surjection(1..k, I)
    BY <1>1, <1>4, <1>5, FS_Injection DEF k
<1>7. \A i \in I : \E a \in 1..k : f[a] = i
    BY <1>6 DEF Surjection
<1>8. QED
    BY <1>1, <1>2, <1>3, <1>7 DEF k, f

\* Picked items are those at the positions, each position once.
LEMMA PickedItems ==
    ASSUME NEW S, NEW items \in Seq(S), NEW I \in SUBSET DOMAIN items
    PROVE  /\ Picked(items, I) \in Seq(S)
           /\ Range(Picked(items, I)) = {items[i] : i \in I}
           /\ (\A i, j \in I : items[i] = items[j] => i = j) => IsInjective(Picked(items, I))
<1> DEFINE k == Cardinality(I)
           f == Ascending(I)
           p == Picked(items, I)
<1>1. Len(items) \in Nat /\ DOMAIN items = 1..Len(items)
    OBVIOUS
<1>2. /\ k \in Nat /\ f \in [1..k -> I]
      /\ \A a, b \in 1..k : f[a] = f[b] => a = b
      /\ \A i \in I : \E a \in 1..k : f[a] = i
    BY <1>1, AscendingLists
<1>3. DOMAIN p = 1..k /\ \A a \in 1..k : p[a] = items[f[a]]
    BY DEF Picked
<1> HIDE DEF k, f, p
<1>4. \A i \in I : items[i] \in S
    OBVIOUS
<1>5. p \in Seq(S)
  <2>1. p \in [1..k -> S]
    <3>1. p = [a \in 1..k |-> items[f[a]]]
        BY DEF Picked, p, k, f
    <3>2. QED
        BY <1>2, <1>4, <3>1
  <2>2. QED
      BY <1>2, <2>1, SeqDef
<1>6. Range(p) = {items[i] : i \in I}
  <2>1. \A x \in Range(p) : \E i \in I : x = items[i]
      BY <1>2, <1>3 DEF Range
  <2>2. \A i \in I : \E a \in DOMAIN p : p[a] = items[i]
      BY <1>2, <1>3
  <2>3. \A i \in I : items[i] \in Range(p)
      BY <2>2 DEF Range
  <2>4. QED
      BY <2>1, <2>3
<1>7. ASSUME \A i, j \in I : items[i] = items[j] => i = j
      PROVE  IsInjective(p)
  <2> SUFFICES ASSUME NEW a \in 1..k, NEW b \in 1..k, p[a] = p[b] PROVE a = b
      BY <1>3 DEF IsInjective
  <2>1. f[a] \in I /\ f[b] \in I /\ items[f[a]] = items[f[b]]
      BY <1>2, <1>3
  <2>2. f[a] = f[b]
      BY <1>7, <2>1
  <2>3. QED
      BY <1>2, <2>2
<1>8. QED
    BY <1>5, <1>6, <1>7 DEF p

\* dedupe_rule_set_items loses no item and leaves each once.
LEMMA DedupeItems ==
    ASSUME NEW S, NEW items \in Seq(S)
    PROVE  /\ Dedupe(items) \in Seq(S)
           /\ Range(Dedupe(items)) = Range(items)
           /\ IsInjective(Dedupe(items))
<1> DEFINE I == {i \in DOMAIN items : \A k \in 1..(i - 1) : items[k] # items[i]}
<1>1. Len(items) \in Nat /\ DOMAIN items = 1..Len(items) /\ I \in SUBSET DOMAIN items
    OBVIOUS
<1>2. \A i, j \in I : items[i] = items[j] => i = j
  <2> SUFFICES ASSUME NEW i \in I, NEW j \in I, items[i] = items[j], i < j PROVE FALSE
      BY <1>1
  <2>1. i \in 1..(j - 1)
      BY <1>1
  <2>2. QED
      BY <2>1
<1>3. \A j \in DOMAIN items : \E i \in I : items[i] = items[j]
  <2> SUFFICES ASSUME NEW j \in DOMAIN items PROVE \E i \in I : items[i] = items[j]
      OBVIOUS
  <2> DEFINE Same == {i \in DOMAIN items : items[i] = items[j]}
  <2>1. Same \in SUBSET Nat /\ Same # {}
      BY <1>1
  <2> HIDE DEF Same
  <2>2. PICK i \in Same : \A y \in Same : i <= y
      BY <2>1, LeastIn
  <2> USE DEF Same
  <2>3. \A k \in 1..(i - 1) : items[k] # items[i]
    <3> SUFFICES ASSUME NEW k \in 1..(i - 1), items[k] = items[i] PROVE FALSE
        OBVIOUS
    <3>1. k \in Same /\ k < i /\ i \in Nat /\ k \in Nat
        BY <1>1
    <3>2. i <= k
        BY <2>2, <3>1
    <3>3. QED
        BY <3>1, <3>2
  <2>4. QED
      BY <2>3
<1> HIDE DEF I
<1>4. /\ Picked(items, I) \in Seq(S) /\ Range(Picked(items, I)) = {items[i] : i \in I}
      /\ IsInjective(Picked(items, I))
    BY <1>1, <1>2, PickedItems
<1>5. Dedupe(items) = Picked(items, I)
    BY DEF Dedupe, I
<1>6. {items[i] : i \in I} = Range(items)
    BY <1>1, <1>3 DEF Range
<1>7. QED
    BY <1>4, <1>5, <1>6

\* An edit removes what it names, adds its item and leaves every item once.
LEMMA EditedItems ==
    ASSUME NEW items \in Seq(Items), NEW edit \in [remove : SUBSET Items, add : Items]
    PROVE  /\ Edited(items, edit) \in Seq(Items)
           /\ Range(Edited(items, edit)) = (Range(items) \ edit.remove) \cup {edit.add}
           /\ IsInjective(Edited(items, edit))
<1> DEFINE I == {i \in DOMAIN items : items[i] \notin edit.remove}
           kept == Retained(items, edit.remove)
           all == Append(kept, edit.add)
<1>1. kept \in Seq(Items) /\ Range(kept) = {items[i] : i \in I}
  <2>1. I \in SUBSET DOMAIN items
      OBVIOUS
  <2>2. kept = Picked(items, I)
      BY DEF Retained
  <2> HIDE DEF I, kept
  <2>3. QED
      BY <2>1, <2>2, PickedItems
<1>2. {items[i] : i \in I} = Range(items) \ edit.remove
    BY DEF Range
<1> HIDE DEF kept
<1>3. all \in Seq(Items) /\ Range(all) = Range(kept) \cup {edit.add}
  <2>1. all \in Seq(Items) /\ DOMAIN all = 1..Len(kept) + 1 /\ DOMAIN kept = 1..Len(kept)
      BY <1>1
  <2>2. Len(kept) \in Nat /\ all[Len(kept) + 1] = edit.add
        /\ \A i \in 1..Len(kept) : all[i] = kept[i]
      BY <1>1
  <2>3. QED
      BY <2>1, <2>2 DEF Range
<1> HIDE DEF all, I
<1>4. /\ Dedupe(all) \in Seq(Items) /\ Range(Dedupe(all)) = Range(all)
      /\ IsInjective(Dedupe(all))
    BY <1>3, DedupeItems
<1>5. Edited(items, edit) = Dedupe(all)
    BY DEF Edited, all, kept
<1>6. QED
    BY <1>1, <1>2, <1>3, <1>4, <1>5

-----------------------------------------------------------------------------
(* The plan of a request and what it writes                                *)

\* smartdns.conf is the last file of a plan that has pages; only a request for
\* pages goes through pages, and only one for a set through the file of the set.
LEMMA PlanFiles ==
    ASSUME NEW op \in Ops
    PROVE  /\ Len(Plan(op)) \in Nat \ {0}
           /\ \A i \in 1..Len(Plan(op)) :
                /\ Plan(op)[i] \in Files
                /\ Plan(op)[i] = SetFile <=> op = "set"
                /\ Plan(op)[i] = Main => i = Len(Plan(op))
                /\ Plan(op)[i] \notin {Main, SetFile} => op \in {"save", "assets"}
                /\ \A j \in 1..Len(Plan(op)) : Plan(op)[i] = Plan(op)[j] => i = j
<1> DEFINE Goal(p, o) ==
             /\ Len(p) \in Nat \ {0}
             /\ \A i \in 1..Len(p) :
                  /\ p[i] \in Files
                  /\ p[i] = SetFile <=> o = "set"
                  /\ p[i] = Main => i = Len(p)
                  /\ p[i] \notin {Main, SetFile} => o \in {"save", "assets"}
                  /\ \A j \in 1..Len(p) : p[i] = p[j] => i = j
<1>1. ASSUME NEW q \in Seq(Range(Pages)), IsInjective(q), NEW o \in {"save", "assets"}
      PROVE  Goal(Append(q, Main), o)
  <2> DEFINE p == Append(q, Main)
  <2>1. Len(q) \in Nat /\ DOMAIN q = 1..Len(q) /\ \A i \in 1..Len(q) : q[i] \in Range(Pages)
      OBVIOUS
  <2>2. /\ Len(p) = Len(q) + 1
        /\ \A i \in 1..Len(q) : p[i] = q[i]
        /\ p[Len(q) + 1] = Main
      BY <2>1
  <2> HIDE DEF p
  <2>3. \A i \in 1..Len(p) : i = Len(q) + 1 \/ i \in 1..Len(q)
      BY <2>1, <2>2
  <2>4. \A i \in 1..Len(q) : p[i] \in Range(Pages) /\ p[i] # Main /\ p[i] # SetFile
      BY <2>1, <2>2, StoreAssumption
  <2>5. \A i, j \in 1..Len(q) : p[i] = p[j] => i = j
      BY <1>1, <2>1, <2>2 DEF IsInjective
  <2>6. ASSUME NEW i \in 1..Len(p)
        PROVE  /\ p[i] \in Files /\ p[i] # SetFile
               /\ p[i] = Main => i = Len(p)
               /\ \A j \in 1..Len(p) : p[i] = p[j] => i = j
    <3>1. CASE i = Len(q) + 1
        BY <2>2, <2>3, <2>4, <3>1, StoreAssumption DEF Files
    <3>2. CASE i \in 1..Len(q)
        BY <2>2, <2>3, <2>4, <2>5, <3>2 DEF Files
    <3>3. QED
        BY <2>3, <3>1, <3>2
  <2>7. Len(p) \in Nat \ {0} /\ o # "set"
      BY <2>1, <2>2
  <2>8. QED
      BY <2>6, <2>7 DEF p
<1>2. ASSUME NEW f \in {Main, SetFile}, NEW o \in Ops \ {"save", "assets"},
             f = SetFile <=> o = "set"
      PROVE  Goal(<<f>>, o)
  <2>1. Len(<<f>>) = 1 /\ <<f>>[1] = f /\ 1..1 = {1}
      OBVIOUS
  <2>2. QED
      BY <1>2, <2>1 DEF Files
<1> HIDE DEF Goal
<1>3. CASE op = "save"
  <2>1. Pages \in Seq(Range(Pages))
      BY StoreAssumption, SeqDef DEF Range
  <2>2. Plan(op) = Append(Pages, Main)
      BY <1>3 DEF Plan
  <2>3. Goal(Plan(op), op)
      BY <1>1, <1>3, <2>1, <2>2, StoreAssumption
  <2>4. QED
      BY <2>3 DEF Goal
<1>4. CASE op = "assets"
  <2>1. Plan(op) = Append(AssetPages, Main)
      BY <1>4 DEF Plan
  <2>2. Goal(Plan(op), op)
      BY <1>1, <1>4, <2>1, StoreAssumption
  <2>3. QED
      BY <2>2 DEF Goal
<1>5. CASE op \notin {"save", "assets"}
  <2>1. Plan(op) = IF op = "set" THEN <<SetFile>> ELSE <<Main>>
      BY <1>5 DEF Plan
  <2>2. Goal(Plan(op), op)
      BY <1>2, <1>5, <2>1, StoreAssumption
  <2>3. QED
      BY <2>2 DEF Goal
<1>6. QED
    BY <1>3, <1>4, <1>5

\* What a request may leave in one of its files is a text of that file.
LEMMA MayLeaveContents ==
    ASSUME NEW j, j.op \in Ops, j.text \in TextsOf(j.op),
           NEW i \in 1..Len(Plan(j.op)), NEW text, MayLeave(j, Plan(j.op)[i], text)
    PROVE  text \in Contents(Plan(j.op)[i]) /\ text \in AnyText
<1> DEFINE f == Plan(j.op)[i]
<1>1. f \notin {Main, SetFile} => j.op \in {"save", "assets"}
    BY PlanFiles
<1>2. f \notin {Main, SetFile} => text = j.text /\ j.text \in Texts
    BY <1>1 DEF MayLeave, TextsOf
<1> HIDE DEF f
<1>3. CASE f = SetFile
    BY <1>3, StoreAssumption DEF MayLeave, Contents, AnyText, f
<1>4. CASE f = Main
  <2>1. text \in {Plain, Managed, TornManaged}
      BY <1>4, StoreAssumption DEF MayLeave, f
  <2>2. QED
      BY <1>4, <2>1, StoreAssumption DEF Contents, AnyText, f
<1>5. CASE f \notin {Main, SetFile}
    BY <1>2, <1>5 DEF Contents, AnyText, f
<1>6. QED
    BY <1>3, <1>4, <1>5

\* What a busy request makes of its file is what it may leave there, and it is
\* a whole text when it was made of one.
LEMMA NewTextLeft ==
    ASSUME StoreTypeOK, NEW s \in Savers, Busy(s)
    PROVE  /\ At(s) \in Files
           /\ MayLeave(job[s], At(s), NewText(s, At(s)))
           /\ Whole(cur[At(s)]) => Whole(NewText(s, At(s)))
<1> DEFINE f == At(s)
           t == NewText(s, f)
<1>1. /\ job[s].op \in Ops /\ job[s].text \in TextsOf(job[s].op)
      /\ job[s].at \in 1..Len(Plan(job[s].op))
    BY DEF StoreTypeOK, JobOK, Job, Busy
<1>2. /\ f \in Files /\ (f = SetFile <=> job[s].op = "set")
      /\ f \notin {Main, SetFile} => job[s].op \in {"save", "assets"}
    BY <1>1, PlanFiles DEF At
<1>3. cur[f] \in Contents(f)
    BY <1>2 DEF StoreTypeOK
<1>4. Main # SetFile
    BY StoreAssumption
<1> HIDE DEF f
<1>5. CASE f = SetFile
  <2>1. ReadItems(cur[f]) \in Seq(Items)
      BY <1>3, <1>4, <1>5 DEF Contents, ReadItems
  <2>2. job[s].text \in [remove : SUBSET Items, add : Items]
      BY <1>1, <1>2, <1>5 DEF TextsOf
  <2>3. t = Edited(ReadItems(cur[f]), job[s].text)
      BY <1>4, <1>5 DEF NewText
  <2>4. t \in Seq(Items) /\ job[s].text.add \in Range(t)
      BY <2>1, <2>2, <2>3, EditedItems
  <2> HIDE DEF t
  <2>5. MayLeave(job[s], f, t)
      BY <1>4, <1>5, <2>4 DEF MayLeave
  <2>6. Whole(t)
      BY <2>4, StoreAssumption DEF Whole
  <2>7. QED
      BY <1>2, <2>5, <2>6 DEF t, f
<1>6. CASE f = Main
  <2>1. t = IF job[s].op = "restore" THEN Plain ELSE EnsureManagedBlock(cur[f])
      BY <1>4, <1>6 DEF NewText
  <2>2. cur[f] \in {Absent, Torn, Plain, Managed, TornManaged}
      BY <1>3, <1>4, <1>6 DEF Contents
  <2>3. EnsureManagedBlock(cur[f]) \in {Managed, TornManaged}
      BY <2>2, StoreAssumption DEF EnsureManagedBlock
  <2>4. Whole(cur[f]) => EnsureManagedBlock(cur[f]) = Managed
      BY <2>2, StoreAssumption DEF EnsureManagedBlock, Whole
  <2>5. Whole(Plain) /\ Whole(Managed)
      BY StoreAssumption DEF Whole
  <2> HIDE DEF t
  <2>6. MayLeave(job[s], f, t)
      BY <1>4, <1>6, <2>1, <2>3 DEF MayLeave
  <2>7. QED
      BY <1>2, <2>1, <2>4, <2>5, <2>6 DEF t, f
<1>7. CASE f \notin {Main, SetFile}
  <2>1. t = job[s].text /\ job[s].text \in Texts
      BY <1>1, <1>2, <1>7 DEF NewText, TextsOf
  <2>2. Whole(job[s].text)
      BY <2>1, StoreAssumption DEF Whole
  <2> HIDE DEF t
  <2>3. MayLeave(job[s], f, t)
      BY <1>7, <2>1 DEF MayLeave
  <2>4. QED
      BY <1>2, <2>1, <2>2, <2>3 DEF t, f
<1>8. QED
    BY <1>5, <1>6, <1>7

-----------------------------------------------------------------------------
(* Type correctness                                                        *)

\* A request that is over, with its answer.
LEMMA IdleOK ==
    ASSUME NEW reply \in {"none", "ok", "error"}, NEW alone \in BOOLEAN
    PROVE  /\ JobOK(Idle(reply)) /\ JobOK([Idle(reply) EXCEPT !.alone = alone])
           /\ Idle(reply).op = "idle"
           /\ [Idle(reply) EXCEPT !.alone = alone].op = "idle"
           /\ [Idle(reply) EXCEPT !.alone = alone].reply = reply
           /\ [Idle(reply) EXCEPT !.alone = alone].alone = alone
<1>1. None \in UNION {TextsOf(op) : op \in Ops}
  <2>1. "apply" \in Ops /\ None \in TextsOf("apply")
      BY DEF Ops, TextsOf
  <2>2. QED
      BY <2>1
<1>2. Idle(reply) \in Job
    BY <1>1 DEF Idle, Job, Steps, AnyText
<1>3. [Idle(reply) EXCEPT !.alone = alone] \in Job
    BY <1>2 DEF Job
<1>4. QED
    BY <1>2, <1>3 DEF Idle, JobOK

\* After its file a request is over or at its next file.
LEMMA AdvancedOK ==
    ASSUME StoreTypeOK, NEW s \in Savers, Busy(s)
    PROVE  /\ JobOK(Advanced(s))
           /\ Advanced(s).step = "next"
           /\ Advanced(s).alone = job[s].alone
           /\ \/ /\ job[s].at = Len(Plan(job[s].op))
                 /\ Advanced(s).op = "idle" /\ Advanced(s).reply = "ok"
              \/ /\ job[s].at # Len(Plan(job[s].op)) /\ Advanced(s).op = job[s].op
                 /\ Advanced(s).text = job[s].text /\ Advanced(s).at = job[s].at + 1
<1>1. /\ job[s] \in Job /\ JobOK(job[s]) /\ job[s].op \in Ops
      /\ job[s].text \in TextsOf(job[s].op)
      /\ job[s].at \in 1..Len(Plan(job[s].op))
    BY DEF StoreTypeOK, JobOK, Job, Busy
<1>2. Len(Plan(job[s].op)) \in Nat
    BY <1>1, PlanFiles
<1>3. CASE job[s].at = Len(Plan(job[s].op))
  <2>1. Advanced(s) = [Idle("ok") EXCEPT !.alone = job[s].alone]
      BY <1>3 DEF Advanced
  <2>2. job[s].alone \in BOOLEAN
      BY <1>1 DEF Job
  <2>3. [Idle("ok") EXCEPT !.alone = job[s].alone].step = "next"
      BY DEF Idle
  <2>4. QED
      BY <1>3, <2>1, <2>2, <2>3, IdleOK
<1>4. CASE job[s].at # Len(Plan(job[s].op))
  <2>1. Advanced(s) = [job[s] EXCEPT !.at = @ + 1, !.step = "next", !.buf = None, !.fd = "none"]
      BY <1>4 DEF Advanced
  <2>2. job[s].at + 1 \in 1..Len(Plan(job[s].op)) /\ job[s].at + 1 \in Nat
      BY <1>1, <1>2, <1>4
  <2>3. Advanced(s) \in Job
      BY <1>1, <2>1, <2>2 DEF Job, Steps, AnyText
  <2>4. /\ Advanced(s).op = job[s].op /\ Advanced(s).text = job[s].text
        /\ Advanced(s).at = job[s].at + 1 /\ Advanced(s).step = "next"
        /\ Advanced(s).alone = job[s].alone
      BY <1>1, <2>1 DEF Job
  <2>5. JobOK(Advanced(s))
      BY <1>1, <2>2, <2>3, <2>4 DEF JobOK
  <2>6. QED
      BY <1>4, <2>4, <2>5
<1>5. QED
    BY <1>3, <1>4

JobsOK == job' \in [Savers -> Job] /\ \A o \in Savers : JobOK(job'[o])

\* The places of the open files after a step.
Places == [Savers -> {"none", "tmp", "cur", "gone"}]

\* A step that changes one job keeps the jobs well typed.
LEMMA JobsTyped ==
    ASSUME StoreTypeOK, NEW s \in Savers, NEW j, JobOK(j), job' = [job EXCEPT ![s] = j]
    PROVE  JobsOK
<1>1. j \in Job /\ job \in [Savers -> Job] /\ \A o \in Savers : JobOK(job[o])
    BY DEF StoreTypeOK, JobOK
<1>2. job' \in [Savers -> Job] /\ \A o \in Savers : job'[o] = IF o = s THEN j ELSE job[o]
    BY <1>1
<1>3. QED
    BY <1>1, <1>2 DEF JobsOK

\* And so does one that moves in addition what the others have open.
LEMMA JobsMoved ==
    ASSUME StoreTypeOK, NEW s \in Savers, NEW j, JobOK(j), NEW fd \in Places,
           job' = [o \in Savers |-> IF o = s THEN j ELSE [job[o] EXCEPT !.fd = fd[o]]]
    PROVE  JobsOK
<1>1. \A o \in Savers : job[o] \in Job /\ JobOK(job[o])
    BY DEF StoreTypeOK, JobOK
<1>2. ASSUME NEW o \in Savers PROVE JobOK(job'[o])
  <2>1. CASE o = s
      BY <2>1
  <2>2. CASE o # s
    <3> DEFINE k == [job[o] EXCEPT !.fd = fd[o]]
    <3>1. job'[o] = k
        BY <2>2
    <3>2. k \in Job
        BY <1>1 DEF Job, Places
    <3>3. /\ k.op = job[o].op /\ k.text = job[o].text /\ k.at = job[o].at
          /\ k.step = job[o].step /\ k.buf = job[o].buf
        BY <1>1 DEF Job
    <3> HIDE DEF k
    <3>4. JobOK(k)
        BY <1>1, <3>2, <3>3 DEF JobOK, MayLeave
    <3>5. QED
        BY <3>1, <3>4
  <2>3. QED
      BY <2>1, <2>2
<1>3. \A o \in Savers : job'[o] \in Job
    BY <1>2 DEF JobOK
<1>4. QED
    BY <1>2, <1>3 DEF JobsOK

\* What the request o does is the same after a step, but for the place of the
\* file it has open.
SameJob(o) ==
    /\ job'[o].op = job[o].op /\ job'[o].text = job[o].text /\ job'[o].at = job[o].at
    /\ job'[o].step = job[o].step /\ job'[o].buf = job[o].buf
    /\ job'[o].alone = job[o].alone

\* The request s went on with its file, and no other did anything.
Stepped(s, step, fd, buf) ==
    /\ job'[s].op = job[s].op /\ job'[s].text = job[s].text /\ job'[s].at = job[s].at
    /\ job'[s].alone = job[s].alone
    /\ job'[s].step = step /\ job'[s].fd = fd /\ job'[s].buf = buf
    /\ \A o \in Savers \ {s} : job'[o] = job[o]

\* A request that goes on with its file keeps the jobs well typed.
LEMMA SteppedJob ==
    ASSUME StoreTypeOK, NEW s \in Savers, Busy(s),
           NEW step \in Steps \ {"next"}, NEW fd \in {"none", "tmp", "cur", "gone"}, NEW buf,
           MayLeave(job[s], At(s), buf),
           job' = [job EXCEPT ![s] = [job[s] EXCEPT !.step = step, !.fd = fd, !.buf = buf]]
    PROVE  JobsOK /\ Stepped(s, step, fd, buf)
<1> DEFINE j == job[s]
           k == [job[s] EXCEPT !.step = step, !.fd = fd, !.buf = buf]
<1>1. /\ j \in Job /\ j.op # "idle" /\ j.op \in Ops /\ j.text \in TextsOf(j.op)
      /\ j.at \in 1..Len(Plan(j.op)) /\ job \in [Savers -> Job]
    BY DEF StoreTypeOK, JobOK, Job, Busy
<1>2. buf \in AnyText
    BY <1>1, MayLeaveContents DEF At
<1>3. k \in Job
    BY <1>1, <1>2 DEF Job
<1>4. /\ k.op = j.op /\ k.text = j.text /\ k.at = j.at
      /\ k.step = step /\ k.fd = fd /\ k.buf = buf /\ k.alone = j.alone
    BY <1>1 DEF Job
<1>5. job' = [job EXCEPT ![s] = k]
    OBVIOUS
<1> HIDE DEF k
<1>6. MayLeave(k, Plan(k.op)[k.at], k.buf)
    BY <1>4 DEF MayLeave, At
<1>7. JobOK(k)
    BY <1>1, <1>3, <1>4, <1>6 DEF JobOK
<1>8. JobsOK
    BY <1>5, <1>7, JobsTyped
<1>9. job'[s] = k /\ \A o \in Savers \ {s} : job'[o] = job[o]
    BY <1>1, <1>5
<1>10. QED
    BY <1>4, <1>8, <1>9 DEF Stepped

\* The request s is done with its file or failed: its job becomes j; what the
\* others have open may have moved to fd.
Ended(s, j, fd) ==
    /\ job'[s] = j
    /\ \A o \in Savers \ {s} : SameJob(o) /\ job'[o].fd = fd[o]

\* A request that ends its work on a file keeps the jobs well typed.
LEMMA EndedJob ==
    ASSUME StoreTypeOK, NEW s \in Savers, NEW j, JobOK(j), NEW fd \in Places,
           job' = [o \in Savers |-> IF o = s THEN j ELSE [job[o] EXCEPT !.fd = fd[o]]]
    PROVE  JobsOK /\ Ended(s, j, fd)
<1>1. JobsOK
    BY JobsMoved
<1>2. job'[s] = j
    OBVIOUS
<1>3. ASSUME NEW o \in Savers \ {s} PROVE SameJob(o) /\ job'[o].fd = fd[o]
  <2>1. job'[o] = [job[o] EXCEPT !.fd = fd[o]] /\ job[o] \in Job
      BY DEF StoreTypeOK
  <2>2. QED
      BY <2>1 DEF SameJob, Job
<1>4. QED
    BY <1>1, <1>2, <1>3 DEF Ended

\* Nothing that is open moves.
StillOpen == [o \in Savers |-> job[o].fd]

\* The same when no file is moved.
LEMMA EndedAlone ==
    ASSUME StoreTypeOK, NEW s \in Savers, NEW j, JobOK(j), job' = [job EXCEPT ![s] = j]
    PROVE  JobsOK /\ Ended(s, j, StillOpen)
<1>1. job \in [Savers -> Job]
    BY DEF StoreTypeOK
<1>2. JobsOK
    BY JobsTyped
<1>3. job'[s] = j /\ \A o \in Savers \ {s} : job'[o] = job[o]
    BY <1>1
<1>4. Ended(s, j, StillOpen)
    BY <1>3 DEF Ended, SameJob, StillOpen
<1>5. QED
    BY <1>2, <1>4

\* A request that has read its file has a text for it in hand.
LEMMA InHand ==
    ASSUME StoreTypeOK, NEW s \in Savers, Busy(s)
    PROVE  /\ At(s) \in Files
           /\ job[s].step # "next" => MayLeave(job[s], At(s), job[s].buf)
           /\ job[s] \in Job
BY NewTextLeft DEF StoreTypeOK, JobOK, Busy, At

\* A step that changes nothing but the step field of one job, and one that
\* changes where its file is open as well.
LEMMA StepShape ==
    ASSUME StoreTypeOK, NEW s \in Savers, Busy(s), job[s].step # "next",
           NEW step \in Steps \ {"next"}, NEW fd \in {"none", "tmp", "cur", "gone"},
           \/ job' = [job EXCEPT ![s].step = step] /\ fd = job[s].fd
           \/ job' = [job EXCEPT ![s] = [@ EXCEPT !.step = step, !.fd = fd]]
    PROVE  JobsOK /\ Stepped(s, step, fd, job[s].buf)
<1> DEFINE k == [job[s] EXCEPT !.step = step, !.fd = fd, !.buf = job[s].buf]
<1>1. job[s] \in Job /\ job \in [Savers -> Job] /\ MayLeave(job[s], At(s), job[s].buf)
    BY InHand DEF StoreTypeOK
<1>2. [job[s] EXCEPT !.step = step, !.fd = fd] = k
    BY <1>1 DEF Job
<1>3. fd = job[s].fd => [job[s] EXCEPT !.step = step] = k
    BY <1>1 DEF Job
<1>4. job' = [job EXCEPT ![s] = k]
    BY <1>2, <1>3
<1>5. QED
    BY <1>1, <1>4, SteppedJob

\* Where the others' open files are after f was renamed over, and after its
\* temporary file was removed.
MovedTo(f)   == [o \in Savers |->
                   IF ~Writing(o, f) THEN job[o].fd
                   ELSE CASE job[o].fd = "tmp" -> "cur" [] job[o].fd = "cur" -> "gone"
                          [] OTHER -> job[o].fd]

RemovedAt(f) == [o \in Savers |-> IF Writing(o, f) /\ job[o].fd = "tmp" THEN "gone"
                                  ELSE job[o].fd]

\* The answer to a request that failed.
Failed(s) == [Idle("error") EXCEPT !.alone = job[s].alone]

\* What each action makes of the jobs.
LEMMA Shapes ==
    ASSUME StoreTypeOK, NEW s \in Savers
    PROVE  /\ ReadFile(s) =>
                /\ JobsOK
                /\ \/ Unchanged(s, At(s)) /\ Ended(s, Advanced(s), StillOpen)
                   \/ Stepped(s, IF BacksUp(At(s)) THEN "backup" ELSE "open",
                              job[s].fd, NewText(s, At(s)))
           /\ BackupOpen(s)  => JobsOK /\ Stepped(s, "copy", job[s].fd, job[s].buf)
           /\ BackupCopy(s)  => JobsOK /\ Stepped(s, "open", job[s].fd, job[s].buf)
           /\ TmpOpen(s)     => JobsOK /\ Stepped(s, "write", "tmp", job[s].buf)
           /\ TmpWrite(s)    => JobsOK /\ Stepped(s, "rename", "none", job[s].buf)
           /\ RenameFails(s) => JobsOK /\ Stepped(s, "drop", job[s].fd, job[s].buf)
           /\ DirectOpen(s)  => JobsOK /\ Stepped(s, "direct", "cur", job[s].buf)
           /\ DirectWrite(s) => JobsOK /\ Stepped(s, "clean", "none", job[s].buf)
           /\ Rename(s)      => JobsOK /\ Ended(s, Advanced(s), MovedTo(At(s)))
           /\ RemoveTmp(s)   => JobsOK /\ Ended(s, IF job[s].step = "clean" THEN Advanced(s)
                                                   ELSE Failed(s), RemovedAt(At(s)))
           /\ Fail(s)        => JobsOK /\ Ended(s, Failed(s), StillOpen)
<1> USE DEF Steps
<1>t. job \in [Savers -> Job] /\ \A o \in Savers : job[o] \in Job
    BY DEF StoreTypeOK
<1>f. job[s].fd \in {"none", "tmp", "cur", "gone"} /\ job[s].alone \in BOOLEAN
    BY <1>t DEF Job
<1>i. JobOK(Failed(s))
    BY <1>f, IdleOK DEF Failed
<1>1. ASSUME ReadFile(s)
      PROVE  /\ JobsOK
             /\ \/ Unchanged(s, At(s)) /\ Ended(s, Advanced(s), StillOpen)
                \/ Stepped(s, IF BacksUp(At(s)) THEN "backup" ELSE "open",
                           job[s].fd, NewText(s, At(s)))
  <2>1. Busy(s)
      BY <1>1 DEF ReadFile
  <2>2. CASE Unchanged(s, At(s))
    <3>1. job' = [job EXCEPT ![s] = Advanced(s)]
        BY <1>1, <2>2 DEF ReadFile
    <3>2. QED
        BY <2>1, <2>2, <3>1, AdvancedOK, EndedAlone
  <2>3. CASE ~Unchanged(s, At(s))
    <3> DEFINE step == IF BacksUp(At(s)) THEN "backup" ELSE "open"
               buf == NewText(s, At(s))
    <3>1. job' = [job EXCEPT ![s] = [@ EXCEPT !.buf = buf, !.step = step]]
        BY <1>1, <2>3 DEF ReadFile
    <3>2. MayLeave(job[s], At(s), buf) /\ step \in Steps \ {"next"}
        BY <2>1, NewTextLeft
    <3> HIDE DEF step, buf
    <3>3. [job[s] EXCEPT !.buf = buf, !.step = step]
            = [job[s] EXCEPT !.step = step, !.fd = job[s].fd, !.buf = buf]
        BY <1>t DEF Job
    <3>4. job' = [job EXCEPT ![s] = [job[s] EXCEPT !.step = step, !.fd = job[s].fd, !.buf = buf]]
        BY <3>1, <3>3
    <3>5. JobsOK /\ Stepped(s, step, job[s].fd, buf)
        BY <1>f, <2>1, <3>2, <3>4, SteppedJob
    <3>6. QED
        BY <3>5 DEF step, buf
  <2>4. QED
      BY <2>2, <2>3
<1>2. BackupOpen(s)  => JobsOK /\ Stepped(s, "copy", job[s].fd, job[s].buf)
    BY <1>f, StepShape DEF BackupOpen
<1>3. BackupCopy(s)  => JobsOK /\ Stepped(s, "open", job[s].fd, job[s].buf)
    BY <1>f, StepShape DEF BackupCopy
<1>4. TmpOpen(s)     => JobsOK /\ Stepped(s, "write", "tmp", job[s].buf)
    BY StepShape DEF TmpOpen
<1>5. TmpWrite(s)    => JobsOK /\ Stepped(s, "rename", "none", job[s].buf)
    BY StepShape DEF TmpWrite
<1>6. RenameFails(s) => JobsOK /\ Stepped(s, "drop", job[s].fd, job[s].buf)
    BY <1>f, StepShape DEF RenameFails
<1>7. DirectOpen(s)  => JobsOK /\ Stepped(s, "direct", "cur", job[s].buf)
    BY StepShape DEF DirectOpen
<1>8. DirectWrite(s) => JobsOK /\ Stepped(s, "clean", "none", job[s].buf)
    BY StepShape DEF DirectWrite
<1>9. ASSUME Rename(s) PROVE JobsOK /\ Ended(s, Advanced(s), MovedTo(At(s)))
  <2> DEFINE fd == MovedTo(At(s))
  <2>1. Busy(s) /\ job' = [Moved(s, At(s)) EXCEPT ![s] = Advanced(s)]
      BY <1>9 DEF Rename
  <2>2. fd \in Places
      BY <1>t DEF Job, Places, MovedTo
  <2>3. ASSUME NEW o \in Savers \ {s} PROVE Moved(s, At(s))[o] = [job[o] EXCEPT !.fd = fd[o]]
    <3>1. CASE Writing(o, At(s))
      <4>1. Moved(s, At(s))[o] = [job[o] EXCEPT !.fd =
              CASE job[o].fd = "tmp" -> "cur" [] job[o].fd = "cur" -> "gone" [] OTHER -> job[o].fd]
          BY <3>1 DEF Moved
      <4>2. fd[o] = CASE job[o].fd = "tmp" -> "cur" [] job[o].fd = "cur" -> "gone"
                      [] OTHER -> job[o].fd
          BY <3>1 DEF MovedTo
      <4>3. QED
          BY <4>1, <4>2
    <3>2. CASE ~Writing(o, At(s))
      <4>1. Moved(s, At(s))[o] = job[o]
          BY <3>2 DEF Moved
      <4>2. fd[o] = job[o].fd
          BY <3>2 DEF MovedTo
      <4>3. QED
          BY <1>t, <4>1, <4>2 DEF Job
    <3>3. QED
        BY <3>1, <3>2
  <2>4. DOMAIN Moved(s, At(s)) = Savers
      BY DEF Moved
  <2>5. job' = [o \in Savers |-> IF o = s THEN Advanced(s) ELSE Moved(s, At(s))[o]]
      BY <2>1, <2>4 DEF Moved
  <2> HIDE DEF fd
  <2>6. job' = [o \in Savers |-> IF o = s THEN Advanced(s) ELSE [job[o] EXCEPT !.fd = fd[o]]]
      BY <2>3, <2>5
  <2>7. JobsOK /\ Ended(s, Advanced(s), fd)
      BY <2>1, <2>2, <2>6, AdvancedOK, EndedJob
  <2>8. QED
      BY <2>7 DEF fd
<1>10. ASSUME RemoveTmp(s)
       PROVE  JobsOK /\ Ended(s, IF job[s].step = "clean" THEN Advanced(s) ELSE Failed(s),
                              RemovedAt(At(s)))
  <2> DEFINE fd == RemovedAt(At(s))
             j == IF job[s].step = "clean" THEN Advanced(s) ELSE Failed(s)
  <2>1. Busy(s) /\ JobOK(j)
      BY <1>10, <1>i, AdvancedOK DEF RemoveTmp
  <2>2. fd \in Places
      BY <1>t DEF Job, Places, RemovedAt
  <2>3. job' = [o \in Savers |->
                  IF o = s THEN j
                  ELSE IF Writing(o, At(s)) /\ job[o].fd = "tmp"
                  THEN [job[o] EXCEPT !.fd = "gone"] ELSE job[o]]
      BY <1>10 DEF RemoveTmp, Failed
  <2>4. ASSUME NEW o \in Savers
        PROVE  (IF Writing(o, At(s)) /\ job[o].fd = "tmp"
                THEN [job[o] EXCEPT !.fd = "gone"] ELSE job[o]) = [job[o] EXCEPT !.fd = fd[o]]
    <3>1. CASE Writing(o, At(s)) /\ job[o].fd = "tmp"
        BY <3>1 DEF RemovedAt
    <3>2. CASE ~(Writing(o, At(s)) /\ job[o].fd = "tmp")
      <4>1. fd[o] = job[o].fd
          BY <3>2 DEF RemovedAt
      <4>2. QED
          BY <1>t, <3>2, <4>1 DEF Job
    <3>3. QED
        BY <3>1, <3>2
  <2> HIDE DEF fd, j
  <2>5. job' = [o \in Savers |-> IF o = s THEN j ELSE [job[o] EXCEPT !.fd = fd[o]]]
      BY <2>3, <2>4
  <2>6. JobsOK /\ Ended(s, j, fd)
      BY <2>1, <2>2, <2>5, EndedJob
  <2>7. QED
      BY <2>6 DEF fd, j
<1>11. Fail(s) => JobsOK /\ Ended(s, Failed(s), StillOpen)
    BY <1>i, EndedAlone DEF Fail, Failed
<1>12. QED
    BY <1>1, <1>2, <1>3, <1>4, <1>5, <1>6, <1>7, <1>8, <1>9, <1>10, <1>11

\* The files with their texts.
FilesOK(files) == files \in [Files -> AnyText] /\ \A f \in Files : files[f] \in Contents(f)

\* A file that gets one of its texts.
LEMMA PutOK ==
    ASSUME NEW files, FilesOK(files), NEW f \in Files, NEW text \in Contents(f)
    PROVE  FilesOK([files EXCEPT ![f] = text])
<1>1. text \in AnyText
    BY DEF Contents, AnyText
<1>2. QED
    BY <1>1 DEF FilesOK

\* No file and a torn file are texts of every file, and so is what a request
\* has in hand for its file, and what writing it over another leaves.
LEMMA ContentsOf ==
    ASSUME StoreTypeOK, NEW s \in Savers, Busy(s)
    PROVE  /\ {Absent, Torn} \subseteq Contents(At(s))
           /\ job[s].step # "next" =>
                /\ job[s].buf \in Contents(At(s))
                /\ \A old : Overwritten(old, job[s].buf) \subseteq Contents(At(s))
<1>1. {Absent, Torn} \subseteq Contents(At(s))
    BY DEF Contents
<1>2. job[s].step # "next" => job[s].buf \in Contents(At(s))
  <2>1. /\ job[s].op \in Ops /\ job[s].text \in TextsOf(job[s].op)
        /\ job[s].at \in 1..Len(Plan(job[s].op))
      BY DEF StoreTypeOK, JobOK, Job, Busy
  <2>2. QED
      BY <2>1, InHand, MayLeaveContents DEF At
<1>3. QED
    BY <1>1, <1>2 DEF Overwritten

\* Every action keeps the files, the requests and the history well typed.
LEMMA TypeStep == StoreTypeOK /\ [StoreNext]_storeVars => StoreTypeOK'
<1> SUFFICES ASSUME StoreTypeOK, [StoreNext]_storeVars PROVE StoreTypeOK'
    OBVIOUS
<1>t. /\ FilesOK(cur) /\ FilesOK(bak) /\ FilesOK(tmp)
      /\ job \in [Savers -> Job] /\ \A s \in Savers : JobOK(job[s])
      /\ denied \in BOOLEAN /\ raced \in [write : SUBSET Files, save : SUBSET Files]
    BY DEF StoreTypeOK, FilesOK
<1>q. ASSUME FilesOK(cur'), FilesOK(bak'), FilesOK(tmp'), JobsOK, UNCHANGED denied,
             raced' \in [write : SUBSET Files, save : SUBSET Files]
      PROVE  StoreTypeOK'
    BY <1>q, <1>t DEF StoreTypeOK, FilesOK, JobsOK
<1>r. ASSUME NEW f \in Files
      PROVE  /\ [raced EXCEPT !.write = @ \cup {f}] \in [write : SUBSET Files, save : SUBSET Files]
             /\ [raced EXCEPT !.save = @ \cup {f}] \in [write : SUBSET Files, save : SUBSET Files]
    BY <1>t
<1>1. ASSUME NEW s \in Savers, NEW op \in Ops,
             NEW text \in Texts \cup {None} \cup [remove : SUBSET Items, add : Items],
             Start(s, op, text)
      PROVE  StoreTypeOK'
  <2> DEFINE alone == \A o \in Savers : ~Busy(o)
             j == [Idle("none") EXCEPT !.op = op, !.text = text, !.alone = alone]
  <2>1. job' = [o \in Savers |-> IF o = s THEN j ELSE [job[o] EXCEPT !.alone = FALSE]]
      BY <1>1 DEF Start
  <2>2. text \in TextsOf(op)
      BY <1>1 DEF Start, TextsOf, Ops
  <2>3. Idle("none") \in Job
      BY IdleOK DEF JobOK
  <2>4. j \in Job /\ j.op = op /\ j.text = text /\ j.at = 1 /\ j.step = "next"
    <3>1. alone \in BOOLEAN /\ text \in UNION {TextsOf(o) : o \in Ops}
        BY <2>2
    <3>2. j \in Job
        BY <2>3, <3>1 DEF Job
    <3>3. QED
        BY <3>2 DEF Idle
  <2> HIDE DEF j
  <2>5. 1 \in 1..Len(Plan(op))
      BY PlanFiles
  <2>6. JobOK(j)
      BY <2>2, <2>4, <2>5 DEF JobOK
  <2>7. ASSUME NEW o \in Savers PROVE JobOK([job[o] EXCEPT !.alone = FALSE])
    <3> DEFINE k == [job[o] EXCEPT !.alone = FALSE]
    <3>1. k \in Job /\ JobOK(job[o])
        BY <1>t DEF Job
    <3>2. /\ k.op = job[o].op /\ k.text = job[o].text /\ k.at = job[o].at
          /\ k.step = job[o].step /\ k.buf = job[o].buf
        BY <1>t DEF Job
    <3> HIDE DEF k
    <3>3. JobOK(k)
        BY <3>1, <3>2 DEF JobOK, MayLeave
    <3>4. QED
        BY <3>3 DEF k
  <2>8. \A o \in Savers : JobOK(job'[o])
      BY <2>1, <2>6, <2>7
  <2>9. \A o \in Savers : job'[o] \in Job
      BY <2>8 DEF JobOK
  <2>10. JobsOK
      BY <2>1, <2>8, <2>9 DEF JobsOK
  <2>11. QED
      BY <1>1, <1>q, <1>t, <2>10 DEF Start
<1>2. ASSUME NEW s \in Savers, ReadFile(s) PROVE StoreTypeOK'
  <2>1. raced' \in [write : SUBSET Files, save : SUBSET Files]
    <3>1. raced' = raced \/ raced' = [raced EXCEPT !.save = @ \cup {At(s)}]
        BY <1>2 DEF ReadFile
    <3>2. At(s) \in Files
        BY <1>2, InHand DEF ReadFile
    <3>3. QED
        BY <1>r, <1>t, <3>1, <3>2
  <2>2. JobsOK
      BY <1>2, Shapes
  <2>3. QED
      BY <1>2, <1>q, <1>t, <2>1, <2>2 DEF ReadFile
<1>3. ASSUME NEW s \in Savers, BackupOpen(s) PROVE StoreTypeOK'
  <2>1. FilesOK(bak')
      BY <1>3, <1>t, InHand, ContentsOf, PutOK DEF BackupOpen
  <2>2. JobsOK
      BY <1>3, Shapes
  <2>3. QED
      BY <1>3, <1>q, <1>t, <2>1, <2>2 DEF BackupOpen
<1>4. ASSUME NEW s \in Savers, BackupCopy(s) PROVE StoreTypeOK'
  <2>1. At(s) \in Files /\ cur[At(s)] \in Contents(At(s))
      BY <1>4, <1>t, InHand DEF BackupCopy, FilesOK
  <2>2. FilesOK(bak')
      BY <1>4, <1>t, <2>1, PutOK DEF BackupCopy
  <2>3. JobsOK
      BY <1>4, Shapes
  <2>4. QED
      BY <1>4, <1>q, <1>t, <2>2, <2>3 DEF BackupCopy
<1>5. ASSUME NEW s \in Savers, TmpOpen(s) PROVE StoreTypeOK'
  <2>1. At(s) \in Files
      BY <1>5, InHand DEF TmpOpen
  <2>2. FilesOK(tmp')
      BY <1>5, <1>t, <2>1, ContentsOf, PutOK DEF TmpOpen
  <2>3. raced' = raced \/ raced' = [raced EXCEPT !.write = @ \cup {At(s)}]
      BY <1>5 DEF TmpOpen
  <2>4. raced' \in [write : SUBSET Files, save : SUBSET Files]
      BY <1>r, <1>t, <2>1, <2>3
  <2>5. JobsOK
      BY <1>5, Shapes
  <2>6. QED
      BY <1>5, <1>q, <1>t, <2>2, <2>4, <2>5 DEF TmpOpen
<1>6. ASSUME NEW s \in Savers, TmpWrite(s) PROVE StoreTypeOK'
  <2>1. At(s) \in Files
      BY <1>6, InHand DEF TmpWrite
  <2>2. \A old : Overwritten(old, job[s].buf) \subseteq Contents(At(s))
      BY <1>6, ContentsOf DEF TmpWrite
  <2>3. tmp' = tmp \/ \E t \in Contents(At(s)) : tmp' = [tmp EXCEPT ![At(s)] = t]
      BY <1>6, <2>2 DEF TmpWrite
  <2>4. cur' = cur \/ \E t \in Contents(At(s)) : cur' = [cur EXCEPT ![At(s)] = t]
      BY <1>6, <2>2 DEF TmpWrite
  <2>5. FilesOK(tmp') /\ FilesOK(cur')
      BY <1>t, <2>1, <2>3, <2>4, PutOK
  <2>6. JobsOK
      BY <1>6, Shapes
  <2>7. QED
      BY <1>6, <1>q, <1>t, <2>5, <2>6 DEF TmpWrite
<1>7. ASSUME NEW s \in Savers, Rename(s) PROVE StoreTypeOK'
  <2>1. At(s) \in Files /\ tmp[At(s)] \in Contents(At(s))
      BY <1>7, <1>t, InHand DEF Rename, FilesOK
  <2>2. FilesOK(cur')
      BY <1>7, <1>t, <2>1, PutOK DEF Rename
  <2>3. FilesOK(tmp')
      BY <1>7, <1>t, <2>1, ContentsOf, PutOK DEF Rename
  <2>4. JobsOK
      BY <1>7, Shapes
  <2>5. QED
      BY <1>7, <1>q, <1>t, <2>2, <2>3, <2>4 DEF Rename
<1>8. ASSUME NEW s \in Savers, RenameFails(s) PROVE StoreTypeOK'
  <2>1. JobsOK
      BY <1>8, Shapes
  <2>2. QED
      BY <1>8, <1>q, <1>t, <2>1 DEF RenameFails
<1>9. ASSUME NEW s \in Savers, DirectOpen(s) PROVE StoreTypeOK'
  <2>1. FilesOK(cur')
      BY <1>9, <1>t, InHand, ContentsOf, PutOK DEF DirectOpen
  <2>2. JobsOK
      BY <1>9, Shapes
  <2>3. QED
      BY <1>9, <1>q, <1>t, <2>1, <2>2 DEF DirectOpen
<1>10. ASSUME NEW s \in Savers, DirectWrite(s) PROVE StoreTypeOK'
  <2>1. At(s) \in Files
      BY <1>10, InHand DEF DirectWrite
  <2>2. \A old : Overwritten(old, job[s].buf) \subseteq Contents(At(s))
      BY <1>10, ContentsOf DEF DirectWrite
  <2>3. \E t \in Contents(At(s)) : cur' = [cur EXCEPT ![At(s)] = t]
      BY <1>10, <2>2 DEF DirectWrite
  <2>4. FilesOK(cur')
    <3>1. PICK t \in Contents(At(s)) : cur' = [cur EXCEPT ![At(s)] = t]
        BY <2>3
    <3>2. QED
        BY <1>t, <2>1, <3>1, PutOK
  <2>5. JobsOK
      BY <1>10, Shapes
  <2>6. QED
      BY <1>10, <1>q, <1>t, <2>4, <2>5 DEF DirectWrite
<1>11. ASSUME NEW s \in Savers, RemoveTmp(s) PROVE StoreTypeOK'
  <2>1. FilesOK(tmp')
      BY <1>11, <1>t, InHand, ContentsOf, PutOK DEF RemoveTmp
  <2>2. JobsOK
      BY <1>11, Shapes
  <2>3. QED
      BY <1>11, <1>q, <1>t, <2>1, <2>2 DEF RemoveTmp
<1>12. ASSUME NEW s \in Savers, Fail(s) PROVE StoreTypeOK'
  <2>1. JobsOK
      BY <1>12, Shapes
  <2>2. QED
      BY <1>12, <1>q, <1>t, <2>1 DEF Fail
<1>13. CASE Restart
  <2>1. JobOK(Idle("none")) /\ Idle("none") \in Job
      BY IdleOK DEF JobOK
  <2>2. job' = [s \in Savers |-> Idle("none")]
      BY <1>13 DEF Restart
  <2>3. JobsOK
      BY <2>1, <2>2 DEF JobsOK
  <2>4. QED
      BY <1>13, <1>q, <1>t, <2>3 DEF Restart
<1>14. CASE UNCHANGED storeVars
    BY <1>14 DEF storeVars, StoreTypeOK
<1>15. QED
    BY <1>1, <1>2, <1>3, <1>4, <1>5, <1>6, <1>7, <1>8, <1>9, <1>10, <1>11, <1>12,
       <1>13, <1>14 DEF StoreNext

\* The files and the requests are well typed in every reachable state.
THEOREM StoreTypes == StoreSpec => []StoreTypeOK
<1>1. StoreInit => StoreTypeOK
  <2> SUFFICES ASSUME StoreInit PROVE StoreTypeOK
      OBVIOUS
  <2>1. JobOK(Idle("none")) /\ Idle("none") \in Job
      BY IdleOK DEF JobOK
  <2>2. job \in [Savers -> Job] /\ \A s \in Savers : JobOK(job[s])
      BY <2>1 DEF StoreInit
  <2>3. FilesOK(bak) /\ FilesOK(tmp)
      BY DEF StoreInit, FilesOK, Contents, AnyText
  <2>4. <<>> \in Seq(Items) /\ \A f \in Files : f \in Range(Pages) \cup {Main, SetFile}
      BY DEF Files
  <2>5. cur \in [Files -> {Absent, Plain, <<>>}] /\ cur[Main] = Plain /\ cur[SetFile] = <<>>
        /\ \A p \in Range(Pages) : cur[p] = Absent
      BY DEF StoreInit
  <2>6. \A f \in Files : cur[f] \in Contents(f)
      BY <2>4, <2>5, StoreAssumption DEF Contents
  <2>7. FilesOK(cur)
      BY <2>4, <2>5, <2>6 DEF FilesOK, AnyText
  <2>8. QED
      BY <2>2, <2>3, <2>7 DEF StoreInit, StoreTypeOK, FilesOK
<1>2. QED
    BY <1>1, TypeStep, PTL DEF StoreSpec

-----------------------------------------------------------------------------
(* What a step leaves alone                                                *)

\* If o is at work on g after a step, so was it before, at the same place and
\* with the same text in hand.
Continues(o, g) ==
    Saving(o, g)' => /\ Saving(o, g)
                     /\ job'[o].op = job[o].op /\ job'[o].text = job[o].text
                     /\ job'[o].step = job[o].step /\ job'[o].buf = job[o].buf
                     /\ job'[o].alone => job[o].alone

\* And it has the same file open.
Untouched(o, g) == Continues(o, g) /\ (Saving(o, g)' => job'[o].fd = job[o].fd)

\* Nothing happens to g or to the work on it.
Still(g) ==
    /\ \A o \in Savers : Untouched(o, g)
    /\ cur'[g] = cur[g] /\ bak'[g] = bak[g] /\ tmp'[g] = tmp[g]
    /\ raced.write \subseteq raced'.write /\ raced.save \subseteq raced'.save
    /\ UNCHANGED denied

\* A step of s on its file is not one on another file.
LEMMA SteppedElsewhere ==
    ASSUME NEW s \in Savers, NEW step, NEW fd, NEW buf, Stepped(s, step, fd, buf)
    PROVE  \A o \in Savers, g \in Files : o # s \/ g # At(s) => Untouched(o, g)
<1>1. ASSUME NEW o \in Savers \ {s}, NEW g \in Files PROVE Untouched(o, g)
    BY DEF Stepped, Untouched, Continues, Saving, Busy, At
<1>2. ASSUME NEW g \in Files, g # At(s) PROVE ~Saving(s, g)'
    BY <1>2 DEF Stepped, Saving, Busy, At
<1>3. QED
    BY <1>1, <1>2 DEF Untouched, Continues

\* A request that is done with its file is not at work on any, and the others
\* go on with theirs.
LEMMA EndedElsewhere ==
    ASSUME NEW s \in Savers, NEW j, j.step = "next", NEW fd, Ended(s, j, fd)
    PROVE  \A g \in Files :
             /\ ~Saving(s, g)'
             /\ \A o \in Savers : Continues(o, g)
             /\ \A o \in Savers : fd[o] = job[o].fd => Untouched(o, g)
<1>1. ASSUME NEW g \in Files PROVE ~Saving(s, g)'
    BY DEF Ended, Saving
<1>2. ASSUME NEW g \in Files, NEW o \in Savers \ {s}
      PROVE  Continues(o, g) /\ (fd[o] = job[o].fd => Untouched(o, g))
    BY DEF Ended, SameJob, Untouched, Continues, Saving, Busy, At
<1>3. QED
    BY <1>1, <1>2 DEF Untouched, Continues

\* The steps of a request on its file.
AtWork(s) ==
    \/ ReadFile(s) /\ ~Unchanged(s, At(s))
    \/ BackupOpen(s) \/ BackupCopy(s) \/ TmpOpen(s) \/ TmpWrite(s)
    \/ Rename(s) \/ RenameFails(s) \/ DirectOpen(s) \/ DirectWrite(s) \/ RemoveTmp(s)

\* What raced stays raced, and whether renaming is denied does not change.
LEMMA RacedGrows ==
    ASSUME StoreTypeOK, NEW s \in Savers, AtWork(s) \/ ReadFile(s)
    PROVE  /\ raced.write \subseteq raced'.write /\ raced.save \subseteq raced'.save
           /\ UNCHANGED denied
<1>1. raced \in [write : SUBSET Files, save : SUBSET Files]
    BY DEF StoreTypeOK
<1>2. \A f : /\ [raced EXCEPT !.write = @ \cup {f}].write = raced.write \cup {f}
             /\ [raced EXCEPT !.write = @ \cup {f}].save = raced.save
             /\ [raced EXCEPT !.save = @ \cup {f}].save = raced.save \cup {f}
             /\ [raced EXCEPT !.save = @ \cup {f}].write = raced.write
    BY <1>1
<1>3. QED
    BY <1>2 DEF AtWork, ReadFile, BackupOpen, BackupCopy, TmpOpen, TmpWrite, Rename,
       RenameFails, DirectOpen, DirectWrite, RemoveTmp

\* A request at work changes nothing but its file.
LEMMA OtherFiles ==
    ASSUME StoreTypeOK, NEW s \in Savers, AtWork(s), NEW g \in Files, g # At(s)
    PROVE  Still(g)
<1>1. Busy(s)
    BY DEF AtWork, ReadFile, BackupOpen, BackupCopy, TmpOpen, TmpWrite, Rename,
       RenameFails, DirectOpen, DirectWrite, RemoveTmp
<1>2. cur'[g] = cur[g] /\ bak'[g] = bak[g] /\ tmp'[g] = tmp[g]
  <2>1. \A t : /\ [cur EXCEPT ![At(s)] = t][g] = cur[g] /\ [bak EXCEPT ![At(s)] = t][g] = bak[g]
              /\ [tmp EXCEPT ![At(s)] = t][g] = tmp[g]
      BY DEF StoreTypeOK
  <2>2. TmpWrite(s) => cur'[g] = cur[g] /\ bak'[g] = bak[g] /\ tmp'[g] = tmp[g]
      BY <2>1 DEF TmpWrite
  <2>3. DirectWrite(s) => cur'[g] = cur[g] /\ bak'[g] = bak[g] /\ tmp'[g] = tmp[g]
      BY <2>1 DEF DirectWrite
  <2>4. Rename(s) \/ RemoveTmp(s) \/ DirectOpen(s)
          => cur'[g] = cur[g] /\ bak'[g] = bak[g] /\ tmp'[g] = tmp[g]
      BY <2>1 DEF Rename, RemoveTmp, DirectOpen
  <2>5. BackupOpen(s) \/ BackupCopy(s) \/ TmpOpen(s)
          => cur'[g] = cur[g] /\ bak'[g] = bak[g] /\ tmp'[g] = tmp[g]
      BY <2>1 DEF BackupOpen, BackupCopy, TmpOpen
  <2>6. ReadFile(s) \/ RenameFails(s) => cur'[g] = cur[g] /\ bak'[g] = bak[g] /\ tmp'[g] = tmp[g]
      BY DEF ReadFile, RenameFails
  <2>7. QED
      BY <2>2, <2>3, <2>4, <2>5, <2>6 DEF AtWork
<1>3. \A o \in Savers : MovedTo(At(s))[o] = job[o].fd \/ At(o) = At(s)
    BY DEF MovedTo, Writing, Saving
<1>4. \A o \in Savers : RemovedAt(At(s))[o] = job[o].fd \/ At(o) = At(s)
    BY DEF RemovedAt, Writing, Saving
<1>5. \A o \in Savers : At(o) = At(s) /\ Continues(o, g) => Untouched(o, g)
    BY DEF Untouched, Continues, Saving
<1>6. Advanced(s).step = "next" /\ Failed(s).step = "next"
    BY <1>1, AdvancedOK DEF Failed, Idle
<1>7. ASSUME NEW o \in Savers PROVE Untouched(o, g)
  <2>1. CASE \E step, fd, buf : Stepped(s, step, fd, buf)
      BY <2>1, SteppedElsewhere
  <2>2. CASE Rename(s)
    <3>1. Ended(s, Advanced(s), MovedTo(At(s)))
        BY <2>2, Shapes
    <3>2. Continues(o, g) /\ (MovedTo(At(s))[o] = job[o].fd => Untouched(o, g))
        BY <1>6, <3>1, EndedElsewhere
    <3>3. QED
        BY <1>3, <1>5, <3>2
  <2>3. CASE RemoveTmp(s)
    <3> DEFINE j == IF job[s].step = "clean" THEN Advanced(s) ELSE Failed(s)
    <3>1. Ended(s, j, RemovedAt(At(s))) /\ j.step = "next"
        BY <1>6, <2>3, Shapes
    <3> HIDE DEF j
    <3>2. Continues(o, g) /\ (RemovedAt(At(s))[o] = job[o].fd => Untouched(o, g))
        BY <3>1, EndedElsewhere
    <3>3. QED
        BY <1>4, <1>5, <3>2
  <2>4. ASSUME ReadFile(s), ~Unchanged(s, At(s)) PROVE \E step, fd, buf : Stepped(s, step, fd, buf)
    <3>1. Stepped(s, IF BacksUp(At(s)) THEN "backup" ELSE "open", job[s].fd, NewText(s, At(s)))
        BY <2>4, Shapes
    <3>2. QED
        BY <3>1
  <2>5. QED
      BY <2>1, <2>2, <2>3, <2>4, Shapes DEF AtWork
<1>8. QED
    BY <1>2, <1>7, RacedGrows DEF Still

\* A step is one of a request on its file, or changes no file and no work on
\* one: a request begins, ends without a change or fails, or all of them end.
LEMMA StepKinds ==
    ASSUME StoreTypeOK, [StoreNext]_storeVars
    PROVE  (\E s \in Savers : AtWork(s)) \/ (\A g \in Files : Still(g))
<1>t. job \in [Savers -> Job]
    BY DEF StoreTypeOK
<1>f. ASSUME UNCHANGED <<cur, bak, tmp, denied>>, raced.write \subseteq raced'.write,
             raced.save \subseteq raced'.save,
             \A o \in Savers, g \in Files : Untouched(o, g)
      PROVE  \A g \in Files : Still(g)
    BY <1>f DEF Still
<1>1. ASSUME NEW s \in Savers, NEW op, NEW text, Start(s, op, text)
      PROVE  \A g \in Files : Still(g)
  <2> DEFINE j == [Idle("none") EXCEPT !.op = op, !.text = text,
                                       !.alone = \A o \in Savers : ~Busy(o)]
  <2>1. job' = [o \in Savers |-> IF o = s THEN j ELSE [job[o] EXCEPT !.alone = FALSE]]
      BY <1>1 DEF Start
  <2>2. j.step = "next"
      BY DEF Idle
  <2> HIDE DEF j
  <2>3. \A g \in Files : ~Saving(s, g)'
      BY <2>1, <2>2 DEF Saving
  <2>4. ASSUME NEW o \in Savers \ {s}, NEW g \in Files PROVE Untouched(o, g)
    <3>1. job'[o] = [job[o] EXCEPT !.alone = FALSE] /\ job[o] \in Job
        BY <1>t, <2>1
    <3>2. /\ job'[o].op = job[o].op /\ job'[o].text = job[o].text /\ job'[o].at = job[o].at
          /\ job'[o].step = job[o].step /\ job'[o].buf = job[o].buf
          /\ job'[o].fd = job[o].fd /\ job'[o].alone = FALSE
        BY <3>1 DEF Job
    <3>3. QED
        BY <3>2 DEF Untouched, Continues, Saving, Busy, At
  <2>5. QED
      BY <1>1, <1>f, <2>3, <2>4 DEF Start, Untouched, Continues
<1>2. ASSUME NEW s \in Savers, ReadFile(s), Unchanged(s, At(s))
      PROVE  \A g \in Files : Still(g)
  <2>1. Ended(s, Advanced(s), StillOpen) \/ Stepped(s, IF BacksUp(At(s)) THEN "backup" ELSE "open",
          job[s].fd, NewText(s, At(s)))
      BY <1>2, Shapes
  <2>2. job'[s] = Advanced(s) /\ Advanced(s).step = "next"
      BY <1>2, <1>t, AdvancedOK DEF ReadFile
  <2>3. Ended(s, Advanced(s), StillOpen)
      BY <2>1, <2>2 DEF Stepped
  <2>4. \A o \in Savers, g \in Files : Untouched(o, g)
      BY <2>2, <2>3, EndedElsewhere DEF StillOpen
  <2>5. QED
      BY <1>2, <1>f, <2>4, RacedGrows DEF ReadFile
<1>3. ASSUME NEW s \in Savers, Fail(s) PROVE \A g \in Files : Still(g)
  <2>1. Ended(s, Failed(s), StillOpen) /\ Failed(s).step = "next"
      BY <1>3, Shapes DEF Failed, Idle
  <2>2. \A o \in Savers, g \in Files : Untouched(o, g)
      BY <2>1, EndedElsewhere DEF StillOpen
  <2>3. QED
      BY <1>3, <1>f, <2>2 DEF Fail
<1>4. ASSUME Restart PROVE \A g \in Files : Still(g)
  <2>1. \A o \in Savers : job'[o].op = "idle"
      BY <1>4 DEF Restart, Idle
  <2>2. \A o \in Savers, g \in Files : Untouched(o, g)
      BY <2>1 DEF Untouched, Continues, Saving, Busy
  <2>3. QED
      BY <1>4, <1>f, <2>2 DEF Restart
<1>5. ASSUME UNCHANGED storeVars PROVE \A g \in Files : Still(g)
  <2>1. \A o \in Savers, g \in Files : Untouched(o, g)
      BY <1>5 DEF storeVars, Untouched, Continues, Saving, Busy, At
  <2>2. QED
      BY <1>5, <1>f, <2>1 DEF storeVars
<1>6. QED
    BY <1>1, <1>2, <1>3, <1>4, <1>5 DEF StoreNext, AtWork

\* What a request at work makes of its file, the copy and the temporary file.
LEMMA AtFile ==
    ASSUME StoreTypeOK, NEW s \in Savers, NEW f, f = At(s)
    PROVE  /\ ReadFile(s)    => cur'[f] = cur[f] /\ bak'[f] = bak[f] /\ tmp'[f] = tmp[f]
           /\ BackupOpen(s)  => cur'[f] = cur[f] /\ tmp'[f] = tmp[f]
           /\ BackupCopy(s)  => cur'[f] = cur[f] /\ bak'[f] = cur[f] /\ tmp'[f] = tmp[f]
           /\ TmpOpen(s)     => cur'[f] = cur[f] /\ bak'[f] = bak[f] /\ tmp'[f] = Torn
           /\ TmpWrite(s)    =>
                /\ bak'[f] = bak[f]
                /\ IF job[s].fd = "tmp" THEN tmp'[f] \in Overwritten(tmp[f], job[s].buf)
                                        ELSE tmp'[f] = tmp[f]
                /\ IF job[s].fd = "cur" THEN cur'[f] \in Overwritten(cur[f], job[s].buf)
                                        ELSE cur'[f] = cur[f]
           /\ Rename(s)      => cur'[f] = tmp[f] /\ bak'[f] = bak[f] /\ tmp'[f] = Absent
           /\ RenameFails(s) => cur'[f] = cur[f] /\ bak'[f] = bak[f] /\ tmp'[f] = tmp[f]
           /\ DirectOpen(s)  => cur'[f] = Torn /\ bak'[f] = bak[f] /\ tmp'[f] = tmp[f]
           /\ DirectWrite(s) => /\ cur'[f] \in Overwritten(cur[f], job[s].buf)
                                /\ bak'[f] = bak[f] /\ tmp'[f] = tmp[f]
           /\ RemoveTmp(s)   => cur'[f] = cur[f] /\ bak'[f] = bak[f] /\ tmp'[f] = Absent
<1>0. Busy(s) => f \in Files
    BY InHand
<1>1. Busy(s) => \A t : /\ [cur EXCEPT ![f] = t][f] = t /\ [bak EXCEPT ![f] = t][f] = t
                        /\ [tmp EXCEPT ![f] = t][f] = t
    BY <1>0 DEF StoreTypeOK
<1>2. ReadFile(s) \/ RenameFails(s) => cur'[f] = cur[f] /\ bak'[f] = bak[f] /\ tmp'[f] = tmp[f]
    BY DEF ReadFile, RenameFails
<1>3. BackupOpen(s)  => cur'[f] = cur[f] /\ tmp'[f] = tmp[f]
    BY DEF BackupOpen
<1>4. BackupCopy(s)  => cur'[f] = cur[f] /\ bak'[f] = cur[f] /\ tmp'[f] = tmp[f]
    BY <1>1 DEF BackupCopy
<1>5. TmpOpen(s)     => cur'[f] = cur[f] /\ bak'[f] = bak[f] /\ tmp'[f] = Torn
    BY <1>1 DEF TmpOpen
<1>6. TmpWrite(s)    =>
        /\ bak'[f] = bak[f]
        /\ IF job[s].fd = "tmp" THEN tmp'[f] \in Overwritten(tmp[f], job[s].buf)
                                ELSE tmp'[f] = tmp[f]
        /\ IF job[s].fd = "cur" THEN cur'[f] \in Overwritten(cur[f], job[s].buf)
                                ELSE cur'[f] = cur[f]
    BY <1>1 DEF TmpWrite
<1>7. Rename(s)      => cur'[f] = tmp[f] /\ bak'[f] = bak[f] /\ tmp'[f] = Absent
    BY <1>1 DEF Rename
<1>8. DirectOpen(s)  => cur'[f] = Torn /\ bak'[f] = bak[f] /\ tmp'[f] = tmp[f]
    BY <1>1 DEF DirectOpen
<1>9. DirectWrite(s) => /\ cur'[f] \in Overwritten(cur[f], job[s].buf)
                        /\ bak'[f] = bak[f] /\ tmp'[f] = tmp[f]
    BY <1>1 DEF DirectWrite
<1>10. RemoveTmp(s)  => cur'[f] = cur[f] /\ bak'[f] = bak[f] /\ tmp'[f] = Absent
    BY <1>1 DEF RemoveTmp
<1>11. QED
    BY <1>2, <1>3, <1>4, <1>5, <1>6, <1>7, <1>8, <1>9, <1>10

-----------------------------------------------------------------------------
(* Whole files                                                             *)

\* s may be at work on f: its text is whole, and the temporary file that it
\* has open is empty, or was renamed or removed by another.
AtTmp(s, f) ==
    Saving(s, f) =>
      /\ Whole(job[s].buf)
      /\ job[s].step \notin {"direct", "clean"}
      /\ job[s].step = "write" => \/ job[s].fd = "tmp" /\ tmp[f] = Torn
                                  \/ job[s].fd = "gone" /\ tmp[f] = Absent
      /\ job[s].step = "rename" => Whole(tmp[f])

\* One request at most writes f, and what it renames over f is whole.
WriteOK(f) ==
    /\ Whole(cur[f])
    /\ \A s, o \in Savers : Writing(s, f) /\ Writing(o, f) => s = o
    /\ \A s \in Savers : AtTmp(s, f)

WriteInv == \A f \in Files \ raced.write : ~denied => WriteOK(f)

\* What the others do with the file while s is at work on it.
LEMMA OthersWrite ==
    ASSUME NEW s \in Savers, NEW f \in Files, \A o \in Savers \ {s} : Continues(o, f),
           WriteOK(f), ~Writing(s, f)' \/ \A o \in Savers \ {s} : ~Writing(o, f)
    PROVE  /\ \A o, p \in Savers : Writing(o, f)' /\ Writing(p, f)' => o = p
           /\ tmp'[f] = tmp[f] =>
                \A o \in Savers \ {s} : Untouched(o, f) => AtTmp(o, f)'
           /\ \A o \in Savers \ {s} : ~Writing(o, f) => AtTmp(o, f)'
<1>1. \A o \in Savers \ {s} : Writing(o, f)' => Writing(o, f)
    BY DEF Writing, Continues
<1>2. \A o, p \in Savers : Writing(o, f) /\ Writing(p, f) => o = p
    BY DEF WriteOK
<1>3. \A o, p \in Savers : Writing(o, f)' /\ Writing(p, f)' => o = p
    BY <1>1, <1>2
<1>4. ASSUME tmp'[f] = tmp[f], NEW o \in Savers \ {s}, Untouched(o, f) PROVE AtTmp(o, f)'
  <2>1. SUFFICES ASSUME Saving(o, f)' PROVE AtTmp(o, f)'
      BY DEF AtTmp
  <2>2. Saving(o, f) /\ job'[o].step = job[o].step /\ job'[o].fd = job[o].fd
        /\ job'[o].buf = job[o].buf
      BY <1>4, <2>1 DEF Untouched, Continues
  <2>3. AtTmp(o, f)
      BY DEF WriteOK
  <2>4. QED
      BY <1>4, <2>2, <2>3 DEF AtTmp, Whole
<1>5. ASSUME NEW o \in Savers \ {s}, ~Writing(o, f) PROVE AtTmp(o, f)'
  <2>1. SUFFICES ASSUME Saving(o, f)' PROVE AtTmp(o, f)'
      BY DEF AtTmp
  <2>2. Saving(o, f) /\ job'[o].step = job[o].step /\ job'[o].buf = job[o].buf
      BY <2>1 DEF Continues
  <2>3. AtTmp(o, f) /\ job[o].step \notin {"write", "rename"}
      BY <1>5, <2>2 DEF WriteOK, Writing
  <2>4. QED
      BY <2>2, <2>3 DEF AtTmp, Whole
<1>6. QED
    BY <1>3, <1>4, <1>5

\* The steps of the request s on its file keep it so.
LEMMA WriteAt ==
    ASSUME StoreTypeOK, NEW s \in Savers, AtWork(s), ~denied,
           NEW f, f = At(s), f \notin raced'.write, WriteOK(f)
    PROVE  WriteOK(f)'
<1>1. Busy(s)
    BY DEF AtWork, ReadFile, BackupOpen, BackupCopy, TmpOpen, TmpWrite, Rename,
       RenameFails, DirectOpen, DirectWrite, RemoveTmp
<1>2. f \in Files /\ job[s] \in Job
    BY <1>1, InHand
<1>3. Whole(Absent)
    BY StoreAssumption DEF Whole
<1>4. Whole(cur[f]) /\ AtTmp(s, f)
    BY DEF WriteOK
<1>5. ASSUME NEW step \in Steps, NEW fd, NEW buf, Stepped(s, step, fd, buf)
      PROVE  /\ \A o \in Savers \ {s} : Continues(o, f) /\ Untouched(o, f)
             /\ Saving(s, f)' => job'[s].step = step /\ job'[s].fd = fd /\ job'[s].buf = buf
             /\ Writing(s, f)' => step \in {"write", "rename", "direct"}
    BY <1>2, <1>5, SteppedElsewhere DEF Stepped, Writing, Untouched
\* A step at which s does not write, and after which neither does it.
<1>6. ASSUME NEW step \in {"backup", "copy", "open", "drop"}, NEW fd, NEW buf,
             Stepped(s, step, fd, buf), Whole(buf), cur'[f] = cur[f], tmp'[f] = tmp[f]
      PROVE  WriteOK(f)'
  <2>1. step \in Steps /\ step \notin {"write", "rename", "direct", "clean"}
      BY DEF Steps
  <2>2. /\ \A o \in Savers \ {s} : Continues(o, f) /\ Untouched(o, f)
        /\ Saving(s, f)' => job'[s].step = step /\ job'[s].buf = buf
        /\ ~Writing(s, f)'
      BY <1>5, <1>6, <2>1
  <2>3. AtTmp(s, f)'
      BY <1>6, <2>1, <2>2 DEF AtTmp, Whole
  <2>4. /\ \A o, p \in Savers : Writing(o, f)' /\ Writing(p, f)' => o = p
        /\ \A o \in Savers \ {s} : AtTmp(o, f)'
      BY <1>2, <1>6, <2>2, OthersWrite
  <2>5. QED
      BY <1>4, <1>6, <2>3, <2>4 DEF WriteOK, Whole
\* A step of the only writer.
<1>7. ASSUME NEW step \in {"write", "rename"}, NEW fd, NEW buf,
             Stepped(s, step, fd, buf), Whole(buf), cur'[f] = cur[f],
             \A o \in Savers \ {s} : ~Writing(o, f),
             step = "write" => fd = "tmp" /\ tmp'[f] = Torn,
             step = "rename" => Whole(tmp'[f])
      PROVE  WriteOK(f)'
  <2>1. step \in Steps /\ step \notin {"direct", "clean"}
      BY DEF Steps
  <2>2. /\ \A o \in Savers \ {s} : Continues(o, f)
        /\ Saving(s, f)' => job'[s].step = step /\ job'[s].fd = fd /\ job'[s].buf = buf
      BY <1>5, <1>7, <2>1
  <2>3. AtTmp(s, f)'
      BY <1>7, <2>1, <2>2 DEF AtTmp, Whole
  <2>4. /\ \A o, p \in Savers : Writing(o, f)' /\ Writing(p, f)' => o = p
        /\ \A o \in Savers \ {s} : AtTmp(o, f)'
      BY <1>2, <1>7, <2>2, OthersWrite
  <2>5. QED
      BY <1>4, <1>7, <2>3, <2>4 DEF WriteOK, Whole
<1>8. CASE ReadFile(s) /\ ~Unchanged(s, At(s))
  <2>1. Stepped(s, IF BacksUp(f) THEN "backup" ELSE "open", job[s].fd, NewText(s, f))
    <3>1. \/ Unchanged(s, At(s)) /\ Ended(s, Advanced(s), StillOpen)
          \/ Stepped(s, IF BacksUp(At(s)) THEN "backup" ELSE "open",
                     job[s].fd, NewText(s, At(s)))
        BY <1>8, Shapes
    <3>2. QED
        BY <1>8, <3>1
  <2>2. Whole(NewText(s, f))
      BY <1>1, <1>4, NewTextLeft
  <2>3. QED
      BY <1>6, <1>8, <2>1, <2>2, AtFile
<1>9. CASE BackupOpen(s)
  <2>1. Stepped(s, "copy", job[s].fd, job[s].buf) /\ cur'[f] = cur[f] /\ tmp'[f] = tmp[f]
      BY <1>9, Shapes, AtFile
  <2>2. Whole(job[s].buf)
      BY <1>4, <1>9 DEF BackupOpen, AtTmp, Saving
  <2>3. QED
      BY <1>6, <2>1, <2>2
<1>10. CASE BackupCopy(s)
  <2>1. Stepped(s, "open", job[s].fd, job[s].buf) /\ cur'[f] = cur[f] /\ tmp'[f] = tmp[f]
      BY <1>10, Shapes, AtFile
  <2>2. Whole(job[s].buf)
      BY <1>4, <1>10 DEF BackupCopy, AtTmp, Saving
  <2>3. QED
      BY <1>6, <2>1, <2>2
<1>11. CASE TmpOpen(s)
  <2>1. Stepped(s, "write", "tmp", job[s].buf) /\ cur'[f] = cur[f] /\ tmp'[f] = Torn
      BY <1>11, Shapes, AtFile
  <2>2. Whole(job[s].buf)
      BY <1>4, <1>11 DEF TmpOpen, AtTmp, Saving
  <2>3. \A o \in Savers \ {s} : ~Writing(o, f)
    <3>1. raced.write \in SUBSET Files /\ raced \in [write : SUBSET Files, save : SUBSET Files]
        BY DEF StoreTypeOK
    <3>2. f \in [raced EXCEPT !.write = @ \cup {f}].write
        BY <3>1
    <3>3. QED
        BY <1>11, <3>2 DEF TmpOpen
  <2>4. QED
      BY <1>7, <2>1, <2>2, <2>3
<1>12. ASSUME Saving(s, f), job[s].step \in {"write", "rename"}
       PROVE  \A o \in Savers \ {s} : ~Writing(o, f)
    BY <1>12 DEF WriteOK, Writing
<1>13. CASE TmpWrite(s)
  <2>1. Saving(s, f) /\ job[s].step = "write"
      BY <1>13 DEF TmpWrite, Saving
  <2>2. /\ Whole(job[s].buf)
        /\ \/ job[s].fd = "tmp" /\ tmp[f] = Torn
           \/ job[s].fd = "gone" /\ tmp[f] = Absent
      BY <1>4, <2>1 DEF AtTmp
  <2>3. cur'[f] = cur[f] /\ Whole(tmp'[f])
      BY <1>3, <1>13, <2>2, AtFile DEF Overwritten
  <2>4. Stepped(s, "rename", "none", job[s].buf)
      BY <1>13, Shapes
  <2>5. QED
      BY <1>7, <1>12, <2>1, <2>2, <2>3, <2>4
<1>14. CASE Rename(s)
  <2>1. Saving(s, f) /\ job[s].step = "rename"
      BY <1>14 DEF Rename, Saving
  <2>2. Whole(cur'[f])
      BY <1>4, <1>14, <2>1, AtFile DEF AtTmp
  <2>3. Ended(s, Advanced(s), MovedTo(f)) /\ Advanced(s).step = "next"
      BY <1>1, <1>14, Shapes, AdvancedOK
  <2>4. ~Saving(s, f)' /\ ~Writing(s, f)' /\ \A o \in Savers : Continues(o, f)
      BY <1>2, <2>3, EndedElsewhere DEF Writing
  <2>5. /\ \A o, p \in Savers : Writing(o, f)' /\ Writing(p, f)' => o = p
        /\ \A o \in Savers \ {s} : AtTmp(o, f)'
      BY <1>2, <1>12, <2>1, <2>4, OthersWrite
  <2>6. AtTmp(s, f)'
      BY <2>4 DEF AtTmp
  <2>7. QED
      BY <2>2, <2>5, <2>6 DEF WriteOK
<1>15. CASE RenameFails(s)
  <2>1. Stepped(s, "drop", job[s].fd, job[s].buf) /\ cur'[f] = cur[f] /\ tmp'[f] = tmp[f]
      BY <1>15, Shapes, AtFile
  <2>2. Whole(job[s].buf)
      BY <1>4, <1>15 DEF RenameFails, AtTmp, Saving
  <2>3. QED
      BY <1>6, <2>1, <2>2
<1>16. CASE DirectOpen(s) \/ DirectWrite(s)
    BY <1>4, <1>16 DEF DirectOpen, DirectWrite, AtTmp, Saving
<1>17. CASE RemoveTmp(s)
  <2> DEFINE j == IF job[s].step = "clean" THEN Advanced(s) ELSE Failed(s)
  <2>1. Ended(s, j, RemovedAt(f)) /\ j.step = "next"
      BY <1>1, <1>17, Shapes, AdvancedOK DEF Failed, Idle
  <2>2. cur'[f] = cur[f] /\ tmp'[f] = Absent
      BY <1>17, AtFile
  <2> HIDE DEF j
  <2>3. /\ ~Saving(s, f)' /\ ~Writing(s, f)' /\ \A o \in Savers : Continues(o, f)
        /\ \A o \in Savers \ {s} : job'[o].fd = RemovedAt(f)[o]
      BY <1>2, <2>1, EndedElsewhere DEF Writing, Ended
  <2>4. \A o, p \in Savers : Writing(o, f)' /\ Writing(p, f)' => o = p
      BY <1>2, <2>3, OthersWrite
  <2>5. ASSUME NEW o \in Savers \ {s}, Saving(o, f)' PROVE AtTmp(o, f)'
    <3>1. Saving(o, f) /\ job'[o].step = job[o].step /\ job'[o].buf = job[o].buf
        BY <2>3, <2>5 DEF Continues
    <3>2. AtTmp(o, f)
        BY DEF WriteOK
    <3>3. Whole(job'[o].buf) /\ job'[o].step \notin {"direct", "clean"}
        BY <3>1, <3>2 DEF AtTmp, Whole
    <3>4. job[o].step = "write" => job'[o].fd = "gone"
        BY <2>3, <3>1, <3>2 DEF AtTmp, RemovedAt, Writing
    <3>5. QED
        BY <1>3, <2>2, <3>1, <3>3, <3>4 DEF AtTmp, Whole
  <2>6. \A o \in Savers : AtTmp(o, f)'
      BY <2>3, <2>5 DEF AtTmp
  <2>7. QED
      BY <1>4, <2>2, <2>4, <2>6 DEF WriteOK, Whole
<1>18. QED
    BY <1>8, <1>9, <1>10, <1>11, <1>13, <1>14, <1>15, <1>16, <1>17 DEF AtWork

\* A step that leaves a file and the work on it alone keeps it so.
LEMMA WriteStill ==
    ASSUME NEW f \in Files, Still(f), WriteOK(f)
    PROVE  WriteOK(f)'
<1>1. \A o \in Savers : Writing(o, f)' => Writing(o, f)
    BY DEF Still, Untouched, Continues, Writing
<1>2. ASSUME NEW o \in Savers PROVE AtTmp(o, f)'
  <2>1. AtTmp(o, f) /\ Untouched(o, f) /\ tmp'[f] = tmp[f]
      BY DEF WriteOK, Still
  <2>2. QED
      BY <2>1 DEF AtTmp, Untouched, Continues, Whole
<1>3. Whole(cur'[f])
    BY DEF Still, WriteOK, Whole
<1>4. QED
    BY <1>1, <1>2, <1>3 DEF WriteOK, Whole

\* Where files can be renamed, a file that two requests did not write at once
\* is whole and has one writer at most.
THEOREM WholeInvariant == StoreSpec => []WriteInv
<1>1. StoreInit => WriteInv
  <2> SUFFICES ASSUME StoreInit, NEW f \in Files PROVE WriteOK(f)
      BY DEF WriteInv
  <2>1. \A s \in Savers : ~Saving(s, f)
      BY DEF StoreInit, Idle, Saving, Busy
  <2>2. cur[f] \in {Absent, Plain, <<>>} /\ <<>> \in Seq(Items)
      BY DEF StoreInit
  <2>3. Whole(cur[f])
      BY <2>2, StoreAssumption DEF Whole
  <2>4. QED
      BY <2>1, <2>3 DEF WriteOK, Writing, AtTmp
<1>2. StoreTypeOK /\ WriteInv /\ [StoreNext]_storeVars => WriteInv'
  <2> SUFFICES ASSUME StoreTypeOK, WriteInv, [StoreNext]_storeVars,
                      NEW f \in Files, f \notin raced'.write, ~denied'
               PROVE  WriteOK(f)'
      BY DEF WriteInv, Files
  <2>1. CASE Still(f)
    <3>1. WriteOK(f)
        BY <2>1 DEF Still, WriteInv
    <3>2. QED
        BY <2>1, <3>1, WriteStill
  <2>2. ASSUME NEW s \in Savers, AtWork(s) PROVE WriteOK(f)'
    <3>1. CASE f # At(s)
        BY <2>1, <2>2, <3>1, OtherFiles
    <3>2. CASE f = At(s)
      <4>1. raced.write \subseteq raced'.write /\ UNCHANGED denied
          BY <2>2, RacedGrows
      <4>2. WriteOK(f)
          BY <4>1 DEF WriteInv
      <4>3. QED
          BY <2>2, <3>2, <4>1, <4>2, WriteAt
    <3>3. QED
        BY <3>1, <3>2
  <2>3. QED
      BY <2>1, <2>2, StepKinds
<1>3. QED
    BY <1>1, <1>2, StoreTypes, PTL DEF StoreSpec

\* write_text_atomic: in every reachable state a file is whole, unless files
\* cannot be renamed over or two requests were writing it at once.
THEOREM WholeCorrect == StoreSpec => []WholeUnlessRaced
<1>1. StoreTypeOK /\ WriteInv => WholeUnlessRaced
    BY DEF WriteInv, WriteOK, WholeUnlessRaced
<1>2. QED
    BY <1>1, StoreTypes, WholeInvariant, PTL

-----------------------------------------------------------------------------
(* Saves and their backups                                                 *)

\* s is the only request at work on f.
Sole(s, f) == Saving(s, f) /\ (f \notin raced.save \/ job[s].alone)

\* Then the text in hand comes from what the file holds, the copy is what the
\* file holds once it was made, the temporary file is its own, and the file is
\* overwritten in place with its copy as the only trace of it.
SaveOK(s, f) ==
    Sole(s, f) =>
      /\ \A o \in Savers \ {s} : ~Saving(o, f)
      /\ job[s].step \in {"backup", "copy", "open", "write", "rename"} =>
           job[s].buf = NewText(s, f)
      /\ job[s].step \in {"backup", "copy"} => cur[f] # Absent
      /\ job[s].step \in {"open", "write", "rename"} /\ BacksUp(f) => bak[f] = cur[f]
      /\ job[s].step = "write" => job[s].fd = "tmp" /\ tmp[f] = Torn
      /\ job[s].step = "rename" => tmp[f] = job[s].buf
      /\ job[s].step = "direct" =>
           /\ cur[f] = Torn
           /\ f = SetFile => job[s].buf = Edited(ReadItems(bak[f]), job[s].text)
      /\ job[s].step = "clean" => cur[f] = job[s].buf

\* A request that no other overlaps has left its text in the files behind it.
DoneOK(s) ==
    Busy(s) /\ job[s].alone =>
      /\ \A o \in Savers \ {s} : ~Busy(o)
      /\ \A i \in 1..(job[s].at - 1) :
           LET f == Plan(job[s].op)[i] IN MayLeave(job[s], f, cur[f])

SaveInv ==
    /\ \A s \in Savers, f \in Files : SaveOK(s, f)
    /\ \A s \in Savers : DoneOK(s)

\* A step that leaves a file and the work on it alone keeps it so.
LEMMA SaveStill ==
    ASSUME NEW f \in Files, Still(f), \A s \in Savers : SaveOK(s, f), NEW s \in Savers
    PROVE  SaveOK(s, f)'
<1> SUFFICES ASSUME Sole(s, f)' PROVE SaveOK(s, f)'
    BY DEF SaveOK
<1>1. /\ Saving(s, f)
      /\ job'[s].op = job[s].op /\ job'[s].text = job[s].text
      /\ job'[s].step = job[s].step /\ job'[s].buf = job[s].buf /\ job'[s].fd = job[s].fd
      /\ job'[s].alone => job[s].alone
      /\ cur'[f] = cur[f] /\ bak'[f] = bak[f] /\ tmp'[f] = tmp[f]
    BY DEF Still, Untouched, Continues, Sole
<1>2. Sole(s, f)
    BY <1>1 DEF Still, Sole
<1>3. \A o \in Savers \ {s} : ~Saving(o, f)'
    BY <1>2 DEF SaveOK, Still, Untouched, Continues
<1>4. NewText(s, f)' = NewText(s, f) /\ BacksUp(f)' = BacksUp(f)
    BY <1>1 DEF NewText, BacksUp
<1>5. SaveOK(s, f)
    OBVIOUS
<1>6. QED
    BY <1>1, <1>2, <1>3, <1>4, <1>5 DEF SaveOK

\* A step of a request on its file: the others go on with theirs.
LEMMA WorkStep ==
    ASSUME StoreTypeOK, NEW s \in Savers, AtWork(s)
    PROVE  /\ Busy(s) /\ At(s) \in Files
           /\ \A o \in Savers \ {s}, g \in Files : Continues(o, g)
           /\ job'[s].alone = job[s].alone
           /\ IF Rename(s) \/ RemoveTmp(s)
              THEN \A g \in Files : ~Saving(s, g)'
              ELSE job'[s].op = job[s].op /\ job'[s].text = job[s].text /\ job'[s].at = job[s].at
<1>1. Busy(s)
    BY DEF AtWork, ReadFile, BackupOpen, BackupCopy, TmpOpen, TmpWrite, Rename,
       RenameFails, DirectOpen, DirectWrite, RemoveTmp
<1>2. At(s) \in Files /\ job[s].alone \in BOOLEAN
    BY <1>1, InHand DEF Job
<1>3. CASE Rename(s) \/ RemoveTmp(s)
  <2> DEFINE j == IF RemoveTmp(s) /\ job[s].step # "clean" THEN Failed(s) ELSE Advanced(s)
  <2>1. j.step = "next" /\ j.alone = job[s].alone
      BY <1>1, <1>2, AdvancedOK, IdleOK DEF Failed, Idle
  <2>2. Rename(s) => Ended(s, j, MovedTo(At(s)))
      BY Shapes DEF Rename, RemoveTmp
  <2>3. RemoveTmp(s) => Ended(s, j, RemovedAt(At(s)))
      BY Shapes
  <2> HIDE DEF j
  <2>4. PICK fd : Ended(s, j, fd)
      BY <1>3, <2>2, <2>3
  <2>5. job'[s].alone = job[s].alone
      BY <2>1, <2>4 DEF Ended
  <2>6. \A g \in Files : ~Saving(s, g)' /\ \A o \in Savers : Continues(o, g)
      BY <2>1, <2>4, EndedElsewhere
  <2>7. QED
      BY <1>1, <1>2, <1>3, <2>5, <2>6
<1>4. CASE ~(Rename(s) \/ RemoveTmp(s))
  <2>1. \E step, fd, buf : Stepped(s, step, fd, buf)
    <3>1. ReadFile(s) /\ ~Unchanged(s, At(s)) =>
            Stepped(s, IF BacksUp(At(s)) THEN "backup" ELSE "open", job[s].fd, NewText(s, At(s)))
        BY Shapes
    <3>2. QED
        BY <1>4, <3>1, Shapes DEF AtWork
  <2>2. PICK step, fd, buf : Stepped(s, step, fd, buf)
      BY <2>1
  <2>3. \A o \in Savers \ {s}, g \in Files : Continues(o, g)
      BY <2>2, SteppedElsewhere DEF Untouched
  <2>4. QED
      BY <1>1, <1>2, <1>4, <2>2, <2>3 DEF Stepped
<1>5. QED
    BY <1>3, <1>4

\* A request that is alone on its file after a step of s on that file is s
\* itself, and was alone there before: another that is reading the file is
\* either noted in raced or not alone in the server.
LEMMA SoleAt ==
    ASSUME StoreTypeOK, NEW s \in Savers, AtWork(s), NEW f, f = At(s),
           \A o \in Savers : SaveOK(o, f) /\ DoneOK(o), NEW o \in Savers, Sole(o, f)'
    PROVE  /\ o = s /\ ~Rename(s) /\ ~RemoveTmp(s)
           /\ \A p \in Savers \ {s} : ~Saving(p, f)
           /\ job[s].step # "next" => Sole(s, f)
<1>1. /\ Busy(s) /\ f \in Files
      /\ \A p \in Savers \ {s} : Continues(p, f)
      /\ job'[s].alone = job[s].alone
      /\ raced.save \subseteq raced'.save
    BY WorkStep, RacedGrows
<1>2. job[s].step = "next" => ReadFile(s)
    BY DEF AtWork, BackupOpen, BackupCopy, TmpOpen, TmpWrite, Rename,
       RenameFails, DirectOpen, DirectWrite, RemoveTmp
<1>3. ReadFile(s) /\ (\E p \in Savers \ {s} : Saving(p, f)) => f \in raced'.save
  <2>1. raced \in [write : SUBSET Files, save : SUBSET Files]
      BY DEF StoreTypeOK
  <2>2. f \in [raced EXCEPT !.save = @ \cup {f}].save
      BY <2>1
  <2>3. QED
      BY <2>2 DEF ReadFile
<1>4. ASSUME o # s PROVE FALSE
  <2>1. Saving(o, f) /\ (job'[o].alone => job[o].alone)
      BY <1>1, <1>4 DEF Continues, Sole
  <2>2. Sole(o, f)
      BY <1>1, <2>1 DEF Sole
  <2>3. ~Saving(s, f)
      BY <1>4, <2>2 DEF SaveOK
  <2>4. ReadFile(s)
      BY <1>1, <1>2, <2>3 DEF Saving
  <2>5. job[o].alone
      BY <1>3, <1>4, <2>1, <2>4 DEF Sole
  <2>6. ~Busy(s)
      BY <1>4, <2>1, <2>5 DEF DoneOK, Saving
  <2>7. QED
      BY <1>1, <2>6
<1>5. ~Rename(s) /\ ~RemoveTmp(s)
    BY <1>1, <1>4, WorkStep DEF Sole
<1>6. CASE job[s].step = "next"
  <2>1. ASSUME job[s].alone PROVE \A p \in Savers \ {s} : ~Saving(p, f)
      BY <1>1, <2>1 DEF DoneOK, Saving
  <2>2. QED
      BY <1>1, <1>2, <1>3, <1>4, <1>5, <1>6, <2>1 DEF Sole
<1>7. CASE job[s].step # "next"
  <2>1. Saving(s, f)
      BY <1>1, <1>7 DEF Saving
  <2>2. Sole(s, f)
      BY <1>1, <1>4, <2>1 DEF Sole
  <2>3. QED
      BY <1>4, <1>5, <2>2 DEF SaveOK
<1>8. QED
    BY <1>6, <1>7

\* A step of s on its file keeps the file and its copy as they should be.
LEMMA SaveAt ==
    ASSUME StoreTypeOK, NEW s \in Savers, AtWork(s), NEW f, f = At(s),
           \A o \in Savers : SaveOK(o, f) /\ DoneOK(o), NEW o \in Savers
    PROVE  SaveOK(o, f)'
<1> SUFFICES ASSUME Sole(o, f)' PROVE SaveOK(o, f)'
    BY DEF SaveOK
<1>1. /\ o = s /\ ~Rename(s) /\ ~RemoveTmp(s)
      /\ \A p \in Savers \ {s} : ~Saving(p, f)
      /\ job[s].step # "next" => Sole(s, f)
    BY SoleAt
<1>2. /\ Busy(s) /\ f \in Files
      /\ \A p \in Savers \ {s} : ~Saving(p, f)'
      /\ job'[s].op = job[s].op /\ job'[s].text = job[s].text
    BY <1>1, WorkStep DEF Continues
<1>3. SaveOK(s, f)
    OBVIOUS
<1>4. cur'[f] = cur[f] => NewText(s, f)' = NewText(s, f) /\ BacksUp(f)' = BacksUp(f)
    BY <1>2 DEF NewText, BacksUp
<1>5. CASE ReadFile(s) /\ ~Unchanged(s, At(s))
  <2>1. Stepped(s, IF BacksUp(f) THEN "backup" ELSE "open", job[s].fd, NewText(s, f))
    <3>1. \/ Unchanged(s, At(s)) /\ Ended(s, Advanced(s), StillOpen)
          \/ Stepped(s, IF BacksUp(At(s)) THEN "backup" ELSE "open",
                     job[s].fd, NewText(s, At(s)))
        BY <1>5, Shapes
    <3>2. QED
        BY <1>5, <3>1
  <2>2. cur'[f] = cur[f]
      BY <1>5, AtFile
  <2>3. job'[s].buf = NewText(s, f) /\ job'[s].step = IF BacksUp(f) THEN "backup" ELSE "open"
      BY <2>1 DEF Stepped
  <2>4. job'[s].step = "backup" => cur'[f] # Absent
      BY <2>2, <2>3 DEF BacksUp
  <2>5. QED
      BY <1>1, <1>2, <1>4, <2>2, <2>3, <2>4 DEF SaveOK
<1>6. CASE BackupOpen(s)
  <2>1. cur'[f] = cur[f] /\ job'[s].step = "copy" /\ job'[s].buf = job[s].buf
      BY <1>6, AtFile, Shapes DEF Stepped
  <2>2. job[s].buf = NewText(s, f) /\ cur[f] # Absent
      BY <1>1, <1>3, <1>6 DEF SaveOK, BackupOpen
  <2>3. QED
      BY <1>1, <1>2, <1>4, <2>1, <2>2 DEF SaveOK
<1>7. CASE BackupCopy(s)
  <2>1. /\ cur'[f] = cur[f] /\ bak'[f] = cur[f]
        /\ job'[s].step = "open" /\ job'[s].buf = job[s].buf
      BY <1>7, AtFile, Shapes DEF Stepped
  <2>2. job[s].buf = NewText(s, f)
      BY <1>1, <1>3, <1>7 DEF SaveOK, BackupCopy
  <2>3. QED
      BY <1>1, <1>2, <1>4, <2>1, <2>2 DEF SaveOK
<1>8. CASE TmpOpen(s)
  <2>1. /\ cur'[f] = cur[f] /\ bak'[f] = bak[f] /\ tmp'[f] = Torn
        /\ job'[s].step = "write" /\ job'[s].fd = "tmp" /\ job'[s].buf = job[s].buf
      BY <1>8, AtFile, Shapes DEF Stepped
  <2>2. job[s].buf = NewText(s, f) /\ (BacksUp(f) => bak[f] = cur[f])
      BY <1>1, <1>3, <1>8 DEF SaveOK, TmpOpen
  <2>3. QED
      BY <1>1, <1>2, <1>4, <2>1, <2>2 DEF SaveOK
<1>9. CASE TmpWrite(s)
  <2>1. /\ job[s].buf = NewText(s, f) /\ (BacksUp(f) => bak[f] = cur[f])
        /\ job[s].fd = "tmp" /\ tmp[f] = Torn
      BY <1>1, <1>3, <1>9 DEF SaveOK, TmpWrite
  <2>2. cur'[f] = cur[f] /\ bak'[f] = bak[f] /\ tmp'[f] = job[s].buf
      BY <1>9, <2>1, AtFile DEF Overwritten
  <2>3. job'[s].step = "rename" /\ job'[s].buf = job[s].buf
      BY <1>9, Shapes DEF Stepped
  <2>4. QED
      BY <1>1, <1>2, <1>4, <2>1, <2>2, <2>3 DEF SaveOK
<1>10. CASE RenameFails(s)
  <2>1. job'[s].step = "drop"
      BY <1>10, Shapes DEF Stepped
  <2>2. QED
      BY <1>1, <1>2, <2>1 DEF SaveOK
<1>11. CASE DirectOpen(s)
  <2>1. job[s].buf = NewText(s, f) /\ (BacksUp(f) => bak[f] = cur[f]) /\ cur[f] # Absent
      BY <1>1, <1>3, <1>11 DEF SaveOK, DirectOpen
  <2>2. /\ cur'[f] = Torn /\ bak'[f] = bak[f]
        /\ job'[s].step = "direct" /\ job'[s].buf = job[s].buf
      BY <1>11, AtFile, Shapes DEF Stepped
  <2>3. f = SetFile => job[s].buf = Edited(ReadItems(bak[f]), job[s].text)
      BY <2>1, StoreAssumption DEF NewText, BacksUp
  <2>4. QED
      BY <1>1, <1>2, <2>2, <2>3 DEF SaveOK
<1>12. CASE DirectWrite(s)
  <2>1. cur[f] = Torn
      BY <1>1, <1>3, <1>12 DEF SaveOK, DirectWrite
  <2>2. cur'[f] = job[s].buf /\ job'[s].step = "clean" /\ job'[s].buf = job[s].buf
      BY <1>12, <2>1, AtFile, Shapes DEF Stepped, Overwritten
  <2>3. QED
      BY <1>1, <1>2, <2>2 DEF SaveOK
<1>13. QED
    BY <1>1, <1>5, <1>6, <1>7, <1>8, <1>9, <1>10, <1>11, <1>12 DEF AtWork

\* What the step of a request that is alone makes of the file that it is done
\* with.
LEMMA FileDone ==
    ASSUME StoreTypeOK, NEW s \in Savers, Busy(s), job[s].alone, NEW f, f = At(s),
           SaveOK(s, f),
           \/ ReadFile(s) /\ Unchanged(s, f)
           \/ Rename(s)
           \/ RemoveTmp(s) /\ job[s].step = "clean"
    PROVE  MayLeave(job[s], f, cur'[f])
<1>1. CASE ReadFile(s) /\ Unchanged(s, f)
  <2>1. cur'[f] = NewText(s, f)
      BY <1>1 DEF ReadFile, Unchanged
  <2>2. MayLeave(job[s], f, NewText(s, f))
      BY NewTextLeft
  <2>3. QED
      BY <2>1, <2>2
<1>2. CASE Rename(s) \/ (RemoveTmp(s) /\ job[s].step = "clean")
  <2>1. Sole(s, f) /\ job[s].step # "next"
      BY <1>2 DEF Sole, Saving, Rename, RemoveTmp
  <2>2. Rename(s) => cur'[f] = job[s].buf
      BY <2>1, AtFile DEF SaveOK, Rename
  <2>3. RemoveTmp(s) /\ job[s].step = "clean" => cur'[f] = job[s].buf
      BY <2>1, AtFile DEF SaveOK
  <2>4. MayLeave(job[s], f, job[s].buf)
      BY <2>1, InHand
  <2>5. cur'[f] = job[s].buf
      BY <1>2, <2>2, <2>3
  <2>6. QED
      BY <2>4, <2>5
<1>3. QED
    BY <1>1, <1>2

\* The steps of a request that has begun.
Acts(s) == AtWork(s) \/ ReadFile(s) \/ Fail(s)

\* It goes on with its file, is done with it, or has failed.
LEMMA ActsShape ==
    ASSUME StoreTypeOK, NEW s \in Savers, Acts(s)
    PROVE  /\ Busy(s)
           /\ \A o \in Savers \ {s} : SameJob(o)
           /\ \A g \in Files \ {At(s)} : cur'[g] = cur[g]
           /\ \/ /\ job'[s].op = job[s].op /\ job'[s].text = job[s].text
                 /\ job'[s].at = job[s].at /\ job'[s].alone = job[s].alone
              \/ /\ job'[s] = Advanced(s)
                 /\ \/ ReadFile(s) /\ Unchanged(s, At(s))
                    \/ Rename(s)
                    \/ RemoveTmp(s) /\ job[s].step = "clean"
              \/ job'[s] = Failed(s)
<1>1. Busy(s)
    BY WorkStep DEF Acts, ReadFile, Fail
<1>2. \A g \in Files \ {At(s)} : cur'[g] = cur[g]
    BY OtherFiles DEF Acts, AtWork, ReadFile, Fail, Still
<1>3. ASSUME NEW step, NEW fd, NEW buf, Stepped(s, step, fd, buf)
      PROVE  /\ \A o \in Savers \ {s} : SameJob(o)
             /\ job'[s].op = job[s].op /\ job'[s].text = job[s].text
             /\ job'[s].at = job[s].at /\ job'[s].alone = job[s].alone
    BY <1>3 DEF Stepped, SameJob
<1>4. ASSUME NEW j, NEW fd, Ended(s, j, fd)
      PROVE  (\A o \in Savers \ {s} : SameJob(o)) /\ job'[s] = j
    BY <1>4 DEF Ended
<1>5. CASE Rename(s)
    BY <1>1, <1>2, <1>4, <1>5, Shapes
<1>6. CASE RemoveTmp(s)
  <2>1. CASE job[s].step = "clean"
    <3>1. Ended(s, Advanced(s), RemovedAt(At(s)))
        BY <1>6, <2>1, Shapes
    <3>2. QED
        BY <1>1, <1>2, <1>4, <1>6, <2>1, <3>1
  <2>2. CASE job[s].step # "clean"
    <3>1. Ended(s, Failed(s), RemovedAt(At(s)))
        BY <1>6, <2>2, Shapes
    <3>2. QED
        BY <1>1, <1>2, <1>4, <3>1
  <2>3. QED
      BY <2>1, <2>2
<1>7. CASE Fail(s)
    BY <1>1, <1>2, <1>4, <1>7, Shapes
<1>8. CASE ReadFile(s)
  <2>1. CASE Unchanged(s, At(s))
    <3>1. job'[s] = Advanced(s)
        BY <1>8, <2>1 DEF ReadFile, StoreTypeOK
    <3>2. Advanced(s).step = "next"
        BY <1>1, AdvancedOK
    <3>3. ~Stepped(s, IF BacksUp(At(s)) THEN "backup" ELSE "open", job[s].fd, NewText(s, At(s)))
        BY <3>1, <3>2 DEF Stepped
    <3>4. Ended(s, Advanced(s), StillOpen)
        BY <1>8, <3>3, Shapes
    <3>5. QED
        BY <1>1, <1>2, <1>4, <1>8, <2>1, <3>4
  <2>2. CASE ~Unchanged(s, At(s))
    <3>1. Stepped(s, IF BacksUp(At(s)) THEN "backup" ELSE "open", job[s].fd, NewText(s, At(s)))
        BY <1>8, <2>2, Shapes
    <3>2. QED
        BY <1>1, <1>2, <1>3, <3>1
  <2>3. QED
      BY <2>1, <2>2
<1>9. CASE \/ BackupOpen(s) \/ BackupCopy(s) \/ TmpOpen(s) \/ TmpWrite(s)
           \/ RenameFails(s) \/ DirectOpen(s) \/ DirectWrite(s)
  <2>1. \E step, fd, buf : Stepped(s, step, fd, buf)
      BY <1>9, Shapes
  <2>2. QED
      BY <1>1, <1>2, <1>3, <2>1
<1>10. QED
    BY <1>5, <1>6, <1>7, <1>8, <1>9 DEF Acts, AtWork

\* Every step of the store is one of a request that has begun, the start of
\* one, a restart, or changes nothing.
LEMMA StepsOf ==
    ASSUME [StoreNext]_storeVars
    PROVE  \/ \E s \in Savers : Acts(s)
           \/ \E s \in Savers : \E op, text : Start(s, op, text)
           \/ Restart \/ UNCHANGED storeVars
BY DEF StoreNext, Acts, AtWork

\* A request that is alone keeps what it has left in the files behind it.
LEMMA DoneStep ==
    ASSUME StoreTypeOK, SaveInv, [StoreNext]_storeVars, NEW s \in Savers
    PROVE  DoneOK(s)'
<1> SUFFICES ASSUME Busy(s)', job'[s].alone PROVE DoneOK(s)'
    BY DEF DoneOK
<1>0. DoneOK(s) /\ \A f \in Files : SaveOK(s, f)
    BY DEF SaveInv
<1>1. ASSUME NEW r \in Savers, NEW op, NEW text, Start(r, op, text) PROVE DoneOK(s)'
  <2> DEFINE alone == \A o \in Savers : ~Busy(o)
             j == [Idle("none") EXCEPT !.op = op, !.text = text, !.alone = alone]
  <2>1. job' = [o \in Savers |-> IF o = r THEN j ELSE [job[o] EXCEPT !.alone = FALSE]]
      BY <1>1 DEF Start
  <2>2. j.at = 1 /\ j.alone = alone
      BY DEF Idle
  <2> HIDE DEF j
  <2>3. ASSUME NEW o \in Savers \ {r}
        PROVE  job'[o].alone = FALSE /\ job'[o].op = job[o].op
    <3>1. job'[o] = [job[o] EXCEPT !.alone = FALSE] /\ job[o] \in Job
        BY <2>1 DEF StoreTypeOK
    <3>2. QED
        BY <3>1 DEF Job
  <2>4. s = r /\ job'[s] = j
    <3>1. ASSUME s # r PROVE FALSE
      <4>1. job'[s].alone = FALSE
          BY <2>3, <3>1
      <4>2. QED
          BY <4>1
    <3>2. QED
        BY <2>1, <3>1
  <2>5. \A o \in Savers \ {s} : ~Busy(o)'
      BY <2>2, <2>3, <2>4 DEF Busy
  <2>6. 1..(job'[s].at - 1) = {}
      BY <2>2, <2>4
  <2>7. QED
      BY <2>5, <2>6 DEF DoneOK
<1>2. CASE Restart
    BY <1>2 DEF Restart, Busy, Idle
<1>3. CASE UNCHANGED storeVars
    BY <1>0, <1>3 DEF storeVars, DoneOK, Busy, MayLeave
<1>4. ASSUME NEW r \in Savers, Acts(r) PROVE DoneOK(s)'
  <2>1. CASE r # s
    <3>1. Busy(r) /\ SameJob(s)
        BY <1>4, <2>1, ActsShape
    <3>2. Busy(s) /\ job[s].alone
        BY <3>1 DEF SameJob, Busy
    <3>3. QED
        BY <1>0, <2>1, <3>1, <3>2 DEF DoneOK
  <2>2. CASE r = s
    <3>1. /\ Busy(s)
          /\ \A o \in Savers \ {s} : SameJob(o)
          /\ \A g \in Files \ {At(s)} : cur'[g] = cur[g]
          /\ \/ /\ job'[s].op = job[s].op /\ job'[s].text = job[s].text
                /\ job'[s].at = job[s].at /\ job'[s].alone = job[s].alone
             \/ /\ job'[s] = Advanced(s)
                /\ \/ ReadFile(s) /\ Unchanged(s, At(s))
                   \/ Rename(s)
                   \/ RemoveTmp(s) /\ job[s].step = "clean"
             \/ job'[s] = Failed(s)
        BY <1>4, <2>2, ActsShape
    <3>2. job'[s] # Failed(s)
        BY DEF Busy, Failed, Idle
    <3>3. /\ job[s].op \in Ops /\ job[s].at \in 1..Len(Plan(job[s].op))
          /\ Len(Plan(job[s].op)) \in Nat
      <4>1. job[s].op \in Ops /\ job[s].at \in 1..Len(Plan(job[s].op))
          BY <3>1 DEF StoreTypeOK, JobOK, Job, Busy
      <4>2. QED
          BY <4>1, PlanFiles
    <3>4. job[s].alone
        BY <3>1, <3>2, AdvancedOK
    <3>5. \A o \in Savers \ {s} : ~Busy(o)'
        BY <1>0, <3>1, <3>4 DEF DoneOK, SameJob, Busy
    <3>6. ASSUME NEW i \in 1..(job[s].at - 1)
          PROVE  LET f == Plan(job[s].op)[i] IN MayLeave(job[s], f, cur'[f])
      <4>1. i \in 1..Len(Plan(job[s].op)) /\ i # job[s].at
          BY <3>3
      <4>2. Plan(job[s].op)[i] \in Files \ {At(s)}
          BY <3>3, <4>1, PlanFiles DEF At
      <4>3. MayLeave(job[s], Plan(job[s].op)[i], cur[Plan(job[s].op)[i]])
          BY <1>0, <3>1, <3>4 DEF DoneOK
      <4>4. QED
          BY <3>1, <4>2, <4>3
    <3>7. CASE /\ job'[s].op = job[s].op /\ job'[s].text = job[s].text
               /\ job'[s].at = job[s].at
      <4>1. ASSUME NEW i \in 1..(job'[s].at - 1)
            PROVE  LET f == Plan(job'[s].op)[i] IN MayLeave(job'[s], f, cur'[f])
        <5>1. MayLeave(job[s], Plan(job[s].op)[i], cur'[Plan(job[s].op)[i]])
            BY <3>6, <3>7
        <5>2. QED
            BY <3>7, <5>1 DEF MayLeave
      <4>2. QED
          BY <3>5, <4>1 DEF DoneOK
    <3>8. CASE /\ job'[s] = Advanced(s)
               /\ \/ ReadFile(s) /\ Unchanged(s, At(s))
                  \/ Rename(s)
                  \/ RemoveTmp(s) /\ job[s].step = "clean"
      <4>1. MayLeave(job[s], At(s), cur'[At(s)])
        <5>1. At(s) \in Files
            BY <3>1, InHand
        <5>2. ASSUME NEW f, f = At(s) PROVE MayLeave(job[s], f, cur'[f])
            BY <1>0, <3>1, <3>4, <3>8, <5>1, <5>2, FileDone
        <5>3. QED
            BY <5>2
      <4>2. /\ job'[s].op = job[s].op /\ job'[s].text = job[s].text
            /\ job'[s].at = job[s].at + 1
          BY <3>1, <3>8, AdvancedOK DEF Busy
      <4>3. ASSUME NEW i \in 1..(job'[s].at - 1)
            PROVE  LET f == Plan(job'[s].op)[i] IN MayLeave(job'[s], f, cur'[f])
        <5>1. i \in 1..(job[s].at - 1) \/ i = job[s].at
            BY <3>3, <4>2
        <5>2. MayLeave(job[s], Plan(job[s].op)[i], cur'[Plan(job[s].op)[i]])
            BY <3>6, <4>1, <5>1 DEF At
        <5>3. QED
            BY <4>2, <5>2 DEF MayLeave
      <4>4. QED
          BY <3>5, <4>3 DEF DoneOK
    <3>9. QED
        BY <3>1, <3>2, <3>7, <3>8
  <2>3. QED
      BY <2>1, <2>2
<1>5. QED
    BY <1>1, <1>2, <1>3, <1>4, StepsOf

\* In every reachable state a save that nothing races with is made of what its
\* file holds, and its copy and its temporary file are its own.
THEOREM SaveInvariant == StoreSpec => []SaveInv
<1>1. StoreInit => SaveInv
  <2> SUFFICES ASSUME StoreInit PROVE SaveInv
      OBVIOUS
  <2>1. \A s \in Savers : ~Busy(s)
      BY DEF StoreInit, Idle, Busy
  <2>2. QED
      BY <2>1 DEF SaveInv, SaveOK, DoneOK, Sole, Saving
<1>2. StoreTypeOK /\ SaveInv /\ [StoreNext]_storeVars => SaveInv'
  <2> SUFFICES ASSUME StoreTypeOK, SaveInv, [StoreNext]_storeVars PROVE SaveInv'
      OBVIOUS
  <2>1. ASSUME NEW s \in Savers PROVE DoneOK(s)'
      BY DoneStep
  <2>2. ASSUME NEW o \in Savers, NEW f \in Files PROVE SaveOK(o, f)'
    <3>1. \A p \in Savers : SaveOK(p, f) /\ DoneOK(p)
        BY DEF SaveInv
    <3>2. CASE Still(f)
        BY <3>1, <3>2, SaveStill
    <3>3. ASSUME NEW s \in Savers, AtWork(s) PROVE SaveOK(o, f)'
      <4>1. CASE f # At(s)
          BY <3>2, <3>3, <4>1, OtherFiles
      <4>2. CASE f = At(s)
          BY <3>1, <3>3, <4>2, SaveAt
      <4>3. QED
          BY <4>1, <4>2
    <3>4. QED
        BY <3>2, <3>3, StepKinds
  <2>3. Files' = Files
      BY DEF Files
  <2>4. QED
      BY <2>1, <2>2, <2>3 DEF SaveInv
<1>3. QED
    BY <1>1, <1>2, StoreTypes, PTL DEF StoreSpec

\* How the text of a file changes that no two requests save at once: it is
\* replaced by what its request made of it, or emptied with its copy made and
\* then written.
LEMMA CurChanges ==
    ASSUME StoreTypeOK, SaveInv, [StoreNext]_storeVars,
           NEW f \in Files, f \notin raced.save, cur'[f] # cur[f]
    PROVE  \E s \in Savers :
             /\ Sole(s, f) /\ f = At(s) /\ Busy(s)
             /\ \/ /\ job[s].step = "rename" /\ cur'[f] = NewText(s, f)
                   /\ BacksUp(f) => bak[f] = cur[f]
                \/ /\ job[s].step = "rename" /\ cur'[f] = Torn /\ bak'[f] = bak[f]
                   /\ BacksUp(f) => bak[f] = cur[f]
                   /\ cur[f] # Absent
                \/ /\ job[s].step = "direct" /\ cur'[f] = job[s].buf /\ cur[f] = Torn
                   /\ f = SetFile => job[s].buf = Edited(ReadItems(bak[f]), job[s].text)
<1>1. ~Still(f)
    BY DEF Still
<1>2. PICK s \in Savers : AtWork(s)
    BY <1>1, StepKinds
<1>3. f = At(s) /\ Busy(s)
    BY <1>1, <1>2, OtherFiles, WorkStep
<1>4. SaveOK(s, f)
    BY DEF SaveInv
<1>5. job[s].step # "next" => Sole(s, f)
    BY <1>3 DEF Sole, Saving
<1>6. CASE TmpWrite(s)
  <2>1. job[s].fd = "tmp"
      BY <1>4, <1>5, <1>6 DEF TmpWrite, SaveOK
  <2>2. cur'[f] = cur[f]
      BY <1>3, <1>6, <2>1, AtFile
  <2>3. QED
      BY <2>2
<1>7. CASE Rename(s)
  <2>1. job[s].step = "rename" /\ Sole(s, f)
      BY <1>5, <1>7 DEF Rename
  <2>2. tmp[f] = NewText(s, f) /\ (BacksUp(f) => bak[f] = cur[f])
      BY <1>4, <2>1 DEF SaveOK
  <2>3. cur'[f] = tmp[f]
      BY <1>3, <1>7, AtFile
  <2>4. QED
      BY <1>3, <2>1, <2>2, <2>3
<1>8. CASE DirectOpen(s)
  <2>1. job[s].step = "rename" /\ Sole(s, f) /\ cur[f] # Absent
      BY <1>3, <1>5, <1>8 DEF DirectOpen
  <2>2. BacksUp(f) => bak[f] = cur[f]
      BY <1>4, <2>1 DEF SaveOK
  <2>3. cur'[f] = Torn /\ bak'[f] = bak[f]
      BY <1>3, <1>8, AtFile
  <2>4. QED
      BY <1>3, <2>1, <2>2, <2>3
<1>9. CASE DirectWrite(s)
  <2>1. job[s].step = "direct" /\ Sole(s, f)
      BY <1>5, <1>9 DEF DirectWrite
  <2>2. /\ cur[f] = Torn
        /\ f = SetFile => job[s].buf = Edited(ReadItems(bak[f]), job[s].text)
      BY <1>4, <2>1 DEF SaveOK
  <2>3. cur'[f] = job[s].buf
      BY <1>3, <1>9, <2>2, AtFile DEF Overwritten
  <2>4. QED
      BY <1>3, <2>1, <2>2, <2>3
<1>10. ~(ReadFile(s) \/ BackupOpen(s) \/ BackupCopy(s) \/ TmpOpen(s) \/ RenameFails(s)
         \/ RemoveTmp(s))
    BY <1>3, AtFile
<1>11. QED
    BY <1>2, <1>6, <1>7, <1>8, <1>9, <1>10 DEF AtWork

\* backup_file before write_text_atomic: a file that loses its text has this
\* text as its copy, unless two requests were saving it at once.
THEOREM BackupsCorrect == StoreSpec => OverwriteBackedUp
<1>1. ASSUME StoreTypeOK, SaveInv, [StoreNext]_storeVars
      PROVE  \A f \in Files \ {Main} :
               Whole(cur[f]) /\ ~Whole(cur'[f]) /\ f \notin raced.save => bak'[f] = cur[f]
  <2> SUFFICES ASSUME NEW f \in Files \ {Main},
                      Whole(cur[f]), ~Whole(cur'[f]), f \notin raced.save
               PROVE  bak'[f] = cur[f]
      OBVIOUS
  <2>1. f \in Files /\ f \notin raced.save /\ cur'[f] # cur[f]
      BY <1>1
  <2>2. PICK s \in Savers :
             /\ Sole(s, f) /\ f = At(s) /\ Busy(s)
             /\ \/ /\ job[s].step = "rename" /\ cur'[f] = NewText(s, f)
                   /\ BacksUp(f) => bak[f] = cur[f]
                \/ /\ job[s].step = "rename" /\ cur'[f] = Torn /\ bak'[f] = bak[f]
                   /\ BacksUp(f) => bak[f] = cur[f]
                   /\ cur[f] # Absent
                \/ /\ job[s].step = "direct" /\ cur'[f] = job[s].buf /\ cur[f] = Torn
                   /\ f = SetFile => job[s].buf = Edited(ReadItems(bak[f]), job[s].text)
      BY <1>1, <2>1, CurChanges
  <2>3. cur'[f] # NewText(s, f)
    <3>1. Whole(NewText(s, f))
        BY <1>1, <2>2, NewTextLeft
    <3>2. QED
        BY <3>1 DEF Whole
  <2>4. cur[f] # Torn
      BY DEF Whole
  <2>5. QED
      BY <2>2, <2>3, <2>4 DEF BacksUp
<1>2. QED
    BY <1>1, StoreTypes, SaveInvariant, PTL DEF StoreSpec, OverwriteBackedUp

\* save_rule_set_file: a save replaces the entries of a set by what its edit
\* makes of them, each once, unless two requests were saving the set at once.
THEOREM SetEditsCorrect == StoreSpec => SetEditExact
<1>1. ASSUME StoreTypeOK, SaveInv, [StoreNext]_storeVars, NEW s \in Savers,
             NEW old, old = IF Whole(cur[SetFile]) THEN cur[SetFile] ELSE bak[SetFile],
             NEW new, new = cur'[SetFile],
             Writing(s, SetFile), new # cur[SetFile], Whole(new), Whole(old),
             SetFile \notin raced.save
      PROVE  /\ Range(new) = (Range(ReadItems(old)) \ job[s].text.remove) \cup {job[s].text.add}
             /\ IsInjective(new)
  <2> DEFINE f == SetFile
  <2>0. f \in Files
      BY DEF Files
  <2>1. PICK o \in Savers :
             /\ Sole(o, f) /\ f = At(o) /\ Busy(o)
             /\ \/ /\ job[o].step = "rename" /\ cur'[f] = NewText(o, f)
                   /\ BacksUp(f) => bak[f] = cur[f]
                \/ /\ job[o].step = "rename" /\ cur'[f] = Torn /\ bak'[f] = bak[f]
                   /\ BacksUp(f) => bak[f] = cur[f]
                   /\ cur[f] # Absent
                \/ /\ job[o].step = "direct" /\ cur'[f] = job[o].buf /\ cur[f] = Torn
                   /\ f = SetFile => job[o].buf = Edited(ReadItems(bak[f]), job[o].text)
      BY <1>1, <2>0, CurChanges
  <2>2. o = s
      BY <1>1, <2>0, <2>1 DEF SaveInv, SaveOK, Writing
  <2>3. new = Edited(ReadItems(old), job[s].text)
    <3>1. CASE cur'[f] = NewText(o, f) /\ (BacksUp(f) => bak[f] = cur[f])
      <4>1. old = cur[f]
          BY <1>1, <3>1, StoreAssumption DEF BacksUp, Whole
      <4>2. QED
          BY <1>1, <2>2, <3>1, <4>1, StoreAssumption DEF NewText
    <3>2. CASE cur'[f] = job[o].buf /\ cur[f] = Torn
               /\ job[o].buf = Edited(ReadItems(bak[f]), job[o].text)
        BY <1>1, <2>2, <3>2 DEF Whole
    <3>3. cur'[f] # Torn
        BY <1>1 DEF Whole
    <3>4. QED
        BY <2>1, <3>1, <3>2, <3>3
  <2>4. ReadItems(old) \in Seq(Items)
    <3>1. old \in Contents(f) /\ old # Torn
        BY <1>1, <2>0 DEF StoreTypeOK, Whole
    <3>2. old \in {Absent} \cup Seq(Items)
        BY <3>1, StoreAssumption DEF Contents
    <3>3. QED
        BY <3>1, <3>2 DEF ReadItems
  <2>5. job[s].text \in [remove : SUBSET Items, add : Items]
    <3>1. /\ job[s].op \in Ops /\ job[s].text \in TextsOf(job[s].op)
          /\ job[s].at \in 1..Len(Plan(job[s].op)) /\ Plan(job[s].op)[job[s].at] = SetFile
        BY <1>1, <2>1, <2>2 DEF StoreTypeOK, JobOK, Job, Busy, At
    <3>2. job[s].op = "set"
        BY <3>1, PlanFiles
    <3>3. QED
        BY <3>1, <3>2 DEF TextsOf
  <2>6. QED
      BY <2>3, <2>4, <2>5, EditedItems
<1>2. ASSUME StoreTypeOK, SaveInv, [StoreNext]_storeVars
      PROVE  \A s \in Savers :
         LET old == IF Whole(cur[SetFile]) THEN cur[SetFile] ELSE bak[SetFile]
             new == cur'[SetFile]
         IN Writing(s, SetFile) /\ new # cur[SetFile] /\ Whole(new) /\ Whole(old)
              /\ SetFile \notin raced.save
            => /\ Range(new) = (Range(ReadItems(old)) \ job[s].text.remove) \cup {job[s].text.add}
               /\ IsInjective(new)
    BY <1>1, <1>2
<1>3. QED
    BY <1>2, StoreTypes, SaveInvariant, PTL DEF StoreSpec, SetEditExact

\* A request that no other overlapped and that is answered without an error
\* has left its text in all of its files.
THEOREM AnswersCorrect == StoreSpec => AnsweredInPlace
<1>1. ASSUME StoreTypeOK, SaveInv, [StoreNext]_storeVars, NEW s \in Savers,
             Busy(s), job'[s].op = "idle", job'[s].reply = "ok", job'[s].alone,
             NEW i \in 1..Len(Plan(job[s].op)), NEW f, f = Plan(job[s].op)[i]
      PROVE  MayLeave(job[s], f, cur'[f])
  <2>0. DoneOK(s) /\ \A g \in Files : SaveOK(s, g)
      BY <1>1 DEF SaveInv
  <2>1. ~(UNCHANGED storeVars) /\ ~Restart
      BY <1>1 DEF storeVars, Busy, Restart, Idle
  <2>2. ASSUME NEW r \in Savers, NEW op, NEW text, Start(r, op, text) PROVE FALSE
    <3> DEFINE j == [Idle("none") EXCEPT !.op = op, !.text = text,
                                         !.alone = \A o \in Savers : ~Busy(o)]
    <3>1. job' = [o \in Savers |-> IF o = r THEN j ELSE [job[o] EXCEPT !.alone = FALSE]]
          /\ ~Busy(r)
        BY <2>2 DEF Start
    <3> HIDE DEF j
    <3>2. s # r
        BY <1>1, <3>1
    <3>3. job'[s] = [job[s] EXCEPT !.alone = FALSE] /\ job[s] \in Job
        BY <1>1, <3>1, <3>2 DEF StoreTypeOK
    <3>4. job'[s].op = job[s].op
        BY <3>3 DEF Job
    <3>5. QED
        BY <1>1, <3>4 DEF Busy
  <2>3. PICK r \in Savers : Acts(r)
      BY <1>1, <2>1, <2>2, StepsOf
  <2>4. r = s
    <3>1. SameJob(s) => FALSE
        BY <1>1 DEF SameJob, Busy
    <3>2. QED
        BY <1>1, <2>3, <3>1, ActsShape
  <2>5. /\ Acts(s)
        /\ \A g \in Files \ {At(s)} : cur'[g] = cur[g]
        /\ job'[s] = Advanced(s)
        /\ \/ ReadFile(s) /\ Unchanged(s, At(s))
           \/ Rename(s)
           \/ RemoveTmp(s) /\ job[s].step = "clean"
    <3>1. job'[s] # Failed(s)
        BY <1>1 DEF Failed, Idle
    <3>2. job'[s].op # job[s].op
        BY <1>1 DEF Busy
    <3>3. QED
        BY <1>1, <2>3, <2>4, <3>1, <3>2, ActsShape
  <2>6. /\ job[s].op \in Ops /\ job[s].at = Len(Plan(job[s].op))
        /\ Len(Plan(job[s].op)) \in Nat /\ job[s].alone
    <3>1. job[s].op \in Ops
        BY <1>1 DEF StoreTypeOK, Job, Busy
    <3>2. QED
        BY <1>1, <2>5, <3>1, AdvancedOK, PlanFiles DEF Busy
  <2>7. CASE f = At(s)
    <3>1. f \in Files
        BY <1>1, <2>7, InHand
    <3>2. QED
        BY <1>1, <2>0, <2>5, <2>6, <2>7, <3>1, FileDone
  <2>8. CASE f # At(s)
    <3>1. i \in 1..(job[s].at - 1)
        BY <1>1, <2>6, <2>8 DEF At
    <3>2. MayLeave(job[s], f, cur[f])
        BY <1>1, <2>0, <2>6, <3>1 DEF DoneOK
    <3>3. f \in Files
        BY <1>1, <2>6, PlanFiles
    <3>4. QED
        BY <2>5, <2>8, <3>2, <3>3
  <2>9. QED
      BY <2>7, <2>8
<1>2. ASSUME StoreTypeOK, SaveInv, [StoreNext]_storeVars
      PROVE  \A s \in Savers :
         Busy(s) /\ job'[s].op = "idle" /\ job'[s].reply = "ok" /\ job'[s].alone =>
         \A i \in 1..Len(Plan(job[s].op)) :
            LET f == Plan(job[s].op)[i] IN MayLeave(job[s], f, cur'[f])
    BY <1>1, <1>2
<1>3. QED
    BY <1>2, StoreTypes, SaveInvariant, PTL DEF StoreSpec, AnsweredInPlace
=============================================================================
