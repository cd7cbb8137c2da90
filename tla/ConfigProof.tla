----------------------------- MODULE ConfigProof -----------------------------
(***************************************************************************)
(* Theorems about the configuration as it is read and saved: the walk over *)
(* included files (ConfigSources), for all files and whatever they hold,   *)
(* and the managed block of smartdns.conf (ConfigPages), for all settings, *)
(* rules and lines of the administrator.                                   *)
(***************************************************************************)
EXTENDS ConfigSources, ConfigPages, FiniteSetTheorems, FunctionTheorems,
        SequenceTheorems, WellFoundedInduction, TLAPS

-----------------------------------------------------------------------------
(* Facts about sequences                                                   *)

\* A non-empty set of natural numbers has a least member.
LEMMA LeastIn ==
    ASSUME NEW T \in SUBSET Nat, T # {}
    PROVE  \E x \in T : \A y \in T : x <= y
<1>1. PICK x \in T : \A y \in T : ~(<<y, x>> \in OpToRel(<, Nat))
    BY WFMin, NatLessThanWellFounded
<1>2. \A y \in T : ~(y < x)
    BY <1>1 DEF OpToRel
<1>3. ASSUME NEW y \in T PROVE x <= y
  <2>1. x \in Nat /\ y \in Nat /\ ~(y < x)
      BY <1>2
  <2>2. QED
      BY <2>1
<1>4. QED
    BY <1>3

-----------------------------------------------------------------------------
(* The inductive invariant of the walk                                     *)

\* An activation: a file, and the next line of it.
CallSet == [path : Paths, at : Nat \ {0}]

\* The state of the walk: the files do not change, each call reads one of
\* them, and what was visited are the sources.
SourcesType ==
    /\ files \in Trees
    /\ calls \in Seq(CallSet)
    /\ sources \in Seq(visited)
    /\ visited = ToSet(sources)
    /\ \A s \in visited : s.path \in Paths

\* A call is made for a source.
CallsAreSources ==
    \A k \in DOMAIN calls : \E j \in DOMAIN sources : sources[j].path = calls[k].path

\* What a call has read so far includes nothing that is not a source.
ReadSoFar ==
    \A k \in DOMAIN calls : \A i \in DOMAIN files[calls[k].path] :
        i < calls[k].at /\ Follows(calls[k].path, files[calls[k].path][i])
        => Included(calls[k].path, files[calls[k].path][i]) \in visited

\* A source is being read, or all that it includes is a source: the part of
\* SourcesExact that holds before the end too.
OpenOrRead ==
    \A s \in visited :
        \/ \E k \in DOMAIN calls : calls[k].path = s.path
        \/ IncludedBy(s) \subseteq visited

\* Each source but the first is included by an earlier one.
FromEarlier ==
    \A i \in 2..Len(sources) : \E j \in 1..(i - 1) : sources[i] \in IncludedBy(sources[j])

StartsAtMain == sources # <<>> /\ sources[1] = Source(Main, <<>>)

WalkInv ==
    /\ SourcesType /\ StartsAtMain /\ IsInjective(sources)
    /\ CallsAreSources /\ ReadSoFar /\ OpenOrRead /\ FromEarlier
    /\ Len(calls) <= Len(sources)

-----------------------------------------------------------------------------
(* The walk keeps its invariant                                            *)

\* The files are files, and what they hold are sequences of lines.
LEMMA FilesAreTexts ==
    ASSUME SourcesType, NEW p \in Paths
    PROVE  files[p] \in Seq(ToSet(files[p]))
BY SourcesAssumption DEF SourcesType

\* What a line includes is a file.
LEMMA IncludedIsFile ==
    ASSUME NEW p \in Paths, NEW l, Follows(p, l)
    PROVE  Included(p, l).path \in Paths
BY SourcesAssumption DEF Follows, Included, Source

\* The call that runs is the last one.
LEMMA RunningCall ==
    ASSUME SourcesType, calls # <<>>
    PROVE  /\ Len(calls) \in Nat \ {0} /\ DOMAIN calls = 1..Len(calls)
           /\ Running = calls[Len(calls)] /\ Running \in CallSet
           /\ Running.path \in Paths /\ Running.at \in Nat \ {0}
<1>1. calls \in Seq(CallSet)
    BY DEF SourcesType
<1>2. Len(calls) \in Nat \ {0} /\ DOMAIN calls = 1..Len(calls)
    BY <1>1
<1>3. Running = calls[Len(calls)]
    BY <1>1, <1>2 DEF Running, Last
<1>4. Running \in CallSet
    BY <1>1, <1>2, <1>3, ElementOfSeq
<1>5. QED
    BY <1>2, <1>3, <1>4 DEF CallSet

\* The same calls, when the last one goes on to its next line.
LEMMA NextLineCalls ==
    ASSUME SourcesType, calls # <<>>
    PROVE  /\ NextLine \in Seq(CallSet)
           /\ Len(NextLine) = Len(calls) /\ DOMAIN NextLine = DOMAIN calls
           /\ \A k \in DOMAIN calls :
                /\ NextLine[k].path = calls[k].path
                /\ NextLine[k].at = IF k = Len(calls) THEN calls[k].at + 1 ELSE calls[k].at
<1> DEFINE c == [Running EXCEPT !.at = @ + 1]
<1>1. /\ calls \in Seq(CallSet)
      /\ Len(calls) \in Nat \ {0} /\ DOMAIN calls = 1..Len(calls)
    BY RunningCall DEF SourcesType
<1>2. c \in CallSet /\ c.path = Running.path /\ c.at = Running.at + 1
    BY RunningCall DEF CallSet
<1>3. NextLine = [calls EXCEPT ![Len(calls)] = c]
    BY RunningCall DEF NextLine
<1> HIDE DEF c
<1>4. NextLine \in Seq(CallSet) /\ Len(NextLine) = Len(calls) /\ DOMAIN NextLine = DOMAIN calls
    BY <1>1, <1>2, <1>3, ExceptSeq
<1>5. ASSUME NEW k \in DOMAIN calls
      PROVE  /\ NextLine[k].path = calls[k].path
             /\ NextLine[k].at = IF k = Len(calls) THEN calls[k].at + 1 ELSE calls[k].at
  <2>1. CASE k = Len(calls)
    <3>1. NextLine[k] = c /\ calls[k] = Running
        BY <1>1, <1>3, <2>1, RunningCall
    <3>2. QED
        BY <1>2, <2>1, <3>1
  <2>2. CASE k # Len(calls)
      BY <1>1, <1>3, <1>5, <2>2
  <2>3. QED
      BY <2>1, <2>2
<1>6. QED
    BY <1>4, <1>5

\* The walk starts with a call for smartdns.conf, the only source.
LEMMA WalkInit == SourcesInit => WalkInv
<1> SUFFICES ASSUME SourcesInit PROVE WalkInv
    OBVIOUS
<1> DEFINE m == Source(Main, <<>>)
<1>1. /\ files \in Trees /\ calls = <<[path |-> Main, at |-> 1]>>
      /\ visited = {m} /\ sources = <<m>> /\ m.path = Main /\ Main \in Paths
    BY SourcesAssumption DEF SourcesInit, Call, Source
<1> HIDE DEF m
<1>2. calls[1] = [path |-> Main, at |-> 1] /\ DOMAIN calls = {1} /\ Len(calls) = 1
    BY <1>1
<1>3. sources[1] = m /\ DOMAIN sources = {1} /\ Len(sources) = 1
    BY <1>1
<1>c. [path |-> Main, at |-> 1] \in CallSet
    BY <1>1 DEF CallSet
<1>4. SourcesType
    BY <1>1, <1>2, <1>3, <1>c DEF SourcesType, ToSet
<1>5. StartsAtMain /\ IsInjective(sources) /\ Len(calls) <= Len(sources)
    BY <1>1, <1>2, <1>3 DEF StartsAtMain, IsInjective, m
<1>6. CallsAreSources /\ OpenOrRead
    BY <1>1, <1>2, <1>3 DEF CallsAreSources, OpenOrRead
<1>7. ReadSoFar
  <2>1. \A i \in DOMAIN files[Main] : ~(i < 1)
      BY <1>1, <1>4, FilesAreTexts
  <2>2. QED
      BY <1>2, <2>1 DEF ReadSoFar
<1>8. FromEarlier
    BY <1>3 DEF FromEarlier
<1>9. QED
    BY <1>4, <1>5, <1>6, <1>7, <1>8 DEF WalkInv

\* A file that is followed becomes the last source, and a call of its own.
LEMMA FollowKeeps ==
    ASSUME WalkInv, calls # <<>>, Running.at \in DOMAIN files[Running.path],
           Follow(files[Running.path][Running.at]), UNCHANGED files
    PROVE  WalkInv'
<1> DEFINE p == Running.path
           l == files[p][Running.at]
           new == Included(p, l)
           n == Len(calls)
           m == Len(sources)
<1>1. /\ SourcesType /\ StartsAtMain /\ IsInjective(sources)
      /\ CallsAreSources /\ ReadSoFar /\ OpenOrRead /\ FromEarlier
      /\ Len(calls) <= Len(sources)
    BY DEF WalkInv
<1>2. /\ Follows(p, l) /\ new \notin visited
      /\ calls' = Append(NextLine, Call(new.path))
      /\ visited' = visited \cup {new}
      /\ sources' = Append(sources, new)
      /\ files' = files
    BY DEF Follow, VisitKey
<1>3. /\ n \in Nat \ {0} /\ DOMAIN calls = 1..n
      /\ Running = calls[n] /\ p \in Paths /\ Running.at \in Nat \ {0}
    BY <1>1, RunningCall
<1>4. new.path \in Paths /\ Call(new.path) \in CallSet
  <2>1. new.path \in Paths
      BY <1>2, <1>3, IncludedIsFile
  <2>2. QED
      BY <2>1 DEF Call, CallSet
<1>5. /\ calls' \in Seq(CallSet) /\ Len(calls') = n + 1 /\ DOMAIN calls' = 1..(n + 1)
      /\ \A k \in 1..n : /\ calls'[k].path = calls[k].path
                         /\ calls'[k].at = IF k = n THEN calls[k].at + 1 ELSE calls[k].at
      /\ calls'[n + 1] = Call(new.path)
  <2>1. /\ NextLine \in Seq(CallSet) /\ Len(NextLine) = n
        /\ \A k \in 1..n :
             /\ NextLine[k].path = calls[k].path
             /\ NextLine[k].at = IF k = n THEN calls[k].at + 1 ELSE calls[k].at
      BY <1>1, <1>3, NextLineCalls
  <2>2. /\ Append(NextLine, Call(new.path)) \in Seq(CallSet)
        /\ Len(Append(NextLine, Call(new.path))) = n + 1
        /\ \A k \in 1..n : Append(NextLine, Call(new.path))[k] = NextLine[k]
        /\ Append(NextLine, Call(new.path))[n + 1] = Call(new.path)
      BY <1>4, <2>1, AppendProperties
  <2>3. DOMAIN calls' = 1..(n + 1)
    <3>1. calls' \in Seq(CallSet) /\ Len(calls') = n + 1
        BY <1>2, <2>2
    <3>2. QED
        BY <3>1
  <2>4. QED
      BY <1>2, <2>1, <2>2, <2>3
<1>6. /\ m \in Nat /\ DOMAIN sources = 1..m /\ sources \in Seq(visited')
      /\ \A i \in 1..m : sources[i] \in visited
    BY <1>1, <1>2 DEF SourcesType
<1>7. /\ sources' \in Seq(visited') /\ Len(sources') = m + 1 /\ DOMAIN sources' = 1..(m + 1)
      /\ \A i \in 1..m : sources'[i] = sources[i]
      /\ sources'[m + 1] = new
    BY <1>2, <1>6
<1> HIDE DEF new, l, p, n, m
<1>8. SourcesType'
  <2>1. visited' = ToSet(sources')
    <3>1. ASSUME NEW s \in visited PROVE s \in ToSet(sources')
      <4>1. PICK i \in 1..m : sources[i] = s
          BY <1>1, <1>6, <3>1 DEF SourcesType, ToSet
      <4>2. QED
          BY <1>7, <1>6, <4>1 DEF ToSet
    <3>2. new \in ToSet(sources')
        BY <1>6, <1>7 DEF ToSet
    <3>3. ToSet(sources') \subseteq visited'
        BY <1>7 DEF ToSet
    <3>4. QED
        BY <1>2, <3>1, <3>2, <3>3
  <2>2. \A s \in visited' : s.path \in Paths
      BY <1>1, <1>2, <1>4 DEF SourcesType
  <2>3. QED
      BY <1>1, <1>2, <1>5, <1>7, <2>1, <2>2 DEF SourcesType
<1>9. StartsAtMain'
  <2>1. sources # <<>> /\ sources[1] = Source(Main, <<>>)
      BY <1>1 DEF StartsAtMain
  <2>2. 1 \in 1..m
      BY <1>1, <1>6, <2>1 DEF SourcesType, m
  <2>3. sources' # <<>>
      BY <1>2, <1>6, <1>7
  <2>4. QED
      BY <1>7, <2>1, <2>2, <2>3 DEF StartsAtMain
<1>10. IsInjective(sources')
  <2>1. ASSUME NEW i \in 1..(m + 1), NEW j \in 1..(m + 1), sources'[i] = sources'[j]
        PROVE  i = j
    <3>1. CASE i \in 1..m /\ j \in 1..m
        BY <1>1, <1>6, <1>7, <2>1, <3>1 DEF IsInjective
    <3>2. CASE i \in 1..m /\ j = m + 1
        BY <1>2, <1>6, <1>7, <2>1, <3>2
    <3>3. CASE j \in 1..m /\ i = m + 1
        BY <1>2, <1>6, <1>7, <2>1, <3>3
    <3>4. QED
        BY <1>6, <3>1, <3>2, <3>3
  <2>2. QED
      BY <1>7, <2>1 DEF IsInjective
<1>11. CallsAreSources'
  <2>1. ASSUME NEW k \in 1..(n + 1)
        PROVE  \E j \in DOMAIN sources' : sources'[j].path = calls'[k].path
    <3>1. CASE k = n + 1
      <4>1. calls'[k].path = new.path
          BY <1>5, <3>1 DEF Call
      <4>2. m + 1 \in DOMAIN sources'
          BY <1>6, <1>7
      <4>3. QED
          BY <1>7, <4>1, <4>2
    <3>2. CASE k \in 1..n
      <4>1. PICK j \in 1..m : sources[j].path = calls[k].path
          BY <1>1, <1>3, <1>6, <3>2 DEF CallsAreSources
      <4>2. j \in DOMAIN sources'
          BY <1>6, <1>7
      <4>3. QED
          BY <1>5, <1>7, <3>2, <4>1, <4>2
    <3>3. QED
        BY <1>3, <3>1, <3>2
  <2>2. QED
      BY <1>5, <2>1 DEF CallsAreSources
<1>12. ReadSoFar'
  <2>1. ASSUME NEW k \in 1..(n + 1), NEW i \in DOMAIN files[calls'[k].path],
               i < calls'[k].at, Follows(calls'[k].path, files[calls'[k].path][i])
        PROVE  Included(calls'[k].path, files[calls'[k].path][i]) \in visited'
    <3>1. CASE k = n + 1
      <4>1. calls'[k].at = 1 /\ calls'[k].path = new.path
          BY <1>5, <3>1 DEF Call
      <4>2. files[new.path] \in Seq(ToSet(files[new.path]))
          BY <1>1, <1>4, FilesAreTexts
      <4>3. QED
          BY <2>1, <4>1, <4>2
    <3>2. CASE k \in 1..n
      <4>1. k \in DOMAIN calls /\ calls'[k].path = calls[k].path
          BY <1>3, <1>5, <3>2
      <4>2. CASE i < calls[k].at
          BY <1>1, <1>2, <2>1, <4>1, <4>2 DEF ReadSoFar
      <4>3. CASE ~(i < calls[k].at)
        <5>1. k = n
            BY <1>5, <2>1, <3>2, <4>3
        <5>2. calls[k].path = p /\ calls[k].at = Running.at /\ calls'[k].at = Running.at + 1
            BY <1>3, <1>5, <3>2, <5>1 DEF p
        <5>3. files[p] \in Seq(ToSet(files[p]))
            BY <1>1, <1>3, FilesAreTexts
        <5>4. i \in Nat
            BY <2>1, <4>1, <5>2, <5>3
        <5>5. i = Running.at
            BY <1>3, <2>1, <4>3, <5>2, <5>4
        <5>6. QED
            BY <1>2, <4>1, <5>2, <5>5 DEF new, l
      <4>4. QED
          BY <4>2, <4>3
    <3>3. QED
        BY <1>3, <3>1, <3>2
  <2>2. QED
      BY <1>2, <1>5, <2>1 DEF ReadSoFar
<1>13. OpenOrRead'
  <2>1. ASSUME NEW s \in visited'
        PROVE  \/ \E k \in DOMAIN calls' : calls'[k].path = s.path
               \/ IncludedBy(s) \subseteq visited'
    <3>1. CASE s = new
      <4>1. n + 1 \in DOMAIN calls' /\ calls'[n + 1].path = s.path
          BY <1>3, <1>5, <3>1 DEF Call
      <4>2. QED
          BY <4>1
    <3>2. CASE s \in visited
      <4>1. CASE \E k \in DOMAIN calls : calls[k].path = s.path
        <5>1. PICK k \in 1..n : calls[k].path = s.path
            BY <1>3, <4>1
        <5>2. k \in DOMAIN calls' /\ calls'[k].path = s.path
            BY <1>3, <1>5, <5>1
        <5>3. QED
            BY <5>2
      <4>2. CASE IncludedBy(s) \subseteq visited
          BY <1>2, <4>2
      <4>3. QED
          BY <1>1, <3>2, <4>1, <4>2 DEF OpenOrRead
    <3>3. QED
        BY <1>2, <2>1, <3>1, <3>2
  <2>2. \A s : IncludedBy(s)' = IncludedBy(s)
      BY <1>2 DEF IncludedBy
  <2>3. QED
      BY <2>1, <2>2 DEF OpenOrRead
<1>14. FromEarlier'
  <2>1. \A s : IncludedBy(s)' = IncludedBy(s)
      BY <1>2 DEF IncludedBy
  <2>2. ASSUME NEW i \in 2..(m + 1)
        PROVE  \E j \in 1..(i - 1) : sources'[i] \in IncludedBy(sources'[j])
    <3>1. CASE i \in 2..m
      <4>1. PICK j \in 1..(i - 1) : sources[i] \in IncludedBy(sources[j])
          BY <1>1, <3>1 DEF FromEarlier, m
      <4>2. sources'[i] = sources[i] /\ sources'[j] = sources[j]
          BY <1>6, <1>7, <3>1, <4>1
      <4>3. QED
          BY <4>1, <4>2
    <3>2. CASE i = m + 1
      <4>1. PICK j \in 1..m : sources[j].path = p
        <5>1. n \in DOMAIN calls /\ calls[n].path = p
            BY <1>3 DEF p
        <5>2. QED
            BY <1>1, <1>6, <5>1 DEF CallsAreSources
      <4>2. new \in IncludedBy(sources[j])
          BY <1>2, <4>1 DEF IncludedBy, new, l, p
      <4>3. j \in 1..(i - 1) /\ sources'[i] = new /\ sources'[j] = sources[j]
          BY <1>6, <1>7, <3>2, <4>1
      <4>4. QED
          BY <4>2, <4>3
    <3>3. QED
        BY <1>6, <2>2, <3>1, <3>2
  <2>3. QED
      BY <1>7, <2>1, <2>2 DEF FromEarlier
<1>15. Len(calls') <= Len(sources')
    BY <1>1, <1>3, <1>5, <1>6, <1>7 DEF n, m
<1>16. QED
    BY <1>8, <1>9, <1>10, <1>11, <1>12, <1>13, <1>14, <1>15 DEF WalkInv

\* A line that is passed over includes nothing, or a file that was read.
LEMMA PassKeeps ==
    ASSUME WalkInv, calls # <<>>, Running.at \in DOMAIN files[Running.path],
           Pass(files[Running.path][Running.at]), UNCHANGED files
    PROVE  WalkInv'
<1> DEFINE p == Running.path
           n == Len(calls)
<1>1. /\ SourcesType /\ StartsAtMain /\ IsInjective(sources)
      /\ CallsAreSources /\ ReadSoFar /\ OpenOrRead /\ FromEarlier
      /\ Len(calls) <= Len(sources)
    BY DEF WalkInv
<1>2. /\ Follows(p, files[p][Running.at]) => Included(p, files[p][Running.at]) \in visited
      /\ calls' = NextLine /\ visited' = visited /\ sources' = sources /\ files' = files
    BY DEF Pass, VisitKey
<1>3. /\ n \in Nat \ {0} /\ DOMAIN calls = 1..n
      /\ Running = calls[n] /\ p \in Paths /\ Running.at \in Nat \ {0}
    BY <1>1, RunningCall
<1>4. /\ calls' \in Seq(CallSet) /\ Len(calls') = n /\ DOMAIN calls' = DOMAIN calls
      /\ \A k \in 1..n : /\ calls'[k].path = calls[k].path
                         /\ calls'[k].at = IF k = n THEN calls[k].at + 1 ELSE calls[k].at
    BY <1>1, <1>2, <1>3, NextLineCalls
<1>5. \A s : IncludedBy(s)' = IncludedBy(s)
    BY <1>2 DEF IncludedBy
<1> HIDE DEF p, n
<1>6. SourcesType' /\ StartsAtMain' /\ IsInjective(sources)' /\ FromEarlier'
    BY <1>1, <1>2, <1>4, <1>5 DEF SourcesType, StartsAtMain, FromEarlier
<1>7. CallsAreSources'
    BY <1>1, <1>2, <1>3, <1>4 DEF CallsAreSources
<1>8. OpenOrRead'
    BY <1>1, <1>2, <1>3, <1>4, <1>5 DEF OpenOrRead
<1>9. ReadSoFar'
  <2>1. ASSUME NEW k \in 1..n, NEW i \in DOMAIN files[calls'[k].path],
               i < calls'[k].at, Follows(calls'[k].path, files[calls'[k].path][i])
        PROVE  Included(calls'[k].path, files[calls'[k].path][i]) \in visited
    <3>1. k \in DOMAIN calls /\ calls'[k].path = calls[k].path
        BY <1>3, <1>4, <2>1
    <3>2. CASE i < calls[k].at
        BY <1>1, <2>1, <3>1, <3>2 DEF ReadSoFar
    <3>3. CASE ~(i < calls[k].at)
      <4>1. k = n
          BY <1>4, <2>1, <3>3
      <4>2. calls[k].path = p /\ calls[k].at = Running.at /\ calls'[k].at = Running.at + 1
          BY <1>3, <1>4, <4>1 DEF p
      <4>3. files[p] \in Seq(ToSet(files[p]))
          BY <1>1, <1>3, FilesAreTexts
      <4>4. i \in Nat
          BY <2>1, <3>1, <4>2, <4>3
      <4>5. i = Running.at
          BY <1>3, <2>1, <3>3, <4>2, <4>4
      <4>6. QED
          BY <1>2, <2>1, <3>1, <4>2, <4>5
    <3>4. QED
        BY <3>2, <3>3
  <2>2. QED
      BY <1>2, <1>3, <1>4, <2>1 DEF ReadSoFar
<1>10. Len(calls') <= Len(sources')
    BY <1>1, <1>2, <1>4 DEF n
<1>11. QED
    BY <1>6, <1>7, <1>8, <1>9, <1>10 DEF WalkInv

\* A call returns when its file is read: all that the file includes is a source.
LEMMA ReturnKeeps ==
    ASSUME WalkInv, Return
    PROVE  WalkInv'
<1> DEFINE p == Running.path
           n == Len(calls)
<1>1. /\ SourcesType /\ StartsAtMain /\ IsInjective(sources)
      /\ CallsAreSources /\ ReadSoFar /\ OpenOrRead /\ FromEarlier
      /\ Len(calls) <= Len(sources)
    BY DEF WalkInv
<1>2. /\ calls # <<>> /\ Running.at \notin DOMAIN files[p]
      /\ calls' = Front(calls) /\ visited' = visited /\ sources' = sources /\ files' = files
    BY DEF Return
<1>3. /\ n \in Nat \ {0} /\ DOMAIN calls = 1..n /\ calls \in Seq(CallSet)
      /\ Running = calls[n] /\ p \in Paths /\ Running.at \in Nat \ {0}
    BY <1>1, <1>2, RunningCall DEF SourcesType
<1>4. /\ calls' \in Seq(CallSet) /\ Len(calls') = n - 1 /\ DOMAIN calls' = 1..(n - 1)
      /\ \A k \in 1..(n - 1) : calls'[k] = calls[k]
  <2>1. calls' = SubSeq(calls, 1, n - 1)
      BY <1>2 DEF Front
  <2>2. QED
      BY <1>3, <2>1, SubSeqProperties
<1>5. \A s : IncludedBy(s)' = IncludedBy(s)
    BY <1>2 DEF IncludedBy
<1>6. \A s : s.path = p => IncludedBy(s) \subseteq visited
  <2>1. files[p] \in Seq(ToSet(files[p]))
      BY <1>1, <1>3, FilesAreTexts
  <2>2. ASSUME NEW i \in DOMAIN files[p]
        PROVE  i < Running.at
    <3>1. DOMAIN files[p] = 1..Len(files[p]) /\ Len(files[p]) \in Nat
        BY <2>1
    <3>2. QED
        BY <1>2, <1>3, <2>2, <3>1
  <2>3. n \in DOMAIN calls /\ calls[n].path = p /\ calls[n].at = Running.at
      BY <1>3
  <2>4. \A i \in DOMAIN files[p] : Follows(p, files[p][i]) => Included(p, files[p][i]) \in visited
      BY <1>1, <2>2, <2>3 DEF ReadSoFar
  <2>5. QED
      BY <2>4 DEF IncludedBy
<1> HIDE DEF p, n
<1>7. SourcesType' /\ StartsAtMain' /\ IsInjective(sources)' /\ FromEarlier'
    BY <1>1, <1>2, <1>4, <1>5 DEF SourcesType, StartsAtMain, FromEarlier
<1>8. CallsAreSources'
  <2>1. ASSUME NEW k \in DOMAIN calls'
        PROVE  k \in DOMAIN calls /\ calls'[k] = calls[k]
      BY <1>3, <1>4
  <2>2. QED
      BY <1>1, <1>2, <2>1 DEF CallsAreSources
<1>9. ReadSoFar'
  <2>1. ASSUME NEW k \in DOMAIN calls'
        PROVE  k \in DOMAIN calls /\ calls'[k] = calls[k]
      BY <1>3, <1>4
  <2>2. QED
      BY <1>1, <1>2, <2>1 DEF ReadSoFar
<1>10. OpenOrRead'
  <2>1. ASSUME NEW s \in visited
        PROVE  \/ \E k \in DOMAIN calls' : calls'[k].path = s.path
               \/ IncludedBy(s) \subseteq visited
    <3>1. CASE \E k \in DOMAIN calls : calls[k].path = s.path
      <4>1. PICK k \in 1..n : calls[k].path = s.path
          BY <1>3, <3>1
      <4>2. CASE k = n
          BY <1>3, <1>6, <4>1, <4>2 DEF p
      <4>3. CASE k # n
        <5>1. k \in DOMAIN calls' /\ calls'[k] = calls[k]
            BY <1>3, <1>4, <4>3
        <5>2. QED
            BY <4>1, <5>1
      <4>4. QED
          BY <4>2, <4>3
    <3>2. QED
        BY <1>1, <2>1, <3>1 DEF OpenOrRead
  <2>2. QED
      BY <1>2, <1>5, <2>1 DEF OpenOrRead
<1>11. Len(calls') <= Len(sources')
  <2>1. Len(sources) \in Nat
      BY <1>1 DEF SourcesType
  <2>2. QED
      BY <1>1, <1>2, <1>3, <1>4, <2>1 DEF n
<1>12. QED
    BY <1>7, <1>8, <1>9, <1>10, <1>11 DEF WalkInv

\* The invariant holds throughout the walk.
THEOREM SourcesInvariant == SourcesSpec => []WalkInv
<1>1. SourcesInit => WalkInv
    BY WalkInit
<1>2. WalkInv /\ [SourcesNext]_sourcesVars => WalkInv'
  <2>1. SUFFICES ASSUME WalkInv, [SourcesNext]_sourcesVars PROVE WalkInv'
      OBVIOUS
  <2>2. CASE ReadLine
      BY <2>1, <2>2, FollowKeeps, PassKeeps DEF ReadLine
  <2>3. CASE Return
      BY <2>1, <2>3, ReturnKeeps
  <2>4. CASE UNCHANGED sourcesVars
    <3>1. \A s : IncludedBy(s)' = IncludedBy(s)
        BY <2>4 DEF IncludedBy, sourcesVars
    <3>2. QED
        BY <2>1, <2>4, <3>1 DEF WalkInv, SourcesType, StartsAtMain, CallsAreSources, ReadSoFar,
               OpenOrRead, FromEarlier, sourcesVars
  <2>5. QED
      BY <2>1, <2>2, <2>3, <2>4 DEF SourcesNext
<1>3. QED
    BY <1>1, <1>2, PTL DEF SourcesSpec

\* collect_config_sources reads exactly what the configuration includes, each
\* file once for each group it is included with, however the files include
\* each other, and themselves.
THEOREM SourcesAreExact == SourcesSpec => []SourcesExact
<1>1. WalkInv => SourcesExact
  <2> SUFFICES ASSUME WalkInv PROVE SourcesExact
      OBVIOUS
  <2>1. sources # <<>> /\ sources[1] = Source(Main, <<>>) /\ IsInjective(sources)
      BY DEF WalkInv, StartsAtMain
  <2>2. ASSUME Done, NEW s \in ToSet(sources)
        PROVE  IncludedBy(s) \subseteq ToSet(sources)
    <3>1. s \in visited /\ visited = ToSet(sources)
        BY <2>2 DEF WalkInv, SourcesType
    <3>2. \A k \in DOMAIN calls : FALSE
        BY <2>2 DEF Done
    <3>3. QED
        BY <3>1, <3>2 DEF WalkInv, OpenOrRead
  <2>3. FromEarlier
      BY DEF WalkInv
  <2>4. QED
      BY <2>1, <2>2, <2>3 DEF SourcesExact, FromEarlier
<1>2. QED
    BY <1>1, SourcesInvariant, PTL

-----------------------------------------------------------------------------
(* What the walk reads, and why it ends                                    *)

\* A set of sources that has smartdns.conf, and with a source all it includes.
Closed(R) == Source(Main, <<>>) \in R /\ \A s \in R : IncludedBy(s) \subseteq R

\* What is read is in every closed set, and in the end is one itself.
ReadsReachable ==
    /\ \A R : Closed(R) => ToSet(sources) \subseteq R
    /\ Done => Closed(ToSet(sources))

\* collect_config_sources reads the files that smartdns.conf includes,
\* directly or through others, and nothing else: the sources are the least set
\* that has smartdns.conf and is closed under inclusion.
THEOREM SourcesAreReachable == SourcesSpec => []ReadsReachable
<1>1. WalkInv => ReadsReachable
  <2> SUFFICES ASSUME WalkInv PROVE ReadsReachable
      OBVIOUS
  <2>1. /\ SourcesType /\ StartsAtMain /\ FromEarlier /\ OpenOrRead
        /\ Len(sources) \in Nat /\ DOMAIN sources = 1..Len(sources)
      BY DEF WalkInv, SourcesType
  <2>2. ASSUME NEW R, Closed(R), NEW t \in ToSet(sources), t \notin R
        PROVE  FALSE
    <3> DEFINE Out == {i \in 1..Len(sources) : sources[i] \notin R}
    <3>1. Out # {} /\ Out \in SUBSET Nat
        BY <2>1, <2>2 DEF ToSet
    <3>2. PICK i \in Out : \A k \in Out : i <= k
        BY <3>1, LeastIn
    <3>3. i \in 1..Len(sources) /\ sources[i] \notin R
        BY <3>2
    <3>4. i # 1
        BY <2>1, <2>2, <3>3 DEF StartsAtMain, Closed
    <3>5. PICK j \in 1..(i - 1) : sources[i] \in IncludedBy(sources[j])
        BY <2>1, <3>3, <3>4 DEF FromEarlier
    <3>6. j \notin Out /\ j \in 1..Len(sources)
        BY <2>1, <3>2, <3>3, <3>5
    <3>7. sources[j] \in R
        BY <3>6
    <3>8. QED
        BY <2>2, <3>3, <3>5, <3>7 DEF Closed
  <2>3. ASSUME Done PROVE Closed(ToSet(sources))
    <3>1. visited = ToSet(sources) /\ Source(Main, <<>>) \in ToSet(sources)
      <4>1. sources[1] = Source(Main, <<>>) /\ 1 \in DOMAIN sources
          BY <2>1 DEF StartsAtMain
      <4>2. QED
          BY <2>1, <4>1 DEF SourcesType, ToSet
    <3>2. \A k \in DOMAIN calls : FALSE
        BY <2>3 DEF Done
    <3>3. QED
        BY <2>1, <3>1, <3>2 DEF OpenOrRead, Closed
  <2>4. QED
      BY <2>2, <2>3 DEF ReadsReachable
<1>2. QED
    BY <1>1, SourcesInvariant, PTL

\* Everything that some file includes, and smartdns.conf.
AllSources == {Source(Main, <<>>)} \cup UNION {IncludedBy(Call(p)) : p \in Paths}

\* There are finitely many sources.
LEMMA AllSourcesFinite ==
    ASSUME SourcesType
    PROVE  IsFiniteSet(AllSources)
<1>1. ASSUME NEW p \in Paths PROVE IsFiniteSet(IncludedBy(Call(p)))
  <2> DEFINE at == {i \in DOMAIN files[p] : Follows(p, files[p][i])}
             f == [i \in at |-> Included(p, files[p][i])]
             T == {Included(p, files[p][i]) : i \in at}
  <2>1. files[p] \in Seq(ToSet(files[p]))
      BY <1>1, FilesAreTexts
  <2>2. Len(files[p]) \in Nat /\ DOMAIN files[p] = 1..Len(files[p])
      BY <2>1
  <2>3. IsFiniteSet(at)
    <3> DEFINE m == Len(files[p])
    <3>m. m \in Int /\ 1 \in Int
        BY <2>2
    <3> HIDE DEF m
    <3>n. IsFiniteSet(1..m)
        BY <3>m, FS_Interval
    <3>1. IsFiniteSet(1..Len(files[p]))
        BY <3>n DEF m
    <3>2. at \in SUBSET (1..Len(files[p]))
        BY <2>2
    <3>3. QED
        BY <3>1, <3>2, FS_Subset
  <2>4. f \in Surjection(at, T)
      BY DEF Surjection
  <2>5. IsFiniteSet(T)
      BY <2>3, <2>4, FS_Surjection
  <2>6. IncludedBy(Call(p)) = T
      BY DEF IncludedBy, Call
  <2>7. QED
      BY <2>5, <2>6
<1> DEFINE U == {IncludedBy(Call(p)) : p \in Paths}
<1>2. IsFiniteSet(U)
  <2> DEFINE g == [p \in Paths |-> IncludedBy(Call(p))]
  <2>1. g \in Surjection(Paths, U)
      BY DEF Surjection
  <2>2. QED
      BY <2>1, SourcesAssumption, FS_Surjection
<1>3. \A T \in U : IsFiniteSet(T)
    BY <1>1
<1> HIDE DEF U
<1>4. IsFiniteSet(UNION U)
    BY <1>2, <1>3, FS_UNION
<1>5. IsFiniteSet({Source(Main, <<>>)})
    BY FS_Singleton
<1>6. QED
    BY <1>4, <1>5, FS_Union DEF AllSources, U

\* What is read is among them, each source once.
LEMMA SourcesBounded ==
    ASSUME WalkInv
    PROVE  /\ Cardinality(AllSources) \in Nat /\ Len(sources) \in Nat /\ Len(calls) \in Nat
           /\ Len(calls) <= Len(sources) /\ Len(sources) <= Cardinality(AllSources)
<1>1. /\ SourcesType /\ StartsAtMain /\ FromEarlier /\ IsInjective(sources)
      /\ Len(calls) <= Len(sources)
      /\ Len(sources) \in Nat /\ DOMAIN sources = 1..Len(sources)
      /\ Len(calls) \in Nat
    BY DEF WalkInv, SourcesType
<1>2. IsFiniteSet(AllSources) /\ Cardinality(AllSources) \in Nat
    BY <1>1, AllSourcesFinite, FS_CardinalityType
<1>3. ASSUME NEW i \in 1..Len(sources) PROVE sources[i] \in AllSources
  <2>1. CASE i = 1
      BY <1>1, <2>1 DEF StartsAtMain, AllSources
  <2>2. CASE i # 1
    <3>1. PICK j \in 1..(i - 1) : sources[i] \in IncludedBy(sources[j])
        BY <1>1, <2>2 DEF FromEarlier
    <3>2. j \in DOMAIN sources
        BY <1>1, <3>1
    <3>3. sources[j].path \in Paths
        BY <1>1, <3>2 DEF SourcesType, ToSet
    <3>4. IncludedBy(sources[j]) = IncludedBy(Call(sources[j].path))
        BY DEF IncludedBy, Call
    <3>5. QED
        BY <3>1, <3>3, <3>4 DEF AllSources
  <2>3. QED
      BY <2>1, <2>2
<1>4. sources \in Injection(1..Len(sources), AllSources)
    BY <1>1, <1>3 DEF Injection, SourcesType
<1>5. Cardinality(1..Len(sources)) <= Cardinality(AllSources)
    BY <1>2, <1>4, FS_Injection
<1>6. Cardinality(1..Len(sources)) = Len(sources)
  <2> DEFINE m == Len(sources)
  <2>1. m \in Int /\ 1 \in Int /\ m >= 0
      BY <1>1
  <2> HIDE DEF m
  <2>2. Cardinality(1..m) = IF 1 > m THEN 0 ELSE m - 1 + 1
      BY <2>1, FS_Interval
  <2>3. Cardinality(1..m) = m
      BY <2>1, <2>2
  <2>4. QED
      BY <2>3 DEF m
<1>7. QED
    BY <1>1, <1>2, <1>5, <1>6

\* Room on the stack for one call more than there are sources is enough.
StackSuffices == Cardinality(AllSources) < MaxCalls => Len(calls) < MaxCalls

\* The recursion is never deeper than there are files and groups to include
\* them with: the bound on the stack does not cut the walk short.
THEOREM StackIsBounded == SourcesSpec => []StackSuffices
<1>1. WalkInv => StackSuffices
    BY SourcesBounded, SourcesAssumption DEF StackSuffices
<1>2. QED
    BY <1>1, SourcesInvariant, PTL

\* No call goes on beyond the end of its file.
InFile == \A k \in DOMAIN calls : calls[k].at <= Len(files[calls[k].path]) + 1

\* A step of the walk keeps every call within its file.
LEMMA InFileKept ==
    ASSUME WalkInv, InFile, SourcesNext
    PROVE  InFile'
<1> DEFINE n == Len(calls)
           p == Running.path
<1>1. SourcesType /\ calls # <<>> /\ files' = files
    BY DEF WalkInv, SourcesNext, ReadLine, Return
<1>2. /\ n \in Nat \ {0} /\ DOMAIN calls = 1..n /\ calls \in Seq(CallSet)
      /\ Running = calls[n] /\ p \in Paths /\ Running.at \in Nat \ {0}
    BY <1>1, RunningCall DEF SourcesType
<1>3. files[p] \in Seq(ToSet(files[p]))
    BY <1>1, <1>2, FilesAreTexts
<1>4. /\ NextLine \in Seq(CallSet) /\ Len(NextLine) = n /\ DOMAIN NextLine = 1..n
      /\ \A k \in 1..n : /\ NextLine[k].path = calls[k].path
                         /\ NextLine[k].at = IF k = n THEN calls[k].at + 1 ELSE calls[k].at
    BY <1>1, <1>2, NextLineCalls
<1>5. ASSUME Running.at \in DOMAIN files[p], NEW k \in 1..n
      PROVE  NextLine[k].at <= Len(files[NextLine[k].path]) + 1
  <2>1. CASE k = n
    <3>1. Running.at + 1 <= Len(files[p]) + 1
        BY <1>2, <1>3, <1>5
    <3>2. QED
        BY <1>2, <1>4, <2>1, <3>1
  <2>2. CASE k # n
      BY <1>2, <1>4, <1>5, <2>2 DEF InFile
  <2>3. QED
      BY <2>1, <2>2
<1>6. ASSUME NEW l, Follow(l), l = files[p][Running.at], Running.at \in DOMAIN files[p]
      PROVE  InFile'
  <2> DEFINE new == Included(p, l)
  <2>1. calls' = Append(NextLine, Call(new.path)) /\ new.path \in Paths
      BY <1>2, <1>6, IncludedIsFile DEF Follow
  <2> HIDE DEF new, n, p
  <2>2. Call(new.path) \in CallSet /\ Call(new.path).path = new.path /\ Call(new.path).at = 1
      BY <2>1 DEF Call, CallSet
  <2>3. /\ calls' \in Seq(CallSet) /\ Len(calls') = n + 1
        /\ \A k \in 1..n : calls'[k] = NextLine[k]
        /\ calls'[n + 1] = Call(new.path)
    <3>1. /\ Append(NextLine, Call(new.path)) \in Seq(CallSet)
          /\ Len(Append(NextLine, Call(new.path))) = n + 1
          /\ \A k \in 1..n : Append(NextLine, Call(new.path))[k] = NextLine[k]
          /\ Append(NextLine, Call(new.path))[n + 1] = Call(new.path)
        BY <1>4, <2>2, AppendProperties
    <3> DEFINE longer == Append(NextLine, Call(new.path))
    <3>2. calls' = longer
        BY <2>1
    <3> HIDE DEF longer
    <3>3. /\ longer \in Seq(CallSet) /\ Len(longer) = n + 1
          /\ \A k \in 1..n : longer[k] = NextLine[k]
          /\ longer[n + 1] = Call(new.path)
        BY <3>1 DEF longer
    <3>4. QED
        BY <3>2, <3>3
  <2>4. DOMAIN calls' = 1..(n + 1)
      BY <2>3
  <2>5. Len(files[new.path]) \in Nat
    <3>1. files[new.path] \in Seq(ToSet(files[new.path]))
        BY <1>1, <2>1, FilesAreTexts
    <3>2. QED
        BY <3>1
  <2>6. ASSUME NEW k \in 1..(n + 1) PROVE calls'[k].at <= Len(files[calls'[k].path]) + 1
    <3>1. CASE k = n + 1
        BY <2>2, <2>3, <2>5, <3>1
    <3>2. CASE k \in 1..n
        BY <1>5, <1>6, <2>3, <3>2
    <3>3. QED
        BY <1>2, <2>6, <3>1, <3>2
  <2>7. QED
      BY <1>1, <2>4, <2>6 DEF InFile
<1>7. ASSUME Pass(files[p][Running.at]), Running.at \in DOMAIN files[p]
      PROVE  InFile'
    BY <1>1, <1>4, <1>5, <1>7 DEF InFile, Pass
<1>8. ASSUME Return PROVE InFile'
  <2>1. calls' = SubSeq(calls, 1, n - 1)
      BY <1>8 DEF Return, Front
  <2>2. /\ DOMAIN calls' = 1..(n - 1)
        /\ \A k \in 1..(n - 1) : calls'[k] = calls[k] /\ k \in DOMAIN calls
      BY <1>2, <2>1, SubSeqProperties
  <2>3. QED
      BY <1>1, <2>2 DEF InFile
<1>9. QED
    BY <1>6, <1>7, <1>8 DEF SourcesNext, ReadLine

\* What is left to do: sources that can still be found, calls that have not
\* returned, and lines of the file that is being read.
Unread == Cardinality(AllSources) - Len(sources)
RestOfFile == IF calls = <<>> THEN 0 ELSE Len(files[Running.path]) + 1 - Running.at

\* Natural numbers, and the first that changes gets smaller.
Shrinks ==
    /\ Unread \in Nat /\ Len(calls) \in Nat /\ RestOfFile \in Nat
    /\ \/ Unread' < Unread
       \/ Unread' = Unread /\ Len(calls') < Len(calls)
       \/ Unread' = Unread /\ Len(calls') = Len(calls) /\ RestOfFile' < RestOfFile

\* What is left are natural numbers.
LEMMA LeftIsNat ==
    ASSUME WalkInv, InFile
    PROVE  Unread \in Nat /\ Len(calls) \in Nat /\ RestOfFile \in Nat
<1>1. Unread \in Nat /\ Len(calls) \in Nat
    BY SourcesBounded DEF Unread
<1>2. CASE calls = <<>>
    BY <1>1, <1>2 DEF RestOfFile
<1>3. CASE calls # <<>>
  <2>1. /\ Len(calls) \in DOMAIN calls /\ Running = calls[Len(calls)]
        /\ Running.path \in Paths /\ Running.at \in Nat \ {0}
      BY <1>3, RunningCall DEF WalkInv
  <2>2. Running.at <= Len(files[Running.path]) + 1
      BY <2>1 DEF InFile
  <2>3. files[Running.path] \in Seq(ToSet(files[Running.path]))
      BY <2>1, FilesAreTexts DEF WalkInv
  <2>4. Len(files[Running.path]) \in Nat
      BY <2>3
  <2>5. QED
      BY <1>1, <1>3, <2>1, <2>2, <2>4 DEF RestOfFile
<1>4. QED
    BY <1>2, <1>3

\* collect_config_sources comes to an end (WalkEnds, for a thread that runs
\* on): a step finds one of finitely many sources, or returns, or goes on to
\* the next line of a file; so that no chain of includes keeps it busy.
THEOREM WalkShrinks == SourcesSpec => [][Shrinks]_sourcesVars
<1>1. SourcesInit => InFile
  <2>1. ASSUME SourcesInit PROVE InFile
    <3>1. WalkInv /\ calls = <<[path |-> Main, at |-> 1]>>
        BY <2>1, WalkInit DEF SourcesInit, Call
    <3>2. files[Main] \in Seq(ToSet(files[Main]))
        BY <3>1, SourcesAssumption, FilesAreTexts DEF WalkInv
    <3>3. Len(files[Main]) \in Nat
        BY <3>2
    <3>4. QED
        BY <3>1, <3>3 DEF InFile
  <2>2. QED
      BY <2>1
<1>2. WalkInv /\ InFile /\ [SourcesNext]_sourcesVars => InFile'
    BY InFileKept DEF InFile, sourcesVars
<1>3. WalkInv /\ InFile /\ WalkInv' /\ InFile' /\ [SourcesNext]_sourcesVars
      => [Shrinks]_sourcesVars
  <2>1. SUFFICES ASSUME WalkInv, InFile, WalkInv', InFile', SourcesNext PROVE Shrinks
      BY DEF Shrinks
  <2>2. /\ Unread \in Nat /\ Len(calls) \in Nat /\ RestOfFile \in Nat
        /\ Cardinality(AllSources) \in Nat /\ Len(sources) \in Nat
      BY <2>1, LeftIsNat, SourcesBounded
  <2>3. /\ SourcesType /\ calls # <<>> /\ files' = files
        /\ AllSources' = AllSources
    <3>1. SourcesType /\ calls # <<>> /\ files' = files
        BY <2>1 DEF WalkInv, SourcesNext, ReadLine, Return
    <3>2. QED
        BY <3>1 DEF AllSources, IncludedBy
  <2>4. ASSUME NEW l, Follow(l) PROVE Unread' < Unread
    <3>1. Len(sources') = Len(sources) + 1
        BY <2>3, <2>4 DEF Follow, SourcesType
    <3>2. QED
        BY <2>2, <2>3, <3>1 DEF Unread
  <2>5. ASSUME NEW l, Pass(l)
        PROVE  Unread' = Unread /\ Len(calls') = Len(calls) /\ RestOfFile' < RestOfFile
    <3> DEFINE n == Len(calls)
    <3>1. sources' = sources /\ calls' = NextLine
        BY <2>5 DEF Pass
    <3>2. /\ n \in Nat \ {0} /\ DOMAIN calls = 1..n /\ Running = calls[n]
          /\ Running.path \in Paths /\ Running.at \in Nat \ {0}
        BY <2>3, RunningCall
    <3>3. /\ Len(calls') = n /\ calls' \in Seq(CallSet)
          /\ calls'[n].path = Running.path /\ calls'[n].at = Running.at + 1
        BY <2>3, <3>1, <3>2, NextLineCalls
    <3>4. calls' # <<>> /\ Running' = calls'[n]
        BY <3>2, <3>3 DEF Running, Last
    <3>5. Len(files[Running.path]) \in Nat
      <4>1. files[Running.path] \in Seq(ToSet(files[Running.path]))
          BY <2>3, <3>2, FilesAreTexts
      <4>2. QED
          BY <4>1
    <3>6. RestOfFile' = Len(files[Running.path]) + 1 - (Running.at + 1)
      <4>1. Running'.path = Running.path /\ Running'.at = Running.at + 1
          BY <3>3, <3>4
      <4>2. RestOfFile' = Len(files'[Running'.path]) + 1 - Running'.at
          BY <3>4 DEF RestOfFile
      <4>3. QED
          BY <2>3, <4>1, <4>2
    <3>7. RestOfFile = Len(files[Running.path]) + 1 - Running.at
        BY <2>3 DEF RestOfFile
    <3>8. Unread' = Unread
        BY <2>3, <3>1 DEF Unread
    <3> DEFINE total == Len(files[Running.path])
               at == Running.at
    <3>9. total \in Nat /\ at \in Nat
        BY <3>2, <3>5
    <3>10. RestOfFile' = total + 1 - (at + 1) /\ RestOfFile = total + 1 - at
        BY <3>6, <3>7
    <3> HIDE DEF total, at
    <3>11. RestOfFile' < RestOfFile
        BY <3>9, <3>10
    <3>12. QED
        BY <3>3, <3>8, <3>11
  <2>6. ASSUME Return PROVE Unread' = Unread /\ Len(calls') < Len(calls)
    <3>1. Len(calls) \in Nat \ {0} /\ calls \in Seq(CallSet)
        BY <2>3, RunningCall DEF SourcesType
    <3>2. calls' = SubSeq(calls, 1, Len(calls) - 1) /\ sources' = sources
        BY <2>6 DEF Return, Front
    <3> DEFINE n == Len(calls)
    <3>n. n \in Nat \ {0} /\ n = Len(calls)
        BY <3>1
    <3> HIDE DEF n
    <3>s. Len(SubSeq(calls, 1, n - 1)) = n - 1
        BY <3>1, <3>n, SubSeqProperties
    <3>3. Len(calls') = Len(calls) - 1
        BY <3>2, <3>n, <3>s
    <3>4. QED
        BY <2>3, <3>1, <3>2, <3>3 DEF Unread
  <2>7. QED
      BY <2>1, <2>2, <2>4, <2>5, <2>6 DEF Shrinks, SourcesNext, ReadLine
<1>4. QED
    BY <1>1, <1>2, <1>3, SourcesInvariant, PTL DEF SourcesSpec

-----------------------------------------------------------------------------
(* The managed block                                                       *)

\* The least member of a set of positions.
LEMMA MinIs ==
    ASSUME NEW T \in SUBSET Nat, NEW x \in T, \A y \in T : x <= y
    PROVE  Min(T) = x
<1>1. \E z \in T : \A y \in T : z <= y
    OBVIOUS
<1>2. Min(T) \in T /\ \A y \in T : Min(T) <= y
    BY <1>1 DEF Min
<1>3. Min(T) <= x /\ x <= Min(T) /\ Min(T) \in Nat /\ x \in Nat
    BY <1>2
<1>4. QED
    BY <1>3

\* The block begins at the first marker.
LEMMA StartIs ==
    ASSUME NEW S, NEW text \in Seq(S), NEW b \in 1..Len(text), text[b] = Begin,
           \A i \in 1..(b - 1) : text[i] # Begin
    PROVE  BlockStart(text) = b
<1> DEFINE I == {i \in 1..Len(text) : text[i] = Begin}
<1>1. I \in SUBSET Nat /\ b \in I
    OBVIOUS
<1>2. \A y \in I : b <= y
    OBVIOUS
<1>3. Min(I) = b
    BY <1>1, <1>2, MinIs
<1>4. QED
    BY <1>1, <1>3 DEF BlockStart, SelectInSeq

\* Without a marker there is no block.
LEMMA NoStart ==
    ASSUME NEW S, NEW text \in Seq(S), \A i \in 1..Len(text) : text[i] # Begin
    PROVE  BlockStart(text) = 0 /\ BlockEnd(text) = 0
BY DEF BlockStart, BlockEnd, SelectInSeq

\* The block ends at the first end marker from there on.
LEMMA EndIs ==
    ASSUME NEW S, NEW text \in Seq(S), NEW b \in 1..Len(text), BlockStart(text) = b,
           NEW e \in b..Len(text), text[e] = End, \A i \in b..(e - 1) : text[i] # End
    PROVE  BlockEnd(text) = e
<1> DEFINE I == {i \in b..Len(text) : text[i] = End}
<1>1. I \in SUBSET Nat /\ e \in I
    OBVIOUS
<1>2. \A y \in I : e <= y
    OBVIOUS
<1>3. Min(I) = e
    BY <1>1, <1>2, MinIs
<1>4. QED
    BY <1>1, <1>3 DEF BlockEnd, SelectInSubSeq

\* Where a block of a text is.
LEMMA BlockPlace ==
    ASSUME NEW S, NEW text \in Seq(S), WellMarked(text), BlockStart(text) # 0
    PROVE  /\ BlockStart(text) \in 1..Len(text) /\ text[BlockStart(text)] = Begin
           /\ \A i \in 1..(BlockStart(text) - 1) : text[i] # Begin
           /\ BlockEnd(text) \in BlockStart(text)..Len(text)
<1> DEFINE I == {i \in 1..Len(text) : text[i] = Begin}
<1>1. I \in SUBSET Nat /\ I # {}
    BY DEF BlockStart, SelectInSeq
<1>2. PICK b \in I : \A y \in I : b <= y
    BY <1>1, LeastIn
<1>3. b \in 1..Len(text) /\ text[b] = Begin /\ \A i \in 1..(b - 1) : text[i] # Begin
  <2>1. ASSUME NEW i \in 1..(b - 1), text[i] = Begin PROVE FALSE
    <3>1. i \in I /\ b \in Nat
        BY <1>2, <2>1
    <3>2. QED
        BY <1>2, <2>1, <3>1
  <2>2. QED
      BY <1>2, <2>1
<1> HIDE DEF I
<1>4. BlockStart(text) = b
    BY <1>3, StartIs
<1> DEFINE J == {j \in b..Len(text) : text[j] = End}
<1>5. J \in SUBSET Nat /\ J # {}
  <2>1. PICK j \in DOMAIN text : b < j /\ text[j] = End
      BY <1>3 DEF WellMarked
  <2>2. j \in J
      BY <1>3, <2>1
  <2>3. QED
      BY <1>3, <2>2
<1>6. PICK e \in J : \A y \in J : e <= y
    BY <1>5, LeastIn
<1>7. e \in b..Len(text) /\ text[e] = End /\ \A i \in b..(e - 1) : text[i] # End
  <2>1. ASSUME NEW i \in b..(e - 1), text[i] = End PROVE FALSE
    <3>1. i \in J /\ e \in Nat
        BY <1>3, <1>6, <2>1
    <3>2. QED
        BY <1>3, <1>6, <2>1, <3>1
  <2>2. QED
      BY <1>6, <2>1
<1>8. BlockEnd(text) = e
    BY <1>3, <1>4, <1>7, EndIs
<1>9. QED
    BY <1>3, <1>4, <1>7, <1>8

\* A function on the first n numbers is a sequence.
LEMMA FunctionIsSeq ==
    ASSUME NEW S, NEW n \in Nat, NEW f \in [1..n -> S]
    PROVE  f \in Seq(S) /\ Len(f) = n
OBVIOUS

\* A sequence is one of its own elements.
LEMMA SeqOfItself ==
    ASSUME NEW S, NEW s \in Seq(S)
    PROVE  s \in Seq(ToSet(s))
<1>1. ToSet(s) = Range(s)
    BY DEF ToSet, Range
<1>2. QED
    BY <1>1, SeqOfRange

\* What a sequence is with one more element in front.
LEMMA InFront ==
    ASSUME NEW S, NEW s \in Seq(S), NEW e \in S
    PROVE  /\ <<e>> \o s \in Seq(S) /\ Len(<<e>> \o s) = Len(s) + 1
           /\ (<<e>> \o s)[1] = e
           /\ \A i \in 1..Len(s) : (<<e>> \o s)[i + 1] = s[i]
<1> DEFINE one == <<e>>
<1>1. one \in Seq(S) /\ Len(one) = 1 /\ one[1] = e
    OBVIOUS
<1>2. Len(s) \in Nat
    OBVIOUS
<1> HIDE DEF one
<1>3. /\ one \o s \in Seq(S) /\ Len(one \o s) = Len(one) + Len(s)
      /\ \A i \in 1..(Len(one) + Len(s)) : (one \o s)[i] = IF i <= Len(one) THEN one[i]
                                                          ELSE s[i - Len(one)]
    BY <1>1, ConcatProperties
<1>4. (one \o s)[1] = e
    BY <1>1, <1>2, <1>3
<1>5. ASSUME NEW i \in 1..Len(s) PROVE (one \o s)[i + 1] = s[i]
  <2>1. i + 1 \in 1..(Len(one) + Len(s)) /\ ~(i + 1 <= Len(one)) /\ i + 1 - Len(one) = i
      BY <1>1, <1>2
  <2>2. QED
      BY <1>3, <2>1
<1>6. Len(one \o s) = Len(s) + 1
    BY <1>1, <1>2, <1>3
<1>7. QED
    BY <1>3, <1>4, <1>5, <1>6 DEF one

\* What a sequence is between two more elements.
LEMMA Between ==
    ASSUME NEW S, NEW s \in Seq(S), NEW b \in S, NEW e \in S
    PROVE  /\ (<<b>> \o s) \o <<e>> \in Seq(S)
           /\ Len((<<b>> \o s) \o <<e>>) = Len(s) + 2
           /\ ((<<b>> \o s) \o <<e>>)[1] = b
           /\ ((<<b>> \o s) \o <<e>>)[Len(s) + 2] = e
           /\ \A i \in 1..Len(s) : ((<<b>> \o s) \o <<e>>)[i + 1] = s[i]
<1> DEFINE h == <<b>> \o s
<1>1. /\ h \in Seq(S) /\ Len(h) = Len(s) + 1 /\ h[1] = b
      /\ \A i \in 1..Len(s) : h[i + 1] = s[i]
    BY InFront
<1>2. Len(s) \in Nat
    OBVIOUS
<1> HIDE DEF h
<1>3. h \o <<e>> = Append(h, e)
    BY <1>1, AppendIsConcat
<1>4. /\ Append(h, e) \in Seq(S) /\ Len(Append(h, e)) = Len(h) + 1
      /\ \A i \in 1..Len(h) : Append(h, e)[i] = h[i]
      /\ Append(h, e)[Len(h) + 1] = e
    BY <1>1, AppendProperties
<1>5. Len(h) + 1 = Len(s) + 2 /\ 1 \in 1..Len(h) /\ \A i \in 1..Len(s) : i + 1 \in 1..Len(h)
    BY <1>1, <1>2
<1>6. QED
    BY <1>1, <1>3, <1>4, <1>5 DEF h

\* The block that is written begins and ends with its markers, once each.
LEMMA BlockWritten ==
    /\ ManagedBlock \in Seq(ToSet(ManagedBlock)) /\ Len(ManagedBlock) = 10
    /\ ManagedBlock[1] = Begin /\ ManagedBlock[10] = End
    /\ \A i \in 2..9 : ManagedBlock[i] # Begin /\ ManagedBlock[i] # End
    /\ Begin # End
<1> DEFINE names == [i \in DOMAIN IncludeOrder |-> <<IncludeOrder[i]>>]
           mid == Lines("conf-file", names)
           L == {Begin, End} \cup {Line("conf-file", names[i]) : i \in 1..8}
<1>1. DOMAIN IncludeOrder = 1..8
    BY DEF IncludeOrder
<1>2. mid = [i \in 1..8 |-> Line("conf-file", names[i])]
    BY <1>1 DEF Lines
<1>3. \A x : Line("conf-file", x) # Begin /\ Line("conf-file", x) # End
  <2>1. \A x : Line("conf-file", x).key = "conf-file"
      BY DEF Line
  <2>2. Begin.key = "BEGIN" /\ End.key = "END"
      BY DEF Begin, End, Line
  <2>3. QED
      BY <2>1, <2>2
<1>4. Begin # End
  <2>1. Begin.key = "BEGIN" /\ End.key = "END"
      BY DEF Begin, End, Line
  <2>2. QED
      BY <2>1
<1> HIDE DEF names
<1>5. mid \in Seq(L) /\ Len(mid) = 8 /\ \A i \in 1..8 : mid[i] = Line("conf-file", names[i])
  <2>1. mid \in [1..8 -> L]
      BY <1>2
  <2>2. \A i \in 1..8 : mid[i] = Line("conf-file", names[i])
      BY <1>2
  <2> HIDE DEF mid, L
  <2> DEFINE eight == 8
  <2>e. eight \in Nat /\ mid \in [1..eight -> L]
      BY <2>1
  <2> HIDE DEF eight
  <2>f. mid \in Seq(L) /\ Len(mid) = eight
      BY <2>e, FunctionIsSeq
  <2>3. mid \in Seq(L) /\ Len(mid) = 8
      BY <2>f DEF eight
  <2>4. QED
      BY <2>2, <2>3
<1>6. Begin \in L /\ End \in L
    OBVIOUS
<1> HIDE DEF mid, L
<1>7. ManagedBlock = (<<Begin>> \o mid) \o <<End>>
    BY DEF ManagedBlock, mid, names
<1>8. mid \in Seq(L) /\ Begin \in L /\ End \in L
    BY <1>5, <1>6
<1> DEFINE block == (<<Begin>> \o mid) \o <<End>>
<1>b. /\ block \in Seq(L) /\ Len(block) = Len(mid) + 2
      /\ block[1] = Begin /\ block[Len(mid) + 2] = End
      /\ \A i \in 1..Len(mid) : block[i + 1] = mid[i]
    BY <1>8, Between
<1> HIDE DEF block
<1>9. /\ ManagedBlock \in Seq(L) /\ Len(ManagedBlock) = 10
      /\ ManagedBlock[1] = Begin /\ ManagedBlock[10] = End
      /\ \A i \in 1..8 : ManagedBlock[i + 1] = mid[i]
    BY <1>5, <1>7, <1>b DEF block
<1>10. \A i \in 2..9 : ManagedBlock[i] # Begin /\ ManagedBlock[i] # End
  <2>1. ASSUME NEW i \in 2..9
        PROVE  ManagedBlock[i] = Line("conf-file", names[i - 1])
    <3>1. i - 1 \in 1..8 /\ i - 1 + 1 = i
        OBVIOUS
    <3>2. QED
        BY <1>5, <1>9, <3>1
  <2>2. QED
      BY <1>3, <2>1
<1>11. ManagedBlock \in Seq(ToSet(ManagedBlock))
    BY <1>9, SeqOfItself
<1>12. QED
    BY <1>4, <1>9, <1>10, <1>11

\* Three sequences in a row.
LEMMA ThreeInARow ==
    ASSUME NEW S, NEW b \in Seq(S), NEW c \in Seq(S), NEW a \in Seq(S)
    PROVE  /\ b \o c \o a \in Seq(S) /\ Len(b \o c \o a) = Len(b) + Len(c) + Len(a)
           /\ \A i \in 1..Len(b) : (b \o c \o a)[i] = b[i]
           /\ \A i \in 1..Len(c) : (b \o c \o a)[Len(b) + i] = c[i]
           /\ \A i \in 1..Len(a) : (b \o c \o a)[Len(b) + Len(c) + i] = a[i]
<1> DEFINE bc == b \o c
           all == bc \o a
<1>1. Len(b) \in Nat /\ Len(c) \in Nat /\ Len(a) \in Nat
    OBVIOUS
<1>2. /\ bc \in Seq(S) /\ Len(bc) = Len(b) + Len(c)
      /\ \A i \in 1..(Len(b) + Len(c)) : bc[i] = IF i <= Len(b) THEN b[i] ELSE c[i - Len(b)]
    BY ConcatProperties
<1>c. bc \in Seq(S)
    BY <1>2
<1> HIDE DEF bc
<1>3. /\ all \in Seq(S) /\ Len(all) = Len(bc) + Len(a)
      /\ \A i \in 1..(Len(bc) + Len(a)) : all[i] = IF i <= Len(bc) THEN bc[i] ELSE a[i - Len(bc)]
    BY <1>c, ConcatProperties
<1> HIDE DEF all
<1>4. ASSUME NEW i \in 1..Len(b) PROVE all[i] = b[i]
  <2>1. i \in 1..(Len(bc) + Len(a)) /\ i <= Len(bc) /\ i \in 1..(Len(b) + Len(c)) /\ i <= Len(b)
      BY <1>1, <1>2
  <2>2. QED
      BY <1>2, <1>3, <2>1
<1>5. ASSUME NEW i \in 1..Len(c) PROVE all[Len(b) + i] = c[i]
  <2>1. /\ Len(b) + i \in 1..(Len(bc) + Len(a)) /\ Len(b) + i <= Len(bc)
        /\ Len(b) + i \in 1..(Len(b) + Len(c)) /\ ~(Len(b) + i <= Len(b))
        /\ Len(b) + i - Len(b) = i
      BY <1>1, <1>2
  <2>2. QED
      BY <1>2, <1>3, <2>1
<1>6. ASSUME NEW i \in 1..Len(a) PROVE all[Len(b) + Len(c) + i] = a[i]
  <2>1. /\ Len(b) + Len(c) + i \in 1..(Len(bc) + Len(a)) /\ ~(Len(b) + Len(c) + i <= Len(bc))
        /\ Len(b) + Len(c) + i - Len(bc) = i
      BY <1>1, <1>2
  <2>2. QED
      BY <1>3, <2>1
<1>7. Len(all) = Len(b) + Len(c) + Len(a)
    BY <1>2, <1>3
<1>8. QED
    BY <1>3, <1>4, <1>5, <1>6, <1>7 DEF all, bc

\* A block that is written is found again: it begins where no marker was in
\* front, and what was before and after it is so still.
LEMMA BlockFound ==
    ASSUME NEW S, NEW b \in Seq(S), NEW a \in Seq(S), ManagedBlock \in Seq(S),
           \A i \in 1..Len(b) : b[i] # Begin
    PROVE  Before(b \o ManagedBlock \o a) = b /\ After(b \o ManagedBlock \o a) = a
<1> DEFINE c == ManagedBlock
           t == b \o c \o a
           n == Len(b)
<1>1. n \in Nat /\ Len(a) \in Nat
    OBVIOUS
<1>2. /\ c \in Seq(S) /\ Len(c) = 10 /\ c[1] = Begin /\ c[10] = End
      /\ \A i \in 2..9 : c[i] # End
      /\ Begin # End
    BY BlockWritten
<1>c. c \in Seq(S)
    OBVIOUS
<1> HIDE DEF c
<1>3. /\ t \in Seq(S) /\ Len(t) = n + Len(c) + Len(a)
      /\ \A i \in 1..n : t[i] = b[i]
      /\ \A i \in 1..Len(c) : t[n + i] = c[i]
      /\ \A i \in 1..Len(a) : t[n + Len(c) + i] = a[i]
    BY <1>c, ThreeInARow
<1> HIDE DEF t, n
<1>t. t \in Seq(S)
    BY <1>3
<1>l. Len(t) = n + 10 + Len(a) /\ Len(t) \in Nat
    BY <1>1, <1>2, <1>3
<1>m. \A i \in 1..10 : t[n + i] = c[i]
    BY <1>2, <1>3
<1>4. BlockStart(t) = n + 1
  <2> DEFINE at == n + 1
  <2>1. at \in 1..Len(t)
      BY <1>1, <1>l
  <2>2. t[at] = Begin
      BY <1>2, <1>m
  <2>3. \A i \in 1..n : b[i] # Begin
      BY DEF n
  <2>4. at - 1 = n
      BY <1>1
  <2> HIDE DEF at
  <2>5. \A i \in 1..(at - 1) : t[i] # Begin
      BY <1>3, <2>3, <2>4
  <2>6. BlockStart(t) = at
      BY <1>t, <2>1, <2>2, <2>5, StartIs
  <2>7. QED
      BY <2>6 DEF at
<1>5. BlockEnd(t) = n + 10
  <2> DEFINE at == n + 1
             to == n + 10
  <2>1. at \in 1..Len(t) /\ to \in at..Len(t)
      BY <1>1, <1>l
  <2>2. t[to] = End
      BY <1>2, <1>m
  <2>3. ASSUME NEW i \in at..(to - 1) PROVE t[i] # End
    <3>1. i - n \in 1..9 /\ n + (i - n) = i
        BY <1>1
    <3>2. t[n + (i - n)] = c[i - n]
        BY <1>m, <3>1
    <3>3. c[i - n] # End
        BY <1>2, <3>1
    <3>4. QED
        BY <3>1, <3>2, <3>3
  <2>4. BlockStart(t) = at
      BY <1>4
  <2>a. at \in 1..Len(t)
      BY <2>1
  <2>b. to \in at..Len(t)
      BY <2>1
  <2>c. \A i \in at..(to - 1) : t[i] # End
      BY <2>3
  <2> HIDE DEF at, to
  <2>5. BlockEnd(t) = to
      BY <1>t, <2>2, <2>4, <2>a, <2>b, <2>c, EndIs
  <2>6. QED
      BY <2>5 DEF to
<1>6. Before(t) = b
  <2>1. Before(t) = SubSeq(t, 1, n)
      BY <1>1, <1>4, <1>5 DEF Before
  <2>2. n \in 0..Len(t)
      BY <1>1, <1>l
  <2>3. /\ SubSeq(t, 1, n) \in Seq(S) /\ Len(SubSeq(t, 1, n)) = n
        /\ \A i \in 1..n : SubSeq(t, 1, n)[i] = t[i]
      BY <1>1, <1>3, <2>2, SubSeqProperties
  <2> DEFINE s == SubSeq(t, 1, n)
  <2> HIDE DEF s
  <2>4. s \in Seq(S) /\ Len(s) = Len(b) /\ \A i \in 1..Len(s) : s[i] = b[i]
      BY <1>3, <2>3 DEF s, n
  <2>5. s = b
      BY <2>4, SeqEqual
  <2>6. QED
      BY <2>1, <2>5 DEF s
<1>7. After(t) = a
  <2>1. After(t) = SubSeq(t, n + 10 + 1, Len(t))
      BY <1>1, <1>4, <1>5 DEF After
  <2> DEFINE from == n + 10 + 1
             s == SubSeq(t, from, Len(t))
  <2>2. /\ Len(t) = n + 10 + Len(a) /\ Len(t) \in Nat
        /\ from \in 1..(Len(t) + 1) /\ Len(t) - from + 1 = Len(a)
        /\ Len(t) \in (from - 1)..Len(t)
      BY <1>1, <1>2, <1>3
  <2>3. ASSUME NEW i \in 1..Len(a) PROVE from + i - 1 = n + 10 + i
      BY <1>1
  <2> HIDE DEF from
  <2>4. /\ s \in Seq(S) /\ Len(s) = Len(t) - from + 1
        /\ \A i \in 1..(Len(t) - from + 1) : s[i] = t[from + i - 1]
      BY <1>3, <2>2, SubSeqProperties
  <2> HIDE DEF s
  <2>5. ASSUME NEW i \in 1..Len(a) PROVE s[i] = a[i]
    <3>1. s[i] = t[n + 10 + i]
        BY <2>2, <2>3, <2>4
    <3>2. QED
        BY <1>2, <1>3, <3>1
  <2>6. s = a
      BY <2>2, <2>4, <2>5, SeqEqual
  <2>7. QED
      BY <2>1, <2>6 DEF s, from
<1>8. QED
    BY <1>6, <1>7 DEF t, c

\* A piece of a sequence.
LEMMA PieceOf ==
    ASSUME NEW S, NEW s \in Seq(S), NEW m \in 1..(Len(s) + 1), NEW n \in 0..Len(s), m <= n + 1
    PROVE  /\ SubSeq(s, m, n) \in Seq(S) /\ Len(SubSeq(s, m, n)) = n - m + 1
           /\ \A i \in 1..(n - m + 1) : SubSeq(s, m, n)[i] = s[m + i - 1]
<1>1. m \in Int /\ n \in Int /\ Len(s) \in Nat
    OBVIOUS
<1>2. \A i \in m..n : s[i] \in S
    BY <1>1
<1>3. /\ SubSeq(s, m, n) \in Seq(S)
      /\ Len(SubSeq(s, m, n)) = IF m <= n THEN n - m + 1 ELSE 0
      /\ \A i \in 1..(n - m + 1) : SubSeq(s, m, n)[i] = s[m + i - 1]
    BY <1>1, <1>2, SubSeqProperties
<1>4. QED
    BY <1>1, <1>3

\* What is before a block holds no marker, and what is after it only whole
\* blocks.
LEMMA Around ==
    ASSUME NEW S, NEW text \in Seq(S), WellMarked(text)
    PROVE  /\ Before(text) \in Seq(S) /\ \A i \in 1..Len(Before(text)) : Before(text)[i] # Begin
           /\ After(text) \in Seq(S) /\ WellMarked(After(text))
<1>l. Len(text) \in Nat /\ DOMAIN text = 1..Len(text)
    OBVIOUS
<1>1. CASE BlockStart(text) = 0
  <2>1. \A i \in 1..Len(text) : text[i] # Begin
    <3> DEFINE I == {i \in 1..Len(text) : text[i] = Begin}
    <3>1. SUFFICES ASSUME I # {} PROVE FALSE
        OBVIOUS
    <3>2. I \in SUBSET Nat
        OBVIOUS
    <3>3. PICK b \in I : \A y \in I : b <= y
        BY <3>1, <3>2, LeastIn
    <3>4. Min(I) = b
        BY <3>2, <3>3, MinIs
    <3>5. BlockStart(text) = b
        BY <3>1, <3>4 DEF BlockStart, SelectInSeq
    <3>6. QED
        BY <1>1, <3>3, <3>5
  <2>2. BlockEnd(text) = 0
      BY <1>1 DEF BlockEnd
  <2>3. Before(text) = text /\ After(text) = <<>>
      BY <2>2 DEF Before, After
  <2>4. QED
      BY <2>1, <2>3 DEF WellMarked
<1>2. CASE BlockStart(text) # 0
  <2> DEFINE b == BlockStart(text)
             e == BlockEnd(text)
             n == Len(text)
             from == e + 1
             before == SubSeq(text, 1, b - 1)
             after == SubSeq(text, from, n)
  <2>1. b \in 1..n /\ e \in b..n /\ \A i \in 1..(b - 1) : text[i] # Begin
      BY <1>2, BlockPlace
  <2> HIDE DEF b, e, n
  <2>2. n \in Nat /\ n = Len(text)
      BY <1>l DEF n
  <2>3. e # 0 /\ b - 1 \in 0..n /\ 1 <= b - 1 + 1 /\ 1 \in 1..(n + 1)
      BY <2>1, <2>2
  <2>4. /\ before \in Seq(S) /\ Len(before) = b - 1 - 1 + 1
        /\ \A i \in 1..(b - 1 - 1 + 1) : before[i] = text[1 + i - 1]
      BY <2>2, <2>3, PieceOf
  <2>5. from \in 1..(n + 1) /\ n \in 0..n /\ from <= n + 1
      BY <2>1, <2>2
  <2>f. from \in Nat
      BY <2>1, <2>2
  <2> HIDE DEF before, from
  <2>6. /\ after \in Seq(S) /\ Len(after) = n - from + 1
        /\ \A i \in 1..(n - from + 1) : after[i] = text[from + i - 1]
      BY <2>2, <2>5, PieceOf
  <2> HIDE DEF after
  <2>7. Before(text) = before /\ After(text) = after
      BY <2>3 DEF Before, After, before, after, b, e, n, from
  <2>8. Len(before) = b - 1 /\ \A i \in 1..(b - 1) : before[i] # Begin
    <3>1. Len(before) = b - 1
        BY <2>1, <2>2, <2>4
    <3>2. ASSUME NEW i \in 1..(b - 1) PROVE before[i] # Begin
      <4>1. i \in 1..(b - 1 - 1 + 1) /\ 1 + i - 1 = i
          BY <2>1, <2>2
      <4>2. before[i] = text[i]
          BY <2>4, <4>1
      <4>3. QED
          BY <2>1, <4>2
    <3>3. QED
        BY <3>1, <3>2
  <2>9. WellMarked(after)
    <3>1. DOMAIN after = 1..(n - from + 1)
        BY <2>6
    <3>2. ASSUME NEW i \in 1..(n - from + 1), after[i] = Begin
          PROVE  \E j \in 1..(n - from + 1) : i < j /\ after[j] = End
      <4>1. from + i - 1 \in 1..n
          BY <2>2, <2>5, <2>f
      <4>2. text[from + i - 1] = Begin
          BY <2>6, <3>2
      <4>3. PICK k \in 1..n : from + i - 1 < k /\ text[k] = End
          BY <1>l, <2>2, <4>1, <4>2 DEF WellMarked
      <4>4. k - from + 1 \in 1..(n - from + 1) /\ i < k - from + 1 /\ from + (k - from + 1) - 1 = k
          BY <2>2, <2>f, <4>3
      <4>5. after[k - from + 1] = End
          BY <2>6, <4>3, <4>4
      <4>6. QED
          BY <4>4, <4>5
    <3>3. QED
        BY <3>1, <3>2 DEF WellMarked
  <2>10. QED
      BY <2>4, <2>6, <2>7, <2>8, <2>9
<1>3. QED
    BY <1>1, <1>2

\* A save puts its block in the place of the one before, or at the end: the
\* lines around it stay as they are, and no block is left open.
LEMMA EnsureKeeps ==
    ASSUME NEW S, NEW text \in Seq(S), WellMarked(text), ManagedBlock \in Seq(S)
    PROVE  /\ EnsureManagedBlock(text) \in Seq(S) /\ WellMarked(EnsureManagedBlock(text))
           /\ Before(EnsureManagedBlock(text)) = Before(text)
           /\ After(EnsureManagedBlock(text)) = After(text)
<1> DEFINE b == Before(text)
           a == After(text)
           c == ManagedBlock
           t == b \o c \o a
<1>1. /\ b \in Seq(S) /\ \A i \in 1..Len(b) : b[i] # Begin
      /\ a \in Seq(S) /\ WellMarked(a)
    BY Around
<1>2. b \in Seq(S) /\ a \in Seq(S) /\ c \in Seq(S)
    BY <1>1
<1>3. /\ Len(c) = 10 /\ c[1] = Begin /\ c[10] = End
      /\ \A i \in 2..9 : c[i] # Begin
      /\ Begin # End
    BY BlockWritten
<1>4. EnsureManagedBlock(text) = t
    BY DEF EnsureManagedBlock
<1> HIDE DEF b, a
<1>5. Before(t) = b /\ After(t) = a
  <2>1. \A i \in 1..Len(b) : b[i] # Begin
      BY <1>1
  <2>2. b \in Seq(S) /\ a \in Seq(S) /\ ManagedBlock \in Seq(S)
      BY <1>2
  <2> HIDE DEF t, c
  <2>3. t = b \o ManagedBlock \o a
      BY DEF t, c
  <2>4. Before(b \o ManagedBlock \o a) = b /\ After(b \o ManagedBlock \o a) = a
      BY <2>1, <2>2, BlockFound
  <2>5. QED
      BY <2>3, <2>4
<1> HIDE DEF c
<1>6. /\ t \in Seq(S) /\ Len(t) = Len(b) + Len(c) + Len(a)
      /\ \A i \in 1..Len(b) : t[i] = b[i]
      /\ \A i \in 1..Len(c) : t[Len(b) + i] = c[i]
      /\ \A i \in 1..Len(a) : t[Len(b) + Len(c) + i] = a[i]
    BY <1>2, ThreeInARow, SMTT(20)
<1> HIDE DEF t
<1> DEFINE n == Len(b)
           m == Len(a)
<1>7. n \in Nat /\ m \in Nat /\ DOMAIN a = 1..m
    BY <1>2
<1>8. DOMAIN t = 1..(n + 10 + m)
    BY <1>3, <1>6
<1>9. \A i \in 1..n : t[i] # Begin
    BY <1>1, <1>6
<1>10. \A i \in 1..10 : t[n + i] = c[i]
    BY <1>3, <1>6
<1>11. \A i \in 1..m : t[n + 10 + i] = a[i]
    BY <1>3, <1>6
<1> HIDE DEF n, m
<1>12. ASSUME NEW i \in 1..(n + 10 + m), t[i] = Begin
       PROVE  \E j \in 1..(n + 10 + m) : i < j /\ t[j] = End
  <2>1. CASE i \in 1..n
      BY <1>9, <1>12, <2>1
  <2>2. CASE i \in (n + 1)..(n + 10)
    <3>1. i - n \in 1..10 /\ n + (i - n) = i
        BY <1>7, <2>2
    <3>2. c[i - n] = Begin
        BY <1>10, <1>12, <3>1
    <3>3. i - n = 1
        BY <1>3, <3>1, <3>2
    <3>4. n + 10 \in 1..(n + 10 + m) /\ i < n + 10
        BY <1>7, <3>1, <3>3
    <3>5. t[n + 10] = End
        BY <1>3, <1>10
    <3>6. QED
        BY <3>4, <3>5
  <2>3. CASE i \in (n + 10 + 1)..(n + 10 + m)
    <3>1. i - n - 10 \in 1..m /\ n + 10 + (i - n - 10) = i
        BY <1>7, <2>3
    <3>2. a[i - n - 10] = Begin
        BY <1>11, <1>12, <3>1
    <3>3. PICK k \in 1..m : i - n - 10 < k /\ a[k] = End
        BY <1>1, <1>7, <3>1, <3>2 DEF WellMarked
    <3>4. n + 10 + k \in 1..(n + 10 + m) /\ i < n + 10 + k
        BY <1>7, <2>3, <3>3
    <3>5. t[n + 10 + k] = End
        BY <1>11, <3>3
    <3>6. QED
        BY <3>4, <3>5
  <2>4. QED
      BY <1>7, <1>12, <2>1, <2>2, <2>3
<1>13. WellMarked(t)
    BY <1>8, <1>12 DEF WellMarked
<1>14. QED
    BY <1>4, <1>5, <1>6, <1>13 DEF b, a

\* A line in front or at the end leaves no block open, when it begins none.
LEMMA EditKeepsMarks ==
    ASSUME NEW S, NEW text \in Seq(S), NEW l \in S, l # Begin, WellMarked(text),
           NEW new \in {<<l>> \o text, Append(text, l)}
    PROVE  new \in Seq(S) /\ WellMarked(new)
<1> DEFINE n == Len(text)
<1>l. n \in Nat /\ DOMAIN text = 1..n
    OBVIOUS
<1> HIDE DEF n
<1>w. \A i \in 1..n : text[i] = Begin => \E j \in 1..n : i < j /\ text[j] = End
    BY <1>l DEF WellMarked
<1>1. CASE new = <<l>> \o text
  <2> DEFINE t == <<l>> \o text
  <2>1. t \in Seq(S) /\ Len(t) = n + 1 /\ t[1] = l /\ \A i \in 1..n : t[i + 1] = text[i]
      BY InFront DEF n
  <2> HIDE DEF t
  <2>2. DOMAIN t = 1..(n + 1)
      BY <2>1
  <2>3. ASSUME NEW i \in 1..(n + 1), t[i] = Begin
        PROVE  \E j \in 1..(n + 1) : i < j /\ t[j] = End
    <3>1. i # 1
        BY <2>1, <2>3
    <3>2. i - 1 \in 1..n /\ (i - 1) + 1 = i
        BY <1>l, <3>1
    <3>3. text[i - 1] = Begin
        BY <2>1, <2>3, <3>2
    <3>4. PICK k \in 1..n : i - 1 < k /\ text[k] = End
        BY <1>w, <3>2, <3>3
    <3>5. k + 1 \in 1..(n + 1) /\ i < k + 1
        BY <1>l, <3>4
    <3>6. t[k + 1] = End
        BY <2>1, <3>4
    <3>7. QED
        BY <3>5, <3>6
  <2>4. WellMarked(t)
      BY <2>2, <2>3 DEF WellMarked
  <2>5. QED
      BY <1>1, <2>1, <2>4 DEF t
<1>2. CASE new = Append(text, l)
  <2> DEFINE t == Append(text, l)
  <2>1. t \in Seq(S) /\ Len(t) = n + 1 /\ t[n + 1] = l /\ \A i \in 1..n : t[i] = text[i]
      BY DEF n
  <2> HIDE DEF t
  <2>2. DOMAIN t = 1..(n + 1)
      BY <2>1
  <2>3. ASSUME NEW i \in 1..(n + 1), t[i] = Begin
        PROVE  \E j \in 1..(n + 1) : i < j /\ t[j] = End
    <3>1. i # n + 1
        BY <2>1, <2>3
    <3>2. i \in 1..n
        BY <1>l, <3>1
    <3>3. text[i] = Begin
        BY <2>1, <2>3, <3>2
    <3>4. PICK k \in 1..n : i < k /\ text[k] = End
        BY <1>w, <3>2, <3>3
    <3>5. k \in 1..(n + 1)
        BY <1>l
    <3>6. t[k] = End
        BY <2>1, <3>4
    <3>7. QED
        BY <3>4, <3>5, <3>6
  <2>4. WellMarked(t)
      BY <2>2, <2>3 DEF WellMarked
  <2>5. QED
      BY <1>2, <2>1, <2>4 DEF t
<1>3. QED
    BY <1>1, <1>2

\* The lines that smartdns.conf can hold.
AllLines == (UNION {ToSet(m) : m \in Mains}) \cup UserLines \cup ToSet(ManagedBlock)

\* smartdns.conf never holds a block that is left open.
MainInv ==
    /\ main \in Seq(AllLines) /\ WellMarked(main)
    /\ edits \in Nat

\* The lines of the block are lines of smartdns.conf.
LEMMA BlockIsLines == ManagedBlock \in Seq(AllLines)
<1>1. ManagedBlock \in Seq(ToSet(ManagedBlock))
    BY BlockWritten
<1>2. ToSet(ManagedBlock) \subseteq AllLines
  <2> DEFINE B == ToSet(ManagedBlock)
             U == UNION {ToSet(m) : m \in Mains}
  <2> HIDE DEF B, U
  <2>1. B \subseteq U \cup UserLines \cup B
      OBVIOUS
  <2>2. QED
      BY <2>1 DEF AllLines, B, U
<1>3. QED
    BY <1>1, <1>2, SeqMonotonic

\* smartdns.conf is well marked at first.
LEMMA MainStarts == PagesInit => MainInv
<1> SUFFICES ASSUME PagesInit PROVE MainInv
    OBVIOUS
<1>1. main \in Mains
    BY DEF PagesInit
<1>2. main \in Seq(ToSet(main)) /\ WellMarked(main)
    BY <1>1, PagesAssumption
<1>3. ToSet(main) \subseteq AllLines
    BY <1>1 DEF AllLines
<1>4. main \in Seq(AllLines)
    BY <1>2, <1>3, SeqMonotonic
<1>5. edits = 0
    BY DEF PagesInit
<1>6. QED
    BY <1>2, <1>4, <1>5 DEF MainInv

\* A save or a reload ensures the block or leaves smartdns.conf alone; only
\* the administrator adds lines of their own.
LEMMA MainSteps ==
    ASSUME [PagesNext]_pagesVars
    PROVE  \/ main' = main /\ edits' = edits
           \/ main' = EnsureManagedBlock(main) /\ edits' = edits
           \/ /\ edits < MaxEdits /\ edits' = edits + 1
              /\ \E l \in UserLines : main' \in {<<l>> \o main, Append(main, l)}
<1>1. ASSUME NEW c, NEW text, SaveBeginnerConfig(c, text)
      PROVE  main' \in {main, EnsureManagedBlock(main)} /\ edits' = edits
    BY <1>1 DEF SaveBeginnerConfig
<1>2. ASSUME NEW text, SaveManagedAssets(text)
      PROVE  main' \in {main, EnsureManagedBlock(main)} /\ edits' = edits
    BY <1>2 DEF SaveManagedAssets
<1>3. CASE \E r \in Requests : SaveBeginnerConfig(r.config, r.rules)
    BY <1>1, <1>3
<1>4. CASE Resave
    BY <1>1, <1>4 DEF Resave
<1>5. CASE \E r \in Requests : SaveManagedAssets(r.rules)
    BY <1>2, <1>5
<1>6. CASE ApplyWorkingConfig
    BY <1>6 DEF ApplyWorkingConfig
<1>7. CASE \E l \in UserLines : EditMain(l)
    BY <1>7 DEF EditMain
<1>8. CASE UNCHANGED pagesVars
    BY <1>8 DEF pagesVars
<1>9. QED
    BY <1>3, <1>4, <1>5, <1>6, <1>7, <1>8 DEF PagesNext

\* Each step keeps smartdns.conf well marked, and changes no line outside the
\* block unless it is the administrator's.
LEMMA MainKept ==
    ASSUME MainInv, [PagesNext]_pagesVars
    PROVE  /\ MainInv'
           /\ edits' = edits => Before(main') = Before(main) /\ After(main') = After(main)
<1>1. main \in Seq(AllLines) /\ WellMarked(main) /\ edits \in Nat
    BY DEF MainInv
<1>2. CASE main' = main /\ edits' = edits
    BY <1>1, <1>2 DEF MainInv
<1>3. CASE main' = EnsureManagedBlock(main) /\ edits' = edits
  <2> DEFINE new == EnsureManagedBlock(main)
  <2>1. /\ new \in Seq(AllLines) /\ WellMarked(new)
        /\ Before(new) = Before(main) /\ After(new) = After(main)
      BY <1>1, BlockIsLines, EnsureKeeps
  <2> HIDE DEF new
  <2>2. main' = new
      BY <1>3 DEF new
  <2>3. QED
      BY <1>1, <1>3, <2>1, <2>2 DEF MainInv
<1>4. ASSUME edits < MaxEdits, edits' = edits + 1,
             NEW l \in UserLines, main' \in {<<l>> \o main, Append(main, l)}
      PROVE  MainInv' /\ edits' # edits
  <2>1. l \in AllLines
      BY Zenon DEF AllLines
  <2>b. l # Begin
      BY PagesAssumption
  <2>2. main' \in Seq(AllLines) /\ WellMarked(main')
    <3>1. PICK new \in {<<l>> \o main, Append(main, l)} : main' = new
        BY <1>4
    <3>2. new \in Seq(AllLines) /\ WellMarked(new)
        BY <1>1, <2>1, <2>b, EditKeepsMarks
    <3>3. QED
        BY <3>1, <3>2
  <2>3. edits' \in Nat /\ edits' # edits
      BY <1>1, <1>4
  <2>4. QED
      BY <2>2, <2>3 DEF MainInv
<1>5. QED
    BY <1>2, <1>3, <1>4, MainSteps

\* No sequence of saves, reloads and edits leaves a block of smartdns.conf
\* open, after which a preview would show none of the lines that follow.
THEOREM BlocksStayWhole == PagesSpec => []MainInv
<1>1. MainInv /\ [PagesNext]_pagesVars => MainInv'
    BY MainKept
<1>2. QED
    BY <1>1, MainStarts, PTL DEF PagesSpec

\* No save changes, moves or loses a line of smartdns.conf outside the block.
THEOREM UserLinesAreKept == PagesSpec => UserLinesKept
<1>1. MainInv /\ [PagesNext]_pagesVars =>
        [edits' = edits => /\ Before(main') = Before(main)
                           /\ After(main') = After(main)]_pagesVars
    BY MainKept
<1>2. QED
    BY <1>1, BlocksStayWhole, PTL DEF PagesSpec, UserLinesKept
=============================================================================
