---------------------------- MODULE ServicesProof ----------------------------
(***************************************************************************)
(* Theorems about the life of the plugin, alone and with the requests that *)
(* its connections serve, for any number of processes and of starts; and   *)
(* about these requests, for any servers and terminals.                    *)
(***************************************************************************)
EXTENDS Services, TLAPS

-----------------------------------------------------------------------------
(* The inductive invariant                                                 *)

LifeShape ==
    /\ db \in NoFile .. Complete
    /\ loop \in [Loops -> {"none", "spawned", "running", "ended", "panicked"}]
    /\ plugin \in [is_start : BOOLEAN, is_init : BOOLEAN, is_run : BOOLEAN,
                   http_thread : BOOLEAN]
    /\ host \in {"idle", "started", "failed", "stopped", "aborted", "down"}
                   \cup Calling \cup Stopping
    /\ starts \in Nat

\* Outside of its creation the database file is complete or not there, unless
\* a creation was cut off; a start reads only a file that is there.
DbCreated ==
    /\ host # "create" => db \in {NoFile, Complete} \/ broken
    /\ host \in {"create", "stats", "config"} => db # NoFile

BeforeLoops == {"idle", "open", "create", "stats", "config", "data", "failed", "stopped"}

\* Which loops may be running, and which handles the plugin has, at each step
\* of start and stop: a loop that is not done has a handle that stop will await.
LoopsTracked ==
    /\ host \in BeforeLoops =>
         /\ Done("data") /\ Done("http")
         /\ ~plugin.is_run /\ ~plugin.http_thread
    /\ host = "http" => Done("http") /\ plugin.is_run /\ ~plugin.http_thread
    /\ host = "kickoff" => plugin.is_run
    /\ host = "started" => plugin.is_run /\ plugin.http_thread
    /\ host = "join_http" => plugin.is_run
    /\ host \in {"stop_data", "join_data"} => Done("http") /\ ~plugin.http_thread
    /\ host = "stop_data" => plugin.is_run \/ Done("data")
    /\ host \in Calling \cup {"started", "failed"} => plugin.is_start

\* During the first start the HTTP loop finds its receiver and is not told to
\* end: it stops only with the process, or in a panic when it begins.
FirstStart ==
    /\ starts = 0 /\ host # "down" => host = "idle"
    /\ starts <= 1 /\ host \in {"idle", "started"} \cup Calling =>
         /\ loop["http"] \in {"none", "spawned"} => "http" \in rx
         /\ "http" \notin notified
         /\ loop["http"] \in {"none", "spawned", "running", "panicked"} \/ exiting
         /\ host = "started" => loop["http"] \notin {"none", "spawned"}
         /\ host = "kickoff" <=> host # "started" /\ loop["http"] # "none"

LifeInv == LifeShape /\ DbCreated /\ LoopsTracked /\ FirstStart /\ AbortsExplained

LifeSpec == LifeInit /\ [][LifeNext]_lifeVars

-----------------------------------------------------------------------------
(* Every step keeps the invariant                                          *)

\* The first state of the plugin satisfies the invariant.
LEMMA LifeStarts == LifeInit => LifeInv
BY DEF LifeInit, LifeInv, LifeShape, DbCreated, LoopsTracked, FirstStart,
       AbortsExplained, Loaded, Loops, Calling, Stopping, BeforeLoops, Done,
       NoFile, Complete

\* A step of a call, of a loop or of the process keeps the invariant.
LEMMA LifeStep == LifeInv /\ [LifeNext]_lifeVars => LifeInv'
<1> SUFFICES ASSUME LifeInv, [LifeNext]_lifeVars
             PROVE  LifeInv'
    OBVIOUS
<1> USE DEF LifeInv, LifeShape, DbCreated, LoopsTracked, FirstStart,
            AbortsExplained, Loops, Calling, Stopping, BeforeLoops, Done,
            NoFile, Created, WithDomain, WithConfig, Complete
<1>1. CASE Start
  <2>1. LifeShape'
    <3>1. host' \in {"open", "failed"} /\ starts' \in Nat /\ UNCHANGED <<db, loop>>
        BY <1>1 DEF Start
    <3>2. plugin' \in [is_start : BOOLEAN, is_init : BOOLEAN, is_run : BOOLEAN,
                       http_thread : BOOLEAN]
        BY <1>1 DEF Start
    <3>3. QED
        BY <3>1, <3>2
  <2>2. DbCreated'
      BY <1>1 DEF Start
  <2>3. LoopsTracked'
      BY <1>1 DEF Start
  <2>4. FirstStart'
      BY <1>1 DEF Start
  <2>5. AbortsExplained'
      BY <1>1 DEF Start
  <2>6. QED
      BY <2>1, <2>2, <2>3, <2>4, <2>5
<1>2. CASE OpenDb
    BY <1>2 DEF OpenDb
<1>3. CASE CreateTable
    BY <1>3 DEF CreateTable
<1>4. CASE CreateFails
  <2>1. LifeShape'
      BY <1>4 DEF CreateFails
  <2>2. DbCreated'
      BY <1>4 DEF CreateFails
  <2>3. LoopsTracked'
      BY <1>4 DEF CreateFails
  <2>4. FirstStart'
      BY <1>4 DEF CreateFails
  <2>5. AbortsExplained'
      BY <1>4 DEF CreateFails
  <2>6. QED
      BY <2>1, <2>2, <2>3, <2>4, <2>5
<1>5. CASE InitStats
  <2>1. LifeShape'
      BY <1>5 DEF InitStats
  <2>2. DbCreated'
      BY <1>5 DEF InitStats
  <2>3. LoopsTracked'
      BY <1>5 DEF InitStats
  <2>4. FirstStart'
      BY <1>5 DEF InitStats
  <2>5. AbortsExplained'
      BY <1>5 DEF InitStats
  <2>6. QED
      BY <2>1, <2>2, <2>3, <2>4, <2>5
<1>6. CASE LoadConfig
    BY <1>6 DEF LoadConfig
<1>7. CASE StartDataServer
    BY <1>7 DEF StartDataServer
<1>8. CASE StartHttpServer
  <2>1. CASE poisoned
      BY <1>8, <2>1 DEF StartHttpServer
  <2>2. CASE ~poisoned
    <3>1. /\ host = "http" /\ host' = "kickoff"
          /\ loop' = [loop EXCEPT !["http"] = "spawned"]
          /\ UNCHANGED <<db, plugin, rx, notified, poisoned, exiting, starts, broken>>
        BY <1>8, <2>2 DEF StartHttpServer
    <3>2. LifeShape' /\ DbCreated'
        BY <3>1
    <3>3. LoopsTracked' /\ AbortsExplained'
        BY <3>1
    <3>4. FirstStart'
        BY <3>1
    <3>5. QED
        BY <3>2, <3>3, <3>4
  <2>3. QED
      BY <2>1, <2>2
<1>9. CASE Kickoff
  <2>1. LifeShape'
      BY <1>9 DEF Kickoff
  <2>2. DbCreated'
      BY <1>9 DEF Kickoff
  <2>3. LoopsTracked'
      BY <1>9 DEF Kickoff
  <2>4. FirstStart'
      BY <1>9 DEF Kickoff
  <2>5. AbortsExplained'
      BY <1>9 DEF Kickoff
  <2>6. QED
      BY <2>1, <2>2, <2>3, <2>4, <2>5
<1>10. CASE DataLoopBegins
    BY <1>10 DEF DataLoopBegins
<1>11. CASE HttpLoopBegins
    BY <1>11 DEF HttpLoopBegins
<1>12. CASE AcceptFails
  <2>1. LifeShape'
      BY <1>12 DEF AcceptFails
  <2>2. DbCreated'
      BY <1>12 DEF AcceptFails
  <2>3. LoopsTracked'
      BY <1>12 DEF AcceptFails
  <2>4. FirstStart'
      BY <1>12 DEF AcceptFails
  <2>5. AbortsExplained'
      BY <1>12 DEF AcceptFails
  <2>6. QED
      BY <2>1, <2>2, <2>3, <2>4, <2>5
<1>13. ASSUME NEW l \in Loops, LoopEnds(l)
      PROVE  LifeInv'
    BY <1>13 DEF LoopEnds
<1>14. CASE Stop
    BY <1>14 DEF Stop, Notify
<1>15. CASE JoinHttp
    BY <1>15 DEF JoinHttp
<1>16. CASE StopDataServer
    BY <1>16 DEF StopDataServer, Notify
<1>17. CASE JoinData
    BY <1>17 DEF JoinData
<1>18. CASE Kill
    BY <1>18 DEF Kill
<1>19. CASE Boot
    BY <1>19 DEF Boot, Fresh, Loaded
<1>20. CASE UNCHANGED lifeVars
    BY <1>20 DEF lifeVars
<1>21. QED
    BY <1>1, <1>2, <1>3, <1>4, <1>5, <1>6, <1>7, <1>8, <1>9, <1>10, <1>11,
       <1>12, <1>13, <1>14, <1>15, <1>16, <1>17, <1>18, <1>19, <1>20
       DEF LifeNext, InCall, LoopStep

-----------------------------------------------------------------------------
(* Theorems                                                                *)

\* The invariant gives the two properties of the life cycle.
LEMMA LifeInvImplies == LifeInv => LoopsFollowCalls /\ AbortsExplained
BY DEF LifeInv, LifeShape, LoopsTracked, FirstStart, LoopsFollowCalls, Loops,
       Calling, Stopping, BeforeLoops, Done

\* The requests that connections serve leave the life cycle alone: a step of
\* the composition is a step of the plugin, or none of its variables change.
LEMMA ServesLife == [ServicesNext]_vars => [LifeNext]_lifeVars
<1> SUFFICES ASSUME [ServicesNext]_vars
             PROVE  [LifeNext]_lifeVars
    OBVIOUS
<1>1. CASE Start \/ Stop \/ InCall \/ LoopStep \/ AcceptFails \/ Boot
    BY <1>1 DEF LifeNext
<1>2. CASE Kill
    BY <1>2 DEF LifeNext
<1>3. CASE UNCHANGED lifeVars
    BY <1>3
<1>4. QED
    BY <1>1, <1>2, <1>3 DEF ServicesNext, CallStep, vars

\* The composition implements the life cycle alone, whatever connections ask.
THEOREM ServicesImplementLife == ServicesSpec => LifeSpec
<1>1. ServicesInit => LifeInit
    BY DEF ServicesInit
<1>2. QED
    BY <1>1, ServesLife, PTL DEF ServicesSpec, LifeSpec

\* The inductive invariant holds of the plugin with all that it serves.
THEOREM LifeInvariant == ServicesSpec => []LifeInv
<1>1. LifeSpec => []LifeInv
    BY LifeStarts, LifeStep, PTL DEF LifeSpec
<1>2. QED
    BY <1>1, ServicesImplementLife, PTL

\* SmartdnsPlugin::start and stop: after a stop no loop runs or is still to
\* run, and after a first start that returned Ok the web interface listens,
\* unless the process was told to exit or the loop panicked when it began.
THEOREM LoopsCorrect == ServicesSpec => []LoopsFollowCalls
BY LifeInvariant, LifeInvImplies, PTL

\* SmartdnsPlugin::start: it brings the host down only after a creation of the
\* database that was cut off or after a loop that panicked.
THEOREM AbortsCorrect == ServicesSpec => []AbortsExplained
BY LifeInvariant, LifeInvImplies, PTL
-----------------------------------------------------------------------------
(* Why calls return and lookups end: CallsReturn and LookupEnds are about  *)
(* fair behaviours; what makes them true are the following facts, which    *)
(* hold of every behaviour.                                                *)

\* A loop that ends without being told anything more: it has a notification
\* waiting, or will find no receiver and panic.
Ending(l) ==
    \/ loop[l] \in {"spawned", "running"} /\ l \in notified
    \/ loop[l] = "spawned" /\ l \notin rx

\* A stop that waits for a loop waits for one that has ended or is ending.
WaitsEnd ==
    /\ host = "join_http" => Done("http") \/ Ending("http")
    /\ host = "join_data" => Done("data") \/ Ending("data")

\* A step of a call, of a loop or of the process keeps WaitsEnd.
LEMMA WaitsStep == LifeInv /\ WaitsEnd /\ [LifeNext]_lifeVars => WaitsEnd'
<1> SUFFICES ASSUME LifeInv, WaitsEnd, [LifeNext]_lifeVars
             PROVE  WaitsEnd'
    OBVIOUS
<1>s. loop \in [Loops -> {"none", "spawned", "running", "ended", "panicked"}]
    BY DEF LifeInv, LifeShape
<1> USE DEF WaitsEnd, Ending, Done, Loops
<1>1. CASE Start
    BY <1>1 DEF Start
<1>2. CASE Stop
    BY <1>s, <1>2 DEF Stop, Notify
<1>3. CASE OpenDb
    BY <1>3 DEF OpenDb
<1>4. CASE CreateTable \/ CreateFails
    BY <1>4 DEF CreateTable, CreateFails
<1>5. CASE InitStats \/ LoadConfig
    BY <1>5 DEF InitStats, LoadConfig
<1>6. CASE StartDataServer \/ StartHttpServer \/ Kickoff
    BY <1>6 DEF StartDataServer, StartHttpServer, Kickoff
<1>7. CASE JoinHttp \/ JoinData
    BY <1>7 DEF JoinHttp, JoinData
<1>8. CASE StopDataServer
    BY <1>s, <1>8 DEF StopDataServer, Notify
<1>9. CASE DataLoopBegins
    BY <1>s, <1>9 DEF DataLoopBegins
<1>10. CASE HttpLoopBegins
    BY <1>s, <1>10 DEF HttpLoopBegins
<1>11. ASSUME NEW l \in Loops, LoopEnds(l) PROVE WaitsEnd'
    BY <1>s, <1>11 DEF LoopEnds
<1>12. CASE AcceptFails
    BY <1>s, <1>12 DEF AcceptFails
<1>13. CASE Kill \/ Boot
    BY <1>13 DEF Kill, Boot, Fresh
<1>14. CASE UNCHANGED lifeVars
    BY <1>14 DEF lifeVars
<1>15. QED
    BY <1>1, <1>2, <1>3, <1>4, <1>5, <1>6, <1>7, <1>8, <1>9, <1>10, <1>11, <1>12, <1>13, <1>14
       DEF LifeNext, InCall, LoopStep

\* stop_http_server, stop_data_server: no stop waits for a loop that was not
\* told to end, whether the notification came before the loop began, while
\* it ran, or after it had ended.
THEOREM StopsAreHeard == ServicesSpec => []WaitsEnd
<1>1. LifeInit => WaitsEnd
    BY DEF LifeInit, WaitsEnd
<1>2. ServicesInit => LifeInit
    BY DEF ServicesInit
<1>3. LifeInv /\ WaitsEnd /\ [ServicesNext]_vars => WaitsEnd'
    BY ServesLife, WaitsStep
<1>4. QED
    BY <1>1, <1>2, <1>3, LifeInvariant, PTL DEF ServicesSpec

\* What is left of a call: its steps, the tables to create, and the stages of
\* the loops.
StepsLeft(h) ==
    CASE h = "open" -> 7 [] h = "create" -> 6 [] h = "stats" -> 5 [] h = "config" -> 4
      [] h = "data" -> 3 [] h = "http" -> 2 [] h = "kickoff" -> 1
      [] h = "join_http" -> 3 [] h = "stop_data" -> 2 [] h = "join_data" -> 1
      [] OTHER -> 0
Stages(state) == IF state = "spawned" THEN 2 ELSE IF state = "running" THEN 1 ELSE 0
StagesLeft == Stages(loop["data"]) + Stages(loop["http"])

\* The first of three natural numbers that changes gets smaller.
CallShrinks ==
    host \in Calling \cup Stopping /\ host' \in Calling \cup Stopping =>
      \/ StepsLeft(host') < StepsLeft(host)
      \/ host' = host /\ db' > db /\ db' <= Complete
      \/ host' = host /\ db' = db /\ StagesLeft' < StagesLeft

\* start and stop come to an end (CallsReturn, for threads that run on): each
\* step of the plugin during a call is one of finitely many.
THEOREM CallsShrink == ServicesSpec => [][CallShrinks]_lifeVars
<1>1. LifeInv /\ [LifeNext]_lifeVars => [CallShrinks]_lifeVars
  <2> SUFFICES ASSUME LifeInv, LifeNext PROVE CallShrinks
      BY DEF CallShrinks
  <2>s. /\ loop \in [Loops -> {"none", "spawned", "running", "ended", "panicked"}]
        /\ db \in 0..4
      BY DEF LifeInv, LifeShape, NoFile, Complete
  <2> USE DEF CallShrinks, Calling, Stopping
  <2>1. CASE Start \/ Stop \/ Kill \/ Boot
      BY <2>1 DEF Start, Stop, Kill, Boot, Fresh
  <2>2. CASE OpenDb
      BY <2>2 DEF OpenDb, StepsLeft
  <2>3. CASE CreateTable
      BY <2>s, <2>3 DEF CreateTable, StepsLeft, Complete
  <2>4. CASE CreateFails \/ JoinData \/ Kickoff
      BY <2>4 DEF CreateFails, JoinData, Kickoff
  <2>5. CASE InitStats \/ LoadConfig
      BY <2>5 DEF InitStats, LoadConfig, StepsLeft
  <2>6. CASE StartDataServer \/ StartHttpServer
      BY <2>6 DEF StartDataServer, StartHttpServer, StepsLeft
  <2>7. CASE JoinHttp \/ StopDataServer
      BY <2>7 DEF JoinHttp, StopDataServer, StepsLeft
  <2>8. CASE LoopStep \/ AcceptFails
    <3>1. host' = host /\ db' = db
        BY <2>8 DEF LoopStep, DataLoopBegins, HttpLoopBegins, LoopEnds, AcceptFails
    <3>2. \/ /\ loop'["http"] = loop["http"]
             /\ Stages(loop'["data"]) < Stages(loop["data"])
          \/ /\ loop'["data"] = loop["data"]
             /\ Stages(loop'["http"]) < Stages(loop["http"])
      <4>1. CASE DataLoopBegins
          BY <2>s, <4>1 DEF DataLoopBegins, Stages, Loops
      <4>2. CASE HttpLoopBegins
          BY <2>s, <4>2 DEF HttpLoopBegins, Stages, Loops
      <4>3. ASSUME NEW l \in Loops, LoopEnds(l)
            PROVE  \/ /\ loop'["http"] = loop["http"]
                      /\ Stages(loop'["data"]) < Stages(loop["data"])
                   \/ /\ loop'["data"] = loop["data"]
                      /\ Stages(loop'["http"]) < Stages(loop["http"])
          BY <2>s, <4>3 DEF LoopEnds, Stages, Loops
      <4>4. CASE AcceptFails
          BY <2>s, <4>4 DEF AcceptFails, Stages, Loops
      <4>5. QED
          BY <2>8, <4>1, <4>2, <4>3, <4>4 DEF LoopStep
    <3>3. \A s : Stages(s) \in 0..2
        BY DEF Stages
    <3>4. StagesLeft' < StagesLeft
        BY <3>2, <3>3 DEF StagesLeft
    <3>5. QED
        BY <3>1, <3>4
  <2>9. QED
      BY <2>1, <2>2, <2>3, <2>4, <2>5, <2>6, <2>7, <2>8 DEF LifeNext, InCall
<1>2. QED
    BY <1>1, ServicesImplementLife, LifeInvariant, PTL DEF LifeSpec
\* Servers, the servers remembered and the lookups are what they look like: a
\* lookup asks a server or none, for the domains that are left.
Asked == Servers \cup {NoServer}
Lookup == [st : {"none", "asking", "answered"}, left : Seq(Bases), server : Asked,
           last : {"nothing", "registrar", "organization"}, ok : BOOLEAN, odd : BOOLEAN]
LookupType ==
    /\ refer \in [Servers -> Asked]
    /\ server_lists \in [Bases -> Asked \cup {Unknown}]
    /\ query \in [Conns -> Lookup]

\* A lookup that begins asks a server or none.
LEMMA KnownServer ==
    ASSUME LookupType, NEW b \in Bases
    PROVE  GetServerByDomain(b) \in Asked
BY WhoIsAssumption DEF GetServerByDomain, LookupType, Asked, Bases

\* The end of a lookup.
LEMMA ReturnOf ==
    ASSUME NEW q \in Lookup, NEW ok \in BOOLEAN
    PROVE  /\ Return(q, ok) \in Lookup /\ Return(q, ok).st = "answered"
           /\ Answered(q) \in Lookup /\ Answered(q).st = "answered"
<1>1. << >> \in Seq(Bases) /\ NoServer \in Asked
    BY DEF Asked
<1>2. \A b \in BOOLEAN : Return(q, b) \in Lookup /\ Return(q, b).st = "answered"
    BY <1>1 DEF Return, Lookup
<1>3. (q.last = "registrar") \in BOOLEAN
    OBVIOUS
<1>4. QED
    BY <1>2, <1>3 DEF Answered

\* The next domain of a lookup is asked for, or the lookup is answered.
LEMMA NextDomainOf ==
    ASSUME LookupType, NEW q \in Lookup
    PROVE  /\ NextDomain(q) \in Lookup
           /\ NextDomain(q).st = "answered" \/ Len(NextDomain(q).left) < Len(q.left)
<1>1. CASE q.left = << >>
    BY <1>1, ReturnOf DEF NextDomain
<1>2. CASE q.left # << >>
  <2>1. Head(q.left) \in Bases /\ Tail(q.left) \in Seq(Bases) /\ Len(Tail(q.left)) < Len(q.left)
      BY <1>2 DEF Lookup
  <2>2. GetServerByDomain(Head(q.left)) \in Asked
      BY <2>1, KnownServer
  <2> DEFINE s == GetServerByDomain(Head(q.left))
             t == Tail(q.left)
  <2>3. NextDomain(q) = [q EXCEPT !.server = s, !.left = t]
      BY <1>2 DEF NextDomain
  <2>4. s \in Asked /\ t \in Seq(Bases) /\ Len(t) < Len(q.left)
      BY <2>1, <2>2
  <2> HIDE DEF s, t
  <2>5. QED
      BY <2>3, <2>4 DEF Lookup
<1>3. QED
    BY <1>1, <1>2

\* The ways in which servers can be ranked so that each refers down, to no
\* server, or to itself.  There is one if following the referrals ends.
Ranked(rank) ==
    /\ rank \in [Asked -> Nat]
    /\ \A s \in Servers : refer[s] # s => rank[refer[s]] < rank[s]

\* The first of two natural numbers that changes gets smaller: the domains to
\* ask for, and the rank of the server.
Nearer(q, r, rank) ==
    \/ Len(r.left) < Len(q.left)
    \/ r.left = q.left /\ rank[r.server] < rank[q.server]

LookupShrinks ==
    \A c \in Conns : query[c].st = "asking" /\ query'[c].st = "asking" /\ query'[c] # query[c] =>
        \A rank \in [Asked -> Nat] : Ranked(rank) => Nearer(query[c], query'[c], rank)

\* A step of a lookup.
LEMMA LookupStep ==
    ASSUME LookupType, NEW c \in Conns, WhoisStep(c)
    PROVE  /\ LookupType'
           /\ \A d \in Conns \ {c} : query'[d] = query[d]
           /\ query'[c].st = "asking" =>
                \A rank \in [Asked -> Nat] : Ranked(rank) => Nearer(query[c], query'[c], rank)
<1> DEFINE q == query[c]
           Goal(r) == r.st = "asking" =>
                        \A rank \in [Asked -> Nat] : Ranked(rank) => Nearer(q, r, rank)
<1>1. q \in Lookup
    BY DEF LookupType
<1>a. ASSUME NEW r \in Lookup, query' = [query EXCEPT ![c] = r], Goal(r),
             refer' = refer, server_lists' \in [Bases -> Asked \cup {Unknown}]
      PROVE  /\ LookupType'
             /\ \A d \in Conns \ {c} : query'[d] = query[d]
             /\ Goal(query'[c])
  <2>1. query'[c] = r
      BY <1>a DEF LookupType
  <2>2. LookupType'
      BY <1>a DEF LookupType
  <2>3. QED
      BY <1>a, <2>1, <2>2 DEF LookupType
<1>b. server_lists \in [Bases -> Asked \cup {Unknown}] /\ refer \in [Servers -> Asked]
    BY DEF LookupType
<1>2. CASE ServerFails(c)
  <2>1. Answered(q) \in Lookup /\ Answered(q).st = "answered"
      BY <1>1, ReturnOf
  <2>2. query' = [query EXCEPT ![c] = Answered(q)]
      BY <1>2 DEF ServerFails, LookupType
  <2> HIDE DEF q
  <2>3. QED
      BY <1>2, <1>a, <1>b, <2>1, <2>2 DEF ServerFails, q
<1>3. CASE NoReferral(c)
  <2>1. query' = [query EXCEPT ![c] = NextDomain(q)]
      BY <1>3 DEF NoReferral, LookupType
  <2>2. NextDomain(q) \in Lookup /\ Goal(NextDomain(q))
      BY <1>1, NextDomainOf DEF Nearer
  <2>3. refer' = refer /\ server_lists' = server_lists
      BY <1>3 DEF NoReferral
  <2> DEFINE r == NextDomain(q)
  <2>4. r \in Lookup /\ Goal(r) /\ query' = [query EXCEPT ![c] = r]
      BY <2>1, <2>2
  <2> HIDE DEF r, q
  <2>5. QED
      BY <1>a, <1>b, <2>3, <2>4 DEF q
<1>4. ASSUME NEW organization \in BOOLEAN, NEW registrar \in BOOLEAN,
             NEW about \in Bases \cup {Unknown}, ServerAnswers(c, organization, registrar, about)
      PROVE  /\ LookupType'
             /\ \A d \in Conns \ {c} : query'[d] = query[d]
             /\ Goal(query'[c])
  <2> DEFINE seen == [q EXCEPT !.odd = ~@,
                              !.last = IF organization THEN "organization"
                                       ELSE IF registrar THEN "registrar" ELSE @]
  <2>1. seen \in Lookup /\ seen.left = q.left /\ seen.server = q.server
      BY <1>1 DEF Lookup
  <2>2. q.server \in Servers /\ refer[q.server] \in Asked /\ refer' = refer
      BY <1>1, <1>4, <1>b DEF ServerAnswers, Lookup, Asked
  <2>3. CASE organization
    <3>1. query' = [query EXCEPT ![c] = Return(seen, TRUE)] /\ server_lists' = server_lists
        BY <1>4, <2>3 DEF ServerAnswers
    <3> HIDE DEF seen
    <3>2. Return(seen, TRUE) \in Lookup /\ Return(seen, TRUE).st = "answered"
        BY <2>1, ReturnOf
    <3> DEFINE r == Return(seen, TRUE)
    <3>3. r \in Lookup /\ Goal(r) /\ query' = [query EXCEPT ![c] = r]
        BY <3>1, <3>2
    <3> HIDE DEF r, q
    <3>4. QED
        BY <1>a, <1>b, <2>2, <3>1, <3>3 DEF q
  <2>4. CASE ~organization /\ ~RefersOn(q.server)
    <3>1. query' = [query EXCEPT ![c] = NextDomain(seen)] /\ server_lists' = server_lists
        BY <1>4, <2>4 DEF ServerAnswers
    <3> HIDE DEF seen
    <3>2. NextDomain(seen) \in Lookup /\ Goal(NextDomain(seen))
        BY <2>1, NextDomainOf DEF Nearer
    <3> DEFINE r == NextDomain(seen)
    <3>3. r \in Lookup /\ Goal(r) /\ query' = [query EXCEPT ![c] = r]
        BY <3>1, <3>2
    <3> HIDE DEF r, q
    <3>4. QED
        BY <1>a, <1>b, <2>2, <3>1, <3>3 DEF q
  <2>5. CASE ~organization /\ RefersOn(q.server)
    <3> DEFINE r == [seen EXCEPT !.server = refer[q.server]]
    <3>1. /\ query' = [query EXCEPT ![c] = r]
          /\ server_lists' = [b \in Bases |-> IF b = about THEN refer[q.server]
                                                          ELSE server_lists[b]]
        BY <1>4, <2>5 DEF ServerAnswers
    <3>2. server_lists' \in [Bases -> Asked \cup {Unknown}]
        BY <1>b, <2>2, <3>1
    <3> HIDE DEF seen
    <3>3. r \in Lookup /\ r.left = q.left /\ r.server = refer[q.server]
        BY <2>1, <2>2 DEF Lookup
    <3>4. refer[q.server] # q.server
        BY <2>5 DEF RefersOn
    <3> HIDE DEF r
    <3>5. Goal(r)
        BY <2>2, <3>3, <3>4 DEF Ranked, Nearer
    <3> HIDE DEF q
    <3>6. QED
        BY <1>a, <2>2, <3>1, <3>2, <3>3, <3>5 DEF q
  <2>6. QED
      BY <2>3, <2>4, <2>5
<1>5. QED
    BY <1>2, <1>3, <1>4 DEF WhoisStep

\* A step of the composition is a step of one lookup, a new one where none
\* was under way, the end of the process, or no step of a lookup at all.
LEMMA LookupSteps ==
    ASSUME [ServicesNext]_vars
    PROVE  \/ \E c \in Conns : WhoisStep(c)
           \/ \E c \in Conns : AskWhois(c) /\ query[c].st \in {"none", "answered"}
           \/ Forget
           \/ UNCHANGED whoisVars
BY DEF ServicesNext, CallStep, Connection, Free, vars

\* A new lookup, and the end of the process.
LEMMA LookupStarts ==
    ASSUME LookupType
    PROVE  /\ \A c \in Conns : AskWhois(c) =>
                LookupType' /\ \A d \in Conns \ {c} : query'[d] = query[d]
           /\ Forget => LookupType' /\ \A d \in Conns : query'[d].st = "none"
<1>0. NoQuery \in Lookup
    BY DEF NoQuery, Lookup, Asked
<1>1. ASSUME NEW c \in Conns, AskWhois(c)
      PROVE  LookupType' /\ \A d \in Conns \ {c} : query'[d] = query[d]
  <2>1. PICK list \in {<<"tld">>, <<"tld", "main">>} :
           query' = [query EXCEPT ![c] =
                       NextDomain([NoQuery EXCEPT !.st = "asking", !.left = list])]
      BY <1>1 DEF AskWhois
  <2>2. list \in Seq(Bases)
    <3>1. <<"tld">> \in Seq(Bases) /\ <<"tld", "main">> \in Seq(Bases)
        BY DEF Bases
    <3>2. QED
        BY <3>1
  <2> DEFINE new == [NoQuery EXCEPT !.st = "asking", !.left = list]
  <2>3. new \in Lookup
      BY <1>0, <2>2 DEF Lookup
  <2> HIDE DEF new
  <2>4. NextDomain(new) \in Lookup
      BY <2>3, NextDomainOf
  <2>5. query' = [query EXCEPT ![c] = NextDomain(new)]
      BY <2>1 DEF new
  <2>6. refer' = refer /\ server_lists' = server_lists
      BY <1>1 DEF AskWhois
  <2>7. QED
      BY <2>4, <2>5, <2>6 DEF LookupType
<1>2. ASSUME Forget PROVE LookupType' /\ \A d \in Conns : query'[d].st = "none"
    BY <1>0, <1>2 DEF Forget, LookupType, NoQuery
<1>3. QED
    BY <1>1, <1>2

\* Every step of the composition keeps the types and brings lookups nearer to
\* their end.
LEMMA LookupsKept ==
    ASSUME LookupType, [ServicesNext]_vars
    PROVE  LookupType' /\ LookupShrinks
<1>1. ASSUME NEW c \in Conns, WhoisStep(c) PROVE LookupType' /\ LookupShrinks
    BY <1>1, LookupStep DEF LookupShrinks
<1>2. ASSUME NEW c \in Conns, AskWhois(c), query[c].st \in {"none", "answered"}
      PROVE  LookupType' /\ LookupShrinks
    BY <1>2, LookupStarts DEF LookupShrinks
<1>3. CASE Forget
    BY <1>3, LookupStarts DEF LookupShrinks
<1>4. CASE UNCHANGED whoisVars
    BY <1>4 DEF LookupShrinks, LookupType, whoisVars
<1>5. QED
    BY <1>1, <1>2, <1>3, <1>4, LookupSteps

\* WhoIs: what server_lists remembers is a server or that there is none, and
\* so is what a lookup asks.
THEOREM LookupTypes == ServicesSpec => []LookupType
<1>1. ServicesInit => LookupType
    BY DEF ServicesInit, WhoisInit, LookupType, NoQuery, Lookup, Asked
<1>2. LookupType /\ [ServicesNext]_vars => LookupType'
    BY LookupsKept
<1>3. QED
    BY <1>1, <1>2, PTL DEF ServicesSpec

\* WhoIs::query comes to an end (LookupEnds, when servers answer or are given
\* up) where servers can be ranked so that each refers down: a step of a
\* lookup goes to a server of a lower rank or to the next of finitely many
\* domains, whatever other lookups put into server_lists meanwhile.
THEOREM LookupsShrink == ServicesSpec => [][LookupShrinks]_vars
<1>1. LookupType /\ [ServicesNext]_vars => [LookupShrinks]_vars
    BY LookupsKept
<1>2. QED
    BY <1>1, LookupTypes, PTL DEF ServicesSpec
-----------------------------------------------------------------------------
(* What becomes of a session whose peer leaves (ShellEnds)                 *)

Session == [st : {"none", "closed", "dropped"} \cup Serving,
            child : {"none", "alive", "exited", "reaped"},
            pause : BOOLEAN, inbox : Seq(Frames), pty : Nat, busy : BOOLEAN, out : Nat]

\* No frame is under way to a session that has ended.
SessionInv ==
    /\ term \in [Conns -> Session]
    /\ \A c \in Conns : term[c].st \notin Serving => term[c].inbox = << >>

\* The Close frame is under way in a session.
Closing(t) == \E i \in 1..Len(t.inbox) : t.inbox[i] = "close"

\* A session that a peer has closed does not lose the Close, and has no more
\* frames to take before it; it does not end with a shell that runs unless it
\* has failed.
Heard(t, u) ==
    Closing(t) =>
      \/ Closing(u) /\ (u.inbox = t.inbox \/ Len(u.inbox) < Len(t.inbox))
      \/ u.child \in {"none", "reaped"}
      \/ u.st = "dropped"

CloseHeard == \A c \in Conns : Heard(term[c], term'[c])

\* A loop and a shell that wait for each other go on waiting while the shell
\* lives.
Lasts(t, u) == WaitForEachOther(t) => WaitForEachOther(u) \/ u.child # "alive"

WaitsLast == \A c \in Conns : Lasts(term[c], term'[c])

\* A session after a step: of the same kind, without frames if it has ended.
GoodStep(t, u) ==
    /\ u \in Session
    /\ u.st \notin Serving => u.inbox = << >>
    /\ Heard(t, u)
    /\ Lasts(t, u)

\* Sessions that end, however they do.
LEMMA EndedSession ==
    ASSUME NEW t \in Session
    PROVE  /\ NoTerm \in Session
           /\ Cleanup(t) \in Session /\ Cleanup(t).inbox = << >> /\ Cleanup(t).child = "reaped"
           /\ Dropped(t) \in Session /\ Dropped(t).inbox = << >> /\ Dropped(t).st = "dropped"
           /\ Dropped(t).child = t.child
<1>1. << >> \in Seq(Frames)
    OBVIOUS
<1>2. NoTerm \in Session /\ NoTerm.inbox = << >>
    BY <1>1 DEF NoTerm, Session
<1>3. QED
    BY <1>2 DEF Cleanup, Dropped, Left, Session

\* They are good ends of a session; it fails only when its loop does not wait
\* for a shell that lives.
LEMMA EndedIsGood ==
    ASSUME NEW t \in Session, NEW s \in Session
    PROVE  /\ GoodStep(t, Cleanup(s))
           /\ t.st # "writing" \/ s.child # "alive" => GoodStep(t, Dropped(s))
<1>1. ASSUME NEW u \in Session, u.inbox = << >>, u.child = "reaped" \/ u.st = "dropped",
             t.st # "writing" \/ u.child # "alive"
      PROVE  GoodStep(t, u)
    BY <1>1 DEF GoodStep, Heard, Lasts, WaitForEachOther
<1>2. QED
    BY <1>1, EndedSession

\* A session that goes on with the same frames, and whose loop did not wait for
\* a shell that waits for it, or does not wait for less.
LEMMA SameFramesIsGood ==
    ASSUME NEW t \in Session, NEW u \in Session, u.inbox = t.inbox,
           u.st \in Serving \/ t.inbox = << >>,
           WaitForEachOther(t) => WaitForEachOther(u) \/ u.child # "alive"
    PROVE  GoodStep(t, u)
BY DEF GoodStep, Heard, Lasts, Closing

\* A write to the terminal, done or waiting.
LEMMA WriteOf ==
    ASSUME NEW t \in Session
    PROVE  /\ Write(t) \in Session /\ Write(t).inbox = t.inbox
           /\ Write(t).st \in {"open", "writing"}
<1>1. CASE t.pty < PtySize
  <2> DEFINE n == t.pty + 1
  <2>1. n \in Nat
      BY DEF Session
  <2>2. Write(t) = [t EXCEPT !.pty = n, !.st = "open"]
      BY <1>1 DEF Write
  <2> HIDE DEF n
  <2>3. QED
      BY <1>1, <2>1, <2>2 DEF Session, Serving
<1>2. CASE ~(t.pty < PtySize)
  <2>1. Write(t) = [t EXCEPT !.st = "writing"]
      BY <1>2 DEF Write
  <2>2. QED
      BY <1>2, <2>1 DEF Session, Serving
<1>3. QED
    BY <1>1, <1>2

\* What a session that is open takes brings it nearer to its end.
LEMMA TakenIsGood ==
    ASSUME NEW t \in Session, t.st = "open", t.inbox # << >>
    PROVE  GoodStep(t, Taken([t EXCEPT !.inbox = Tail(@)], Head(t.inbox)))
<1> DEFINE rest == Tail(t.inbox)
           s == [t EXCEPT !.inbox = rest]
           f == Head(t.inbox)
<1>1. /\ f \in Frames /\ rest \in Seq(Frames) /\ Len(rest) = Len(t.inbox) - 1
      /\ Len(t.inbox) \in Nat \ {0} /\ f = t.inbox[1]
      /\ \A i \in 1..(Len(t.inbox) - 1) : rest[i] = t.inbox[i + 1]
    BY DEF Session
<1> HIDE DEF rest
<1>2. s \in Session /\ s.st = "open" /\ s.inbox = rest
    BY <1>1 DEF Session
<1> HIDE DEF s
<1>3. ASSUME NEW u \in Session, u.inbox = rest, u.st \in {"open", "writing"}, f # "close"
      PROVE  GoodStep(t, u)
  <2>1. ASSUME Closing(t) PROVE Closing(u)
    <3>1. PICK i \in 1..Len(t.inbox) : t.inbox[i] = "close"
        BY <2>1 DEF Closing
    <3>2. i - 1 \in 1..(Len(t.inbox) - 1) /\ (i - 1) + 1 = i
        BY <1>1, <1>3, <3>1
    <3>3. rest[i - 1] = "close"
        BY <1>1, <3>1, <3>2
    <3>4. i - 1 \in 1..Len(u.inbox) /\ u.inbox[i - 1] = "close"
        BY <1>1, <1>3, <3>2, <3>3
    <3>5. QED
        BY <3>4 DEF Closing
  <2>2. Len(u.inbox) < Len(t.inbox)
      BY <1>1, <1>3
  <2>3. Lasts(t, u)
      BY DEF Lasts, WaitForEachOther
  <2>4. QED
      BY <1>3, <2>1, <2>2, <2>3 DEF GoodStep, Heard, Serving
<1>4. CASE f = "data"
  <2>1. Write(s) \in Session /\ Write(s).inbox = rest /\ Write(s).st \in {"open", "writing"}
      BY <1>2, WriteOf
  <2>2. Taken(s, f) = Write(s)
      BY <1>4 DEF Taken
  <2>3. QED
      BY <1>3, <1>4, <2>1, <2>2 DEF s, rest, f
<1>5. CASE f \in {"pause", "resume"}
  <2>1. \A b \in BOOLEAN : /\ [s EXCEPT !.pause = b] \in Session
                            /\ [s EXCEPT !.pause = b].inbox = rest
                            /\ [s EXCEPT !.pause = b].st = "open"
      BY <1>2 DEF Session
  <2>2. PICK b \in BOOLEAN : Taken(s, f) = [s EXCEPT !.pause = b]
      BY <1>5 DEF Taken
  <2>3. GoodStep(t, [s EXCEPT !.pause = b])
      BY <1>3, <1>5, <2>1
  <2>4. QED
      BY <2>2, <2>3 DEF s, rest, f
<1>6. CASE f \in {"invalid", "close", "short_resize", "gone"}
  <2>1. Taken(s, f) \in {Cleanup(s), Dropped(s)}
      BY <1>6 DEF Taken
  <2>2. QED
      BY <1>2, <2>1, EndedIsGood DEF s, rest, f
<1>7. QED
    BY <1>1, <1>4, <1>5, <1>6 DEF Frames

\* A read of output, with the send that may wait or fail, and the end of the
\* shell.
LEMMA ReadIsGood ==
    ASSUME SessionInv, NEW c \in Conns, ReadOutput(c) \/ ReadEnd(c) \/ Sent(c)
    PROVE  \E u : GoodStep(term[c], u) /\ term' = [term EXCEPT ![c] = u]
<1> DEFINE t == term[c]
<1>1. t \in Session
    BY DEF SessionInv
<1>2. CASE ReadOutput(c)
  <2> DEFINE n == t.out - 1
             read == [t EXCEPT !.out = n]
  <2>1. t.st = "open" /\ t.out > 0
        /\ \E u \in {read, [read EXCEPT !.st = "sending"], Dropped(read)} :
              term' = [term EXCEPT ![c] = u]
      BY <1>2 DEF ReadOutput, Set
  <2>2. n \in Nat
      BY <1>1, <2>1 DEF Session
  <2> HIDE DEF n
  <2>3. /\ read \in Session /\ read.inbox = t.inbox /\ read.st = "open"
        /\ [read EXCEPT !.st = "sending"] \in Session
        /\ [read EXCEPT !.st = "sending"].inbox = t.inbox
        /\ [read EXCEPT !.st = "sending"].st = "sending"
      BY <1>1, <2>1, <2>2 DEF Session, Serving
  <2>4. ~WaitForEachOther(t)
      BY <2>1 DEF WaitForEachOther
  <2> HIDE DEF read
  <2>5. GoodStep(t, read) /\ GoodStep(t, [read EXCEPT !.st = "sending"])
      BY <1>1, <2>3, <2>4, SameFramesIsGood DEF Serving
  <2>6. GoodStep(t, Dropped(read))
      BY <1>1, <2>1, <2>3, EndedIsGood
  <2>7. QED
      BY <2>1, <2>5, <2>6
<1>3. CASE ReadEnd(c) \/ Sent(c)
  <2>1. t.st \in {"open", "sending", "ending"}
        /\ \E u \in {Cleanup(t), Dropped(t), [t EXCEPT !.st = "ending"], [t EXCEPT !.st = "open"]} :
              term' = [term EXCEPT ![c] = u]
      BY <1>3 DEF ReadEnd, Sent, Set
  <2>2. \A st \in Serving : /\ [t EXCEPT !.st = st] \in Session
                            /\ [t EXCEPT !.st = st].inbox = t.inbox
                            /\ [t EXCEPT !.st = st].st = st
      BY <1>1 DEF Session
  <2>3. ~WaitForEachOther(t)
      BY <2>1 DEF WaitForEachOther
  <2>4. ASSUME NEW st \in Serving PROVE GoodStep(t, [t EXCEPT !.st = st])
    <3> DEFINE u == [t EXCEPT !.st = st]
    <3>1. u \in Session /\ u.inbox = t.inbox /\ u.st \in Serving
        BY <2>2
    <3> HIDE DEF u
    <3>2. GoodStep(t, u)
        BY <1>1, <2>3, <3>1, SameFramesIsGood
    <3>3. QED
        BY <3>2 DEF u
  <2>5. GoodStep(t, Cleanup(t)) /\ GoodStep(t, Dropped(t))
      BY <1>1, <2>1, EndedIsGood
  <2>6. QED
      BY <2>1, <2>4, <2>5 DEF Serving
<1>4. QED
    BY <1>2, <1>3

\* A step of the shell, which says, writes, reads or ends.
LEMMA ShellIsGood ==
    ASSUME SessionInv, NEW c \in Conns,
           ShellSays(c) \/ ShellWrites(c) \/ ShellReads(c) \/ ShellExits(c)
    PROVE  \E u : GoodStep(term[c], u) /\ term' = [term EXCEPT ![c] = u]
<1> DEFINE t == term[c]
<1>1. t \in Session /\ (t.st \notin Serving => t.inbox = << >>)
    BY DEF SessionInv
<1>2. CASE ShellSays(c)
  <2> DEFINE u == [t EXCEPT !.busy = TRUE]
  <2>1. ~t.busy /\ term' = [term EXCEPT ![c] = u]
      BY <1>2 DEF ShellSays, Set
  <2>2. u \in Session /\ u.inbox = t.inbox /\ u.st = t.st
      BY <1>1 DEF Session
  <2>3. ~WaitForEachOther(t)
      BY <2>1 DEF WaitForEachOther
  <2> HIDE DEF u
  <2>4. GoodStep(t, u)
      BY <1>1, <2>2, <2>3, SameFramesIsGood
  <2>5. QED
      BY <2>1, <2>4
<1>3. CASE ShellWrites(c)
  <2>1. PICK busy \in BOOLEAN :
           t.out < OutSize /\ term' = [term EXCEPT ![c] = [t EXCEPT !.out = @ + 1, !.busy = busy]]
      BY <1>3 DEF ShellWrites, Set
  <2> DEFINE n == t.out + 1
             u == [t EXCEPT !.out = n, !.busy = busy]
  <2>2. n \in Nat
      BY <1>1 DEF Session
  <2>3. ~WaitForEachOther(t)
      BY <1>1, <2>1 DEF WaitForEachOther, Session
  <2>4. term' = [term EXCEPT ![c] = u]
      BY <2>1
  <2> HIDE DEF n
  <2>5. u \in Session /\ u.inbox = t.inbox /\ u.st = t.st
      BY <1>1, <2>2 DEF Session
  <2> HIDE DEF u
  <2>6. GoodStep(t, u)
      BY <1>1, <2>3, <2>5, SameFramesIsGood
  <2>7. QED
      BY <2>4, <2>6
<1>4. CASE ShellReads(c)
  <2> DEFINE n == t.pty - 1
             u == [t EXCEPT !.pty = n]
  <2>1. t.pty > 0 /\ ~t.busy /\ term' = [term EXCEPT ![c] = u]
      BY <1>4 DEF ShellReads, Set
  <2>2. n \in Nat
      BY <1>1, <2>1 DEF Session
  <2>3. ~WaitForEachOther(t)
      BY <2>1 DEF WaitForEachOther
  <2> HIDE DEF n
  <2>4. u \in Session /\ u.inbox = t.inbox /\ u.st = t.st
      BY <1>1, <2>2 DEF Session
  <2> HIDE DEF u
  <2>5. GoodStep(t, u)
      BY <1>1, <2>3, <2>4, SameFramesIsGood
  <2>6. QED
      BY <2>1, <2>5
<1>5. CASE ShellExits(c)
  <2> DEFINE u == [t EXCEPT !.child = "exited", !.busy = FALSE]
  <2>1. term' = [term EXCEPT ![c] = u]
      BY <1>5 DEF ShellExits, Set
  <2>2. u \in Session /\ u.inbox = t.inbox /\ u.st = t.st /\ u.child = "exited"
      BY <1>1 DEF Session
  <2> HIDE DEF u
  <2>3. GoodStep(t, u)
      BY <1>1, <2>2, SameFramesIsGood
  <2>4. QED
      BY <2>1, <2>3
<1>6. QED
    BY <1>2, <1>3, <1>4, <1>5

\* A step of a session, of its shell or of its peer.
LEMMA SessionStep ==
    ASSUME SessionInv, NEW c \in Conns, TermStep(c)
    PROVE  \E u : GoodStep(term[c], u) /\ term' = [term EXCEPT ![c] = u]
<1> DEFINE t == term[c]
<1>1. t \in Session /\ (t.st \notin Serving => t.inbox = << >>)
    BY DEF SessionInv
<1>2. CASE TakeFrame(c)
  <2> DEFINE u == Taken([t EXCEPT !.inbox = Tail(@)], Head(t.inbox))
  <2>1. t.st = "open" /\ t.inbox # << >> /\ term' = [term EXCEPT ![c] = u]
      BY <1>2 DEF TakeFrame, Set
  <2>2. GoodStep(t, u)
      BY <1>1, <2>1, TakenIsGood
  <2> HIDE DEF u
  <2>3. QED
      BY <2>1, <2>2
<1>3. CASE Written(c)
  <2>1. CASE t.child = "exited" /\ term' = [term EXCEPT ![c] = Dropped(t)]
      BY <1>1, <2>1, EndedIsGood
  <2>2. CASE t.pty < PtySize /\ term' = [term EXCEPT ![c] = Write(t)]
    <3> DEFINE u == Write(t)
    <3>1. u \in Session /\ u.inbox = t.inbox /\ u.st \in Serving
        BY <1>1, WriteOf DEF Serving
    <3>2. ~WaitForEachOther(t)
        BY <1>1, <2>2 DEF WaitForEachOther, Session
    <3> HIDE DEF u
    <3>3. GoodStep(t, u)
        BY <1>1, <3>1, <3>2, SameFramesIsGood
    <3>4. QED
        BY <2>2, <3>3 DEF u
  <2>3. QED
      BY <1>3, <2>1, <2>2 DEF Written, Set
<1>4. ASSUME NEW frame \in Frames, PeerSends(c, frame)
      PROVE  \E u : GoodStep(t, u) /\ term' = [term EXCEPT ![c] = u]
  <2> DEFINE box == Append(t.inbox, frame)
             u == [t EXCEPT !.inbox = box]
  <2>1. /\ term' = [term EXCEPT ![c] = u] /\ t.st \in Serving
        /\ ~Closing(t)
      BY <1>4 DEF PeerSends, Set, Closing
  <2>2. box \in Seq(Frames)
      BY <1>1 DEF Session
  <2> HIDE DEF box
  <2>3. u \in Session /\ u.st = t.st /\ Lasts(t, u)
      BY <1>1, <2>2 DEF Session, Lasts, WaitForEachOther
  <2> HIDE DEF u
  <2>4. GoodStep(t, u)
      BY <2>1, <2>3 DEF GoodStep, Heard
  <2>5. QED
      BY <2>1, <2>4
<1>5. QED
    BY <1>2, <1>3, <1>4, ReadIsGood, ShellIsGood DEF TermStep, LoopReads, TermEnv

\* A session that begins, where the one before it has ended.
LEMMA SessionStarts ==
    ASSUME SessionInv, NEW c \in Conns, TermOpen(c), term[c].st \in {"none", "closed"}
    PROVE  \E u : GoodStep(term[c], u) /\ term' = [term EXCEPT ![c] = u]
<1>1. NoTerm \in Session /\ NoTerm.inbox = << >>
    BY EndedSession DEF NoTerm, SessionInv
<1>2. ~Closing(term[c]) /\ ~WaitForEachOther(term[c])
    BY DEF SessionInv, Closing, WaitForEachOther, Serving
<1>3. PICK u : term' = [term EXCEPT ![c] = u]
               /\ u \in {[NoTerm EXCEPT !.st = "open", !.child = "alive"],
                         [NoTerm EXCEPT !.st = "closed"], Cleanup(NoTerm)}
    BY DEF TermOpen, Set
<1>4. u \in Session /\ u.inbox = << >>
  <2>1. Cleanup(NoTerm) \in Session /\ Cleanup(NoTerm).inbox = << >>
      BY <1>1, EndedSession
  <2>2. [NoTerm EXCEPT !.st = "open", !.child = "alive"] \in Session
      BY <1>1 DEF Session, Serving
  <2>3. [NoTerm EXCEPT !.st = "closed"] \in Session
      BY <1>1 DEF Session
  <2>4. /\ [NoTerm EXCEPT !.st = "open", !.child = "alive"].inbox = << >>
        /\ [NoTerm EXCEPT !.st = "closed"].inbox = << >>
      BY <1>1 DEF Session
  <2>5. QED
      BY <1>3, <2>1, <2>2, <2>3, <2>4
<1>5. GoodStep(term[c], u)
    BY <1>2, <1>4 DEF GoodStep, Heard, Lasts
<1>6. QED
    BY <1>3, <1>5

\* Every step of the composition is a good one of each session.
LEMMA SessionsKept ==
    ASSUME SessionInv, [ServicesNext]_vars
    PROVE  SessionInv' /\ CloseHeard /\ WaitsLast
<1>1. ASSUME NEW c \in Conns, NEW u, GoodStep(term[c], u), term' = [term EXCEPT ![c] = u]
      PROVE  SessionInv' /\ CloseHeard /\ WaitsLast
  <2>1. term'[c] = u /\ \A d \in Conns \ {c} : term'[d] = term[d]
      BY <1>1 DEF SessionInv
  <2>2. SessionInv'
      BY <1>1, <2>1 DEF SessionInv, GoodStep
  <2>3. \A d \in Conns \ {c} : Heard(term[d], term'[d]) /\ Lasts(term[d], term'[d])
      BY <2>1 DEF Heard, Lasts
  <2>4. Heard(term[c], term'[c]) /\ Lasts(term[c], term'[c])
      BY <1>1, <2>1 DEF GoodStep
  <2>5. QED
      BY <2>2, <2>3, <2>4 DEF CloseHeard, WaitsLast
<1>2. ASSUME NEW c \in Conns, TermStep(c)
      PROVE  SessionInv' /\ CloseHeard /\ WaitsLast
    BY <1>1, <1>2, SessionStep
<1>3. ASSUME NEW c \in Conns, TermOpen(c), term[c].st \in {"none", "closed"}
      PROVE  SessionInv' /\ CloseHeard /\ WaitsLast
    BY <1>1, <1>3, SessionStarts
<1>4. CASE Forget
  <2>1. NoTerm \in Session /\ NoTerm.inbox = << >> /\ NoTerm.child = "none"
      BY DEF NoTerm, Session
  <2>2. \A c \in Conns : term'[c] = NoTerm
      BY <1>4 DEF Forget
  <2>3. SessionInv'
      BY <1>4, <2>1 DEF Forget, SessionInv
  <2>4. \A t : Heard(t, NoTerm) /\ Lasts(t, NoTerm)
      BY <2>1 DEF Heard, Lasts
  <2>5. QED
      BY <2>2, <2>3, <2>4 DEF CloseHeard, WaitsLast
<1>5. CASE UNCHANGED term
    BY <1>5 DEF SessionInv, CloseHeard, WaitsLast, Heard, Lasts
<1>6. QED
    BY <1>2, <1>3, <1>4, <1>5 DEF ServicesNext, CallStep, Connection, Free, vars

\* Sessions are well formed, and no frame is under way to one that has ended.
THEOREM TerminalsCorrect == ServicesSpec => []SessionInv
<1>1. ServicesInit => SessionInv
    BY DEF ServicesInit, TermInit, SessionInv, NoTerm, Session
<1>2. SessionInv /\ [ServicesNext]_vars => SessionInv'
    BY SessionsKept
<1>3. QED
    BY <1>1, <1>2, PTL DEF ServicesSpec

\* serve_term: what makes ShellEnds true.  The Close of a peer stays under way,
\* with no more frames before it, until the session ends; and it ends with no
\* shell that runs, unless it has failed.
THEOREM ClosesHeard == ServicesSpec => [][CloseHeard]_vars
<1>1. SessionInv /\ [ServicesNext]_vars => [CloseHeard]_vars
    BY SessionsKept
<1>2. QED
    BY <1>1, TerminalsCorrect, PTL DEF ServicesSpec

\* serve_term: why ShellEnds leaves out by name a loop and a shell that wait
\* for each other.  Nothing that the peer sends or reads, nor the loop or the
\* shell, ends this wait while the shell lives.
THEOREM MutualWaitLasts == ServicesSpec => [][WaitsLast]_vars
<1>1. SessionInv /\ [ServicesNext]_vars => [WaitsLast]_vars
    BY SessionsKept
<1>2. QED
    BY <1>1, TerminalsCorrect, PTL DEF ServicesSpec
=============================================================================
