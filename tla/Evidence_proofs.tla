-------------------------- MODULE Evidence_proofs ---------------------------
(***************************************************************************)
(* Theorems about research, the index of images and the evidence of media: *)
(* LimitsHold, for any threads and delays, IndexIsTrue, for any media and  *)
(* methods, and NothingIsHidden, for any media, tools and answers.         *)
(***************************************************************************)
EXTENDS GdeltResearch, VisualIndex, MediaProcessing,
        FiniteSetTheorems, SequenceTheorems, WellFoundedInduction, TLAPS

LEMMA LessOfTwo ==
    ASSUME NEW a \in Int, NEW b \in Int
    PROVE  Min({a, b}) = IF a <= b THEN a ELSE b
<1>1. \E x \in {a, b} : \A y \in {a, b} : x <= y
  OBVIOUS
<1>2. Min({a, b}) \in {a, b} /\ \A y \in {a, b} : Min({a, b}) <= y
  BY <1>1 DEF Min
<1> QED  BY <1>2

-----------------------------------------------------------------------------
(* Research.                                                                *)

Places == {"waiting", "gdelt", "load", "space", "send", "response", "backoff", "save", "write", "web", "done"}
Searching == {"load", "space", "send", "response", "backoff", "save", "write"}

\* The requests that a place stands for beyond those of the attempts counted.
Sent(place) == IF place \in {"response", "save", "write"} THEN 1 ELSE 0

\* How far the search for a claim is, and what it has cost and kept.
Progress(c) ==
    /\ thread[c] \in Places
    /\ position[c].query \in Nat \ {0} /\ position[c].attempt \in Nat /\ position[c].attempt <= MaxRetries
    /\ position[c].query <= MaxQueries
    /\ requests[c] \in Nat /\ kept[c] \in Nat
    /\ thread[c] \in {"waiting", "gdelt"} =>
          position[c].query = 1 /\ position[c].attempt = 0 /\ requests[c] = 0 /\ kept[c] = 0
    /\ thread[c] = "load" => position[c].attempt = 0
    /\ thread[c] \in Searching =>
          /\ position[c].query <= Len(ToSend(c))
          /\ requests[c] <= (position[c].query - 1) * (MaxRetries + 1) + position[c].attempt + Sent(thread[c])
          /\ kept[c] <= MaxRecords + position[c].query - 2
    /\ thread[c] \in {"web", "done"} =>
          requests[c] <= Len(ToSend(c)) * (MaxRetries + 1) /\ kept[c] <= MaxRecords + MaxQueries - 1

Shaped ==
    /\ thread \in [Claims -> Places] /\ DOMAIN requests = Claims /\ DOMAIN kept = Claims
    /\ DOMAIN position = Claims
    /\ \A c \in Claims : DOMAIN position[c] = {"query", "attempt"}

ProgressInvariant == Shaped /\ \A c \in Claims : Progress(c)

\* A claim sends no more queries than it may.
LEMMA QueriesToSend ==
    ASSUME NEW c \in Claims
    PROVE  /\ Len(ToSend(c)) \in Nat /\ Len(ToSend(c)) <= MaxQueries
           /\ ToSend(c) = <<>> <=> Len(ToSend(c)) = 0
<1> DEFINE n == Len(Queries[c])
           m == Min({MaxQueries, n})
<1>1. Queries[c] \in Seq(STRING) /\ MaxQueries \in Nat \ {0}
  BY GdeltAssumption DEF GdeltAssumption
<1>2. n \in Nat
  BY <1>1
<1>3. m = IF MaxQueries <= n THEN MaxQueries ELSE n
  <2> HIDE DEF n
  <2> QED  BY <1>1, <1>2, LessOfTwo
<1>4. m \in 0 .. n /\ m <= MaxQueries
  BY <1>1, <1>2, <1>3
<1>5. ToSend(c) = SubSeq(Queries[c], 1, m)
  BY DEF ToSend
<1> HIDE DEF m
<1>6. Len(ToSend(c)) = m /\ ToSend(c) \in Seq(STRING)
  BY <1>1, <1>4, <1>5
<1> QED  BY <1>4, <1>6

\* What is not of claim c stays.
LEMMA OthersProgress ==
    ASSUME ProgressInvariant, Shaped', NEW c \in Claims, Progress(c)',
           \A d \in Claims \ {c} : /\ thread'[d] = thread[d] /\ position'[d] = position[d]
                                   /\ requests'[d] = requests[d] /\ kept'[d] = kept[d]
    PROVE  ProgressInvariant'
<1>1. ASSUME NEW d \in Claims \ {c}  PROVE Progress(d)'
  BY <1>1 DEF ProgressInvariant, Progress, ToSend
<1> QED  BY <1>1 DEF ProgressInvariant

\* A claim that only moves on, without the end of a query.
LEMMA MoveProgress ==
    ASSUME ProgressInvariant, NEW c \in Claims, NEW place \in Places,
           Goto(c, place), UNCHANGED <<position, requests, kept>>,
           \/ thread[c] = "waiting" /\ place = "gdelt"
           \/ thread[c] = "gdelt" /\ place = "web"
           \/ thread[c] = "gdelt" /\ place = "load" /\ 1 <= Len(ToSend(c))
           \/ thread[c] \in Searching /\ place \in Searching \ {"load"} /\ Sent(place) = Sent(thread[c])
           \/ thread[c] = "web" /\ place = "done"
    PROVE  ProgressInvariant'
<1>1. thread' = [thread EXCEPT ![c] = place]
  BY DEF Goto
<1>2. Shaped'
  BY <1>1 DEF ProgressInvariant, Shaped
<1>3. /\ thread'[c] = place /\ position'[c] = position[c] /\ requests'[c] = requests[c] /\ kept'[c] = kept[c]
      /\ \A d \in Claims \ {c} : thread'[d] = thread[d]
  BY <1>1 DEF ProgressInvariant, Shaped
<1>4. MaxRecords \in Nat \ {0} /\ MaxQueries \in Nat \ {0} /\ MaxRetries \in Nat /\ Len(ToSend(c)) \in Nat
  BY GdeltAssumption, QueriesToSend DEF GdeltAssumption
<1>5. Len(ToSend(c)) * (MaxRetries + 1) \in Nat
  BY <1>4
<1>6. Progress(c)
  BY DEF ProgressInvariant
<1>7. Progress(c)'
  <2> USE <1>3, <1>4, <1>6 DEF Progress, Sent, Places, Searching
  <2>1. CASE thread[c] = "waiting" /\ place = "gdelt"
    BY <2>1
  <2>2. CASE thread[c] = "gdelt" /\ place = "web"
    BY <2>2, <1>5
  <2>3. CASE thread[c] = "gdelt" /\ place = "load" /\ 1 <= Len(ToSend(c))
    <3>1. /\ position[c].query = 1 /\ position[c].attempt = 0 /\ requests[c] = 0 /\ kept[c] = 0
          /\ position'[c].query = 1 /\ position'[c].attempt = 0 /\ requests'[c] = 0 /\ kept'[c] = 0
      BY <2>3
    <3>2. (1 - 1) * (MaxRetries + 1) = 0
      BY <1>4
    <3>3. 1 <= MaxQueries
      BY <1>4
    <3>4. 0 <= (1 - 1) * (MaxRetries + 1) + 0 + Sent("load") /\ 0 <= MaxRecords + 1 - 2
      BY <1>4, <3>2
    <3> QED  BY <2>3, <3>1, <3>3, <3>4
  <2>4. CASE thread[c] \in Searching /\ place \in Searching \ {"load"} /\ Sent(place) = Sent(thread[c])
    BY <2>4
  <2>5. CASE thread[c] = "web" /\ place = "done"
    BY <2>5
  <2> QED  BY <2>1, <2>2, <2>3, <2>4, <2>5
<1> QED  BY <1>2, <1>3, <1>7, OthersProgress

\* What a query may cost is what its retries may.
LEMMA CostOfQuery ==
    ASSUME NEW q \in Nat \ {0}, NEW n \in Nat, q <= n, NEW r \in Nat
    PROVE  /\ (q - 1) * (r + 1) \in Nat /\ (q - 1) * (r + 1) + r + 1 = q * (r + 1)
           /\ q * (r + 1) <= n * (r + 1) /\ ((q + 1) - 1) * (r + 1) = q * (r + 1)
<1>1. q = (q - 1) + 1 /\ q - 1 \in Nat
  OBVIOUS
<1>2. (q - 1) * (r + 1) \in Nat
  BY <1>1
<1>3. ((q - 1) + 1) * (r + 1) = (q - 1) * (r + 1) + r + 1
  OBVIOUS
<1>4. q * (r + 1) <= n * (r + 1)
  <2>1. PICK k \in Nat : n = q + k
    <3>1. n - q \in Nat /\ n = q + (n - q)
      OBVIOUS
    <3> QED  BY <3>1
  <2>2. k * (r + 1) \in Nat /\ q * (r + 1) \in Nat
    OBVIOUS
  <2>3. (q + k) * (r + 1) = q * (r + 1) + k * (r + 1)
    OBVIOUS
  <2> QED  BY <2>1, <2>2, <2>3
<1>5. (q + 1) - 1 = q
  OBVIOUS
<1> QED  BY <1>1, <1>2, <1>3, <1>4, <1>5

\* What is kept is at least what was, and passes the limit by one at most.
LEMMA KeptGrows ==
    ASSUME NEW c \in Claims, kept[c] \in Nat, NEW new \in 0 .. MaxArticles
    PROVE  /\ Kept(c, new) \in Nat
           /\ Kept(c, new) <= MaxRecords \/ Kept(c, new) <= kept[c] + 1
<1>1. MaxRecords \in Nat \ {0} /\ MaxArticles \in Nat
  BY GdeltAssumption DEF GdeltAssumption
<1>2. kept[c] \in Int /\ MaxRecords - kept[c] \in Int /\ new \in Nat /\ new \in Int
  BY <1>1
<1> DEFINE room == MaxRecords - kept[c]
           m == Max({1, room})
<1>3. m = IF room <= 1 THEN 1 ELSE room
  <2>0. room \in Int
    BY <1>2
  <2> HIDE DEF room
  <2>1. \E x \in {1, room} : \A y \in {1, room} : x >= y
    BY <2>0
  <2>2. Max({1, room}) \in {1, room} /\ \A y \in {1, room} : Max({1, room}) >= y
    BY <2>1 DEF Max
  <2> QED  BY <2>0, <2>2
<1>4. m \in Int
  BY <1>2, <1>3
<1>5. Min({new, m}) = IF new <= m THEN new ELSE m
  <2> HIDE DEF m
  <2> QED  BY <1>2, <1>4, LessOfTwo
<1>6. Kept(c, new) = kept[c] + Min({new, m})
  BY DEF Kept
<1> HIDE DEF m
<1> QED  BY <1>1, <1>2, <1>3, <1>5, <1>6

\* The articles of a query are taken, and the next query or the web follows.
LEMMA TakeProgress ==
    ASSUME ProgressInvariant, NEW c \in Claims, thread[c] \in {"load", "write"},
           TakeArticles(c), AfterQuery(c), UNCHANGED requests
    PROVE  ProgressInvariant'
<1>1. PICK new \in 0 .. MaxArticles : kept' = [kept EXCEPT ![c] = Kept(c, new)]
  BY DEF TakeArticles
<1>2. Progress(c) /\ Shaped
  BY DEF ProgressInvariant
<1>3. /\ MaxRecords \in Nat \ {0} /\ MaxQueries \in Nat \ {0} /\ MaxRetries \in Nat
      /\ Len(ToSend(c)) \in Nat /\ Len(ToSend(c)) <= MaxQueries
  BY GdeltAssumption, QueriesToSend DEF GdeltAssumption
<1> DEFINE q == position[c].query
           base == (q - 1) * (MaxRetries + 1)
           cost == q * (MaxRetries + 1)
           all == Len(ToSend(c)) * (MaxRetries + 1)
<1>4. /\ q \in Nat \ {0} /\ q <= Len(ToSend(c)) /\ kept[c] \in Nat /\ kept[c] <= MaxRecords + q - 2
      /\ requests[c] \in Nat
      /\ requests[c] <= base + position[c].attempt + 1
      /\ position[c].attempt \in Nat /\ position[c].attempt <= MaxRetries
  <2>1. thread[c] \in Searching /\ Sent(thread[c]) \in {0, 1}
    BY DEF Searching, Sent
  <2>2. base \in Int
    BY <1>2, <1>3 DEF Progress
  <2> QED  BY <1>2, <2>1, <2>2 DEF Progress
<1>5. /\ base \in Nat /\ base + MaxRetries + 1 = cost
      /\ cost <= all /\ ((q + 1) - 1) * (MaxRetries + 1) = cost
  BY <1>3, <1>4, CostOfQuery
<1>6. requests[c] <= cost /\ cost \in Int /\ all \in Int
  <2>1. cost \in Int /\ all \in Int
    BY <1>3, <1>4
  <2>2. requests[c] \in Nat /\ requests[c] <= base + position[c].attempt + 1
        /\ position[c].attempt \in Nat /\ position[c].attempt <= MaxRetries
    BY <1>4
  <2> HIDE DEF base, cost, q, all
  <2>3. requests[c] <= base + MaxRetries + 1
    BY <1>3, <1>5, <2>2
  <2> QED  BY <1>5, <2>1, <2>3
<1>7. kept'[c] \in Nat /\ kept'[c] <= MaxRecords + q - 1
  <2>1. kept'[c] = Kept(c, new)
    BY <1>1, <1>2 DEF Shaped
  <2>2. Kept(c, new) \in Nat /\ (Kept(c, new) <= MaxRecords \/ Kept(c, new) <= kept[c] + 1)
    BY <1>4, KeptGrows
  <2>3. q \in Nat /\ 1 <= q /\ kept[c] \in Nat /\ kept[c] <= MaxRecords + q - 2
    BY <1>4
  <2> HIDE DEF q, base, cost, all
  <2> QED  BY <1>3, <2>1, <2>2, <2>3
<1>8. CASE q < Len(ToSend(c))
  <2>1. /\ thread' = [thread EXCEPT ![c] = "load"]
        /\ position' = [position EXCEPT ![c] = [query |-> @.query + 1, attempt |-> 0]]
    BY <1>8 DEF AfterQuery, Goto
  <2>2. Shaped'
    BY <1>1, <1>2, <2>1 DEF Shaped, Places
  <2>3. /\ thread'[c] = "load" /\ position'[c].query = q + 1 /\ position'[c].attempt = 0
        /\ \A d \in Claims \ {c} : thread'[d] = thread[d] /\ position'[d] = position[d] /\ kept'[d] = kept[d]
    BY <1>1, <1>2, <2>1 DEF Shaped
  <2>4. requests'[c] <= ((q + 1) - 1) * (MaxRetries + 1) + 0 + Sent("load")
    <3> HIDE DEF cost, q
    <3> QED  BY <1>4, <1>5, <1>6 DEF Sent
  <2>5. q + 1 \in Nat \ {0} /\ q + 1 <= MaxQueries /\ q + 1 <= Len(ToSend(c)) /\ kept'[c] <= MaxRecords + (q + 1) - 2
    <3>1. q \in Nat \ {0} /\ q < Len(ToSend(c)) /\ Len(ToSend(c)) \in Nat /\ Len(ToSend(c)) <= MaxQueries
      BY <1>3, <1>4, <1>8
    <3> HIDE DEF q, base, cost, all
    <3> QED  BY <1>3, <1>7, <3>1
  <2>6. Progress(c)'
    <3> HIDE DEF q
    <3> QED  BY <1>3, <1>4, <1>7, <2>3, <2>4, <2>5 DEF Progress, Places, Searching
  <2> QED  BY <2>2, <2>3, <2>6, OthersProgress
<1>9. CASE ~ q < Len(ToSend(c))
  <2>1. thread' = [thread EXCEPT ![c] = "web"] /\ position' = position
    BY <1>9 DEF AfterQuery, Goto
  <2>2. Shaped'
    BY <1>1, <1>2, <2>1 DEF Shaped, Places
  <2>3. /\ thread'[c] = "web" /\ position'[c] = position[c] /\ requests'[c] = requests[c]
        /\ \A d \in Claims \ {c} : thread'[d] = thread[d] /\ kept'[d] = kept[d]
    BY <1>1, <1>2, <2>1 DEF Shaped
  <2>4. requests[c] <= all /\ kept'[c] <= MaxRecords + MaxQueries - 1
    <3>1. q <= MaxQueries
      BY <1>3, <1>4
    <3>2. q \in Nat /\ requests[c] \in Nat /\ cost <= all
      BY <1>4, <1>5
    <3> HIDE DEF base, cost, q, all
    <3>3. requests[c] <= all
      BY <1>6, <3>2
    <3> QED  BY <1>3, <1>7, <3>1, <3>2, <3>3
  <2>5. Progress(c)'
    BY <1>2, <1>3, <1>4, <1>7, <2>3, <2>4 DEF Progress, Places, Searching
  <2> QED  BY <2>1, <2>2, <2>3, <2>5, OthersProgress
<1> QED  BY <1>8, <1>9

\* A search that is given up has kept nothing.
LEMMA GiveUpProgress ==
    ASSUME ProgressInvariant, NEW c \in Claims, thread[c] = "response",
           GiveUp(c), UNCHANGED <<position, requests>>
    PROVE  ProgressInvariant'
<1>1. thread' = [thread EXCEPT ![c] = "web"] /\ kept' = [kept EXCEPT ![c] = 0]
  BY DEF GiveUp, Goto
<1>2. Progress(c) /\ Shaped
  BY DEF ProgressInvariant
<1>3. /\ MaxRecords \in Nat \ {0} /\ MaxQueries \in Nat \ {0} /\ MaxRetries \in Nat
      /\ Len(ToSend(c)) \in Nat /\ Len(ToSend(c)) <= MaxQueries
  BY GdeltAssumption, QueriesToSend DEF GdeltAssumption
<1> DEFINE q == position[c].query
           base == (q - 1) * (MaxRetries + 1)
           cost == q * (MaxRetries + 1)
           all == Len(ToSend(c)) * (MaxRetries + 1)
<1>4. /\ q \in Nat \ {0} /\ q <= Len(ToSend(c)) /\ requests[c] \in Nat
      /\ requests[c] <= base + position[c].attempt + 1
      /\ position[c].attempt \in Nat /\ position[c].attempt <= MaxRetries
  BY <1>2 DEF Progress, Searching, Sent
<1>5. base \in Nat /\ base + MaxRetries + 1 = cost /\ cost <= all
  BY <1>3, <1>4, CostOfQuery
<1>6. all \in Int
  BY <1>3
<1>7. requests[c] <= all
  <2> HIDE DEF base, cost, all, q
  <2> QED  BY <1>3, <1>4, <1>5, <1>6
<1>8. Shaped'
  BY <1>1, <1>2 DEF Shaped, Places
<1>9. /\ thread'[c] = "web" /\ kept'[c] = 0 /\ position'[c] = position[c] /\ requests'[c] = requests[c]
      /\ \A d \in Claims \ {c} : thread'[d] = thread[d] /\ kept'[d] = kept[d]
  BY <1>1, <1>2 DEF Shaped
<1>10. 0 <= MaxRecords + MaxQueries - 1
  BY <1>3
<1>11. Progress(c)'
  BY <1>2, <1>7, <1>9, <1>10 DEF Progress, Places, Searching
<1> QED  BY <1>8, <1>9, <1>11, OthersProgress

\* A retry counts the request that was sent as an attempt.
LEMMA AgainProgress ==
    ASSUME ProgressInvariant, NEW c \in Claims, thread[c] = "response", NEW pause,
           Again(c, pause), UNCHANGED requests
    PROVE  ProgressInvariant'
<1>1. /\ thread' = [thread EXCEPT ![c] = "backoff"] /\ position' = [position EXCEPT ![c].attempt = @ + 1]
      /\ kept' = kept /\ position[c].attempt < MaxRetries
  BY DEF Again, Goto
<1>2. Progress(c) /\ Shaped
  BY DEF ProgressInvariant
<1>3. MaxRecords \in Nat \ {0} /\ MaxRetries \in Nat
  BY GdeltAssumption DEF GdeltAssumption
<1>4. Shaped'
  BY <1>1, <1>2 DEF Shaped, Places
<1>5. /\ thread'[c] = "backoff" /\ position'[c].query = position[c].query
      /\ position'[c].attempt = position[c].attempt + 1
      /\ \A d \in Claims \ {c} : thread'[d] = thread[d] /\ position'[d] = position[d]
  BY <1>1, <1>2 DEF Shaped
<1> DEFINE base == (position[c].query - 1) * (MaxRetries + 1)
<1>6. base \in Int
  BY <1>2, <1>3 DEF Progress
<1>7. /\ position[c].attempt \in Nat /\ requests[c] \in Nat
      /\ requests[c] <= base + position[c].attempt + 1
  BY <1>2 DEF Progress, Searching, Sent
<1>8. requests[c] <= base + (position[c].attempt + 1) + 0
  <2> HIDE DEF base
  <2> QED  BY <1>6, <1>7
<1>9. position'[c].attempt \in Nat /\ position'[c].attempt <= MaxRetries
  BY <1>1, <1>3, <1>5, <1>7
<1>10. Progress(c)'
  BY <1>1, <1>2, <1>5, <1>8, <1>9 DEF Progress, Places, Searching, Sent
<1> QED  BY <1>1, <1>4, <1>5, <1>10, OthersProgress

\* A request is counted as sent.
LEMMA SendProgress ==
    ASSUME ProgressInvariant, NEW c \in Claims, Send(c)
    PROVE  ProgressInvariant'
<1>1. /\ thread[c] = "send" /\ thread' = [thread EXCEPT ![c] = "response"]
      /\ requests' = [requests EXCEPT ![c] = @ + 1] /\ position' = position /\ kept' = kept
  BY DEF Send, Goto
<1>2. Progress(c) /\ Shaped
  BY DEF ProgressInvariant
<1>3. MaxRetries \in Nat
  BY GdeltAssumption DEF GdeltAssumption
<1>4. Shaped'
  BY <1>1, <1>2 DEF Shaped, Places
<1>5. /\ thread'[c] = "response" /\ requests'[c] = requests[c] + 1
      /\ \A d \in Claims \ {c} : thread'[d] = thread[d] /\ requests'[d] = requests[d]
  BY <1>1, <1>2 DEF Shaped
<1> DEFINE base == (position[c].query - 1) * (MaxRetries + 1)
<1>6. base \in Int
  BY <1>2, <1>3 DEF Progress
<1>7. position[c].attempt \in Nat /\ requests[c] \in Nat /\ requests[c] <= base + position[c].attempt + 0
  BY <1>1, <1>2 DEF Progress, Searching, Sent
<1>8. requests'[c] <= base + position[c].attempt + 1 /\ requests'[c] \in Nat
  <2> HIDE DEF base
  <2> QED  BY <1>5, <1>6, <1>7
<1>9. Progress(c)'
  BY <1>1, <1>2, <1>5, <1>8 DEF Progress, Places, Searching, Sent
<1> QED  BY <1>1, <1>4, <1>5, <1>9, OthersProgress

LEMMA ProgressInductive ==
    ASSUME ProgressInvariant, [ResearchNext]_researchVars
    PROVE  ProgressInvariant'
<1> USE DEF history, client, file
<1>1. ASSUME UNCHANGED <<thread, position, requests, kept>>  PROVE ProgressInvariant'
  BY <1>1 DEF ProgressInvariant, Shaped, Progress
<1>2. CASE UNCHANGED researchVars
  BY <1>1, <1>2 DEF researchVars
<1>3. CASE Tick
  BY <1>1, <1>3 DEF Tick
<1>4. ASSUME NEW c \in Claims, Thread(c)  PROVE ProgressInvariant'
  <2> USE DEF Places, Searching, Sent
  <2>1. CASE Begin(c)
    BY <2>1, MoveProgress DEF Begin
  <2>2. CASE Search(c)
    <3>1. Len(ToSend(c)) \in Nat /\ (ToSend(c) = <<>> <=> Len(ToSend(c)) = 0)
      BY QueriesToSend
    <3>2. CASE breaker > 0 \/ ToSend(c) = <<>>
      BY <2>2, <3>2, MoveProgress DEF Search
    <3>3. CASE ~ (breaker > 0 \/ ToSend(c) = <<>>)
      <4>1. 1 <= Len(ToSend(c))
        BY <3>1, <3>3
      <4> QED  BY <2>2, <3>3, <4>1, MoveProgress DEF Search
    <3> QED  BY <3>2, <3>3
  <2>3. CASE Load(c)
    <3>1. CASE TakeArticles(c) /\ AfterQuery(c)
      BY <2>3, <3>1, TakeProgress DEF Load
    <3>2. CASE Goto(c, "space") /\ UNCHANGED <<position, kept, found>>
      BY <2>3, <3>2, MoveProgress DEF Load
    <3> QED  BY <2>3, <3>1, <3>2 DEF Load
  <2>4. CASE Space(c)
    BY <2>4, MoveProgress DEF Space
  <2>5. CASE Send(c)
    BY <2>5, SendProgress
  <2>6. CASE Succeed(c)
    BY <2>6, MoveProgress DEF Succeed
  <2>7. CASE Throttled(c)
    BY <2>7, AgainProgress, GiveUpProgress DEF Throttled
  <2>8. CASE Fail(c)
    BY <2>8, AgainProgress, GiveUpProgress DEF Fail
  <2>9. CASE Break(c)
    BY <2>9, GiveUpProgress DEF Break
  <2>10. CASE Awake(c)
    BY <2>10, MoveProgress DEF Awake
  <2>11. CASE Truncate(c)
    BY <2>11, MoveProgress DEF Truncate
  <2>12. CASE Write(c)
    BY <2>12, TakeProgress DEF Write
  <2>13. CASE Web(c)
    BY <2>13, MoveProgress DEF Web
  <2> QED  BY <1>4, <2>1, <2>2, <2>3, <2>4, <2>5, <2>6, <2>7, <2>8, <2>9, <2>10, <2>11, <2>12, <2>13 DEF Thread
<1> QED  BY <1>2, <1>3, <1>4 DEF ResearchNext

-----------------------------------------------------------------------------
Kinds == {"existing", "gdelt", "uncertain", "web", "gap"}

\* The delays are in their ranges, and the time of a request is the stamp's.
Delays ==
    /\ threads \in ThreadCounts
    /\ found \in [Claims -> SUBSET Kinds] /\ DOMAIN wait = Claims /\ DOMAIN loaded = Claims
    /\ sinceStamp \in Nat /\ sinceStamp <= MinInterval /\ sinceSent = sinceStamp
    /\ breaker \in Nat /\ breaker <= Cooldown

\* From the end of the search in the cache to the end of the query.
Asking == {"space", "send", "response", "backoff", "save", "write"}

\* At most one claim is being researched.
OneWorks == \A c, d \in Working : c = d

\* A request waits for the interval, and the breaker stays closed for a search.
Spaced ==
    /\ \A c \in Claims : thread[c] = "send" => wait[c] \in Nat /\ wait[c] + sinceStamp >= MinInterval
    /\ \A c \in Claims : thread[c] \in Searching => breaker = 0
    /\ ~tooClose /\ ~whileOpen

\* What was answered is in the file or about to be written to it.
Cached ==
    /\ writing => \E c \in Claims : thread[c] = "write"
    /\ \A c \in Claims : thread[c] \in Asking => cache \subseteq loaded[c]
    /\ \A a \in answered : a \in cache \/ \E c \in Claims : thread[c] \in {"save", "write"} /\ a = Query(c)

AloneInvariant == threads = 1 => OneWorks /\ Spaced /\ Cached

ResearchInvariant == ProgressInvariant /\ Delays /\ AloneInvariant

LEMMA DelaysInductive ==
    ASSUME Shaped, Delays, [ResearchNext]_researchVars
    PROVE  Delays'
<1> USE DEF history, client, file
<1>1. ASSUME UNCHANGED <<threads, found, sinceStamp, sinceSent, breaker>>, DOMAIN wait' = Claims, DOMAIN loaded' = Claims
      PROVE  Delays'
  BY <1>1 DEF Delays
<1>2. CASE UNCHANGED researchVars
  BY <1>1, <1>2 DEF researchVars, Delays
<1>3. MinInterval \in Nat \ {0} /\ Cooldown \in Nat
  BY GdeltAssumption DEF GdeltAssumption
<1>4. CASE Tick
  <2>1. Min({sinceStamp + 1, MinInterval}) = IF sinceStamp + 1 <= MinInterval THEN sinceStamp + 1 ELSE MinInterval
    BY <1>3, LessOfTwo DEF Delays
  <2>2. sinceStamp' \in Nat /\ sinceStamp' <= MinInterval /\ sinceSent' = sinceStamp'
    BY <1>3, <1>4, <2>1 DEF Tick, Delays
  <2>3. breaker' \in Nat /\ breaker' <= Cooldown
    BY <1>3, <1>4 DEF Tick, Delays, Less
  <2>4. DOMAIN wait' = Claims /\ UNCHANGED <<threads, found, loaded>>
    BY <1>4 DEF Tick
  <2> QED  BY <2>2, <2>3, <2>4 DEF Delays
<1>5. ASSUME NEW c \in Claims, Thread(c)  PROVE Delays'
  <2>0. threads' = threads
    BY <1>5 DEF Thread
  <2>1. CASE Begin(c)
    BY <1>1, <2>0, <2>1 DEF Begin, Delays
  <2>2. CASE Search(c)
    BY <1>1, <2>0, <2>2 DEF Search, Delays
  <2>3. CASE Load(c)
    <3>1. found' \in [Claims -> SUBSET Kinds]
      BY <2>3 DEF Load, TakeArticles, Delays, Kinds
    <3> QED  BY <2>0, <2>3, <3>1 DEF Load, Delays
  <2>4. CASE Space(c)
    BY <1>1, <2>0, <2>4 DEF Space, Delays
  <2>5. CASE Send(c)
    BY <1>3, <2>0, <2>5 DEF Send, Delays
  <2>6. CASE Succeed(c)
    BY <1>1, <2>0, <2>6 DEF Succeed, Delays
  <2>7. CASE Throttled(c)
    <3>1. /\ found' \in [Claims -> SUBSET Kinds] /\ DOMAIN wait' = Claims
          /\ (breaker' = breaker \/ breaker' = Cooldown)
      BY <2>7 DEF Throttled, Again, GiveUp, Delays, Kinds
    <3>2. UNCHANGED <<loaded, sinceStamp, sinceSent>>
      BY <2>7 DEF Throttled
    <3> QED  BY <1>3, <2>0, <3>1, <3>2 DEF Delays
  <2>8. CASE Fail(c)
    <3>1. found' \in [Claims -> SUBSET Kinds] /\ DOMAIN wait' = Claims
      BY <2>8 DEF Fail, Again, GiveUp, Delays, Kinds
    <3> QED  BY <2>0, <2>8, <3>1 DEF Fail, Delays
  <2>9. CASE Break(c)
    BY <2>0, <2>9 DEF Break, GiveUp, Delays, Kinds
  <2>10. CASE Awake(c)
    BY <1>1, <2>0, <2>10 DEF Awake, Delays
  <2>11. CASE Truncate(c)
    BY <1>1, <2>0, <2>11 DEF Truncate, Delays
  <2>12. CASE Write(c)
    <3>1. found' \in [Claims -> SUBSET Kinds]
      BY <2>12 DEF Write, TakeArticles, Delays, Kinds
    <3> QED  BY <2>0, <2>12, <3>1 DEF Write, Delays
  <2>13. CASE Web(c)
    <3>1. PICK existing \in {{}, {"existing"}}, web \in WebOutcomes :
             found' = [found EXCEPT ![c] = IF existing \cup found[c] \cup web = {}
                                           THEN {"gap"} ELSE existing \cup found[c] \cup web]
      BY <2>13 DEF Web
    <3>2. existing \cup found[c] \cup web \in SUBSET Kinds /\ {"gap"} \in SUBSET Kinds
      BY DEF Delays, WebOutcomes, Kinds
    <3>3. found' \in [Claims -> SUBSET Kinds]
      BY <3>1, <3>2 DEF Delays
    <3> QED  BY <2>0, <2>13, <3>3 DEF Web, Delays
  <2> QED  BY <1>5, <2>1, <2>2, <2>3, <2>4, <2>5, <2>6, <2>7, <2>8, <2>9, <2>10, <2>11, <2>12, <2>13 DEF Thread
<1> QED  BY <1>2, <1>4, <1>5 DEF ResearchNext

\* While one works, the others wait or are done.
LEMMA OneMoves ==
    ASSUME Shaped, OneWorks, NEW c \in Claims, NEW place, Goto(c, place),
           thread[c] \notin {"waiting", "done"} \/ Working = {}
    PROVE  /\ OneWorks' /\ thread'[c] = place
           /\ \A d \in Claims \ {c} : thread[d] \in {"waiting", "done"} /\ thread'[d] = thread[d]
<1>1. /\ thread'[c] = place /\ \A d \in Claims \ {c} : thread'[d] = thread[d]
  BY DEF Goto, Shaped
<1>2. ASSUME NEW d \in Claims \ {c}  PROVE thread[d] \in {"waiting", "done"}
  <2>1. CASE Working = {}
    BY <2>1 DEF Working
  <2>2. CASE thread[c] \notin {"waiting", "done"}
    <3>1. c \in Working
      BY <2>2 DEF Working
    <3>2. d \notin Working
      BY <3>1 DEF OneWorks
    <3> QED  BY <3>2 DEF Working
  <2> QED  BY <2>1, <2>2
<1>3. OneWorks'
  <2>1. ASSUME NEW d \in Working'  PROVE d = c
    BY <2>1, <1>1, <1>2 DEF Working
  <2> QED  BY <2>1 DEF OneWorks
<1> QED  BY <1>1, <1>2, <1>3

LEMMA NoneWorks ==
    ASSUME Cardinality(Working) < 1
    PROVE  Working = {}
<1>1. IsFiniteSet(Working)
  BY GdeltAssumption, FS_Subset DEF GdeltAssumption, Working
<1> QED  BY <1>1, FS_EmptySet, FS_CardinalityType

\* The one that works moves on: what must hold of it alone.
LEMMA AloneMoves ==
    ASSUME Shaped, OneWorks, Spaced, Cached, NEW c \in Claims, NEW place,
           Goto(c, place), thread[c] \notin {"waiting", "done"} \/ Working = {},
           place = "send" => wait'[c] \in Nat /\ wait'[c] + sinceStamp' >= MinInterval,
           place \in Searching => breaker' = 0,
           ~tooClose', ~whileOpen',
           writing' => place = "write",
           place \in Asking => cache' \subseteq loaded'[c],
           \A a \in answered' : a \in cache' \/ (place \in {"save", "write"} /\ a = Query(c)')
    PROVE  (OneWorks /\ Spaced /\ Cached)'
<1>1. /\ OneWorks' /\ thread'[c] = place
      /\ \A d \in Claims \ {c} : thread[d] \in {"waiting", "done"} /\ thread'[d] = thread[d]
  BY OneMoves
<1>2. \A d \in Claims : thread'[d] \notin {"waiting", "done"} => d = c /\ thread'[d] = place
  BY <1>1
<1>3. Spaced'
  <2>1. ASSUME NEW d \in Claims, thread'[d] = "send"
        PROVE wait'[d] \in Nat /\ wait'[d] + sinceStamp' >= MinInterval
    BY <1>2, <2>1
  <2>2. ASSUME NEW d \in Claims, thread'[d] \in Searching  PROVE breaker' = 0
    BY <1>2, <2>2 DEF Searching
  <2> QED  BY <2>1, <2>2 DEF Spaced
<1>4. Cached'
  <2>1. writing' => \E d \in Claims : thread'[d] = "write"
    BY <1>1
  <2>2. ASSUME NEW d \in Claims, thread'[d] \in Asking  PROVE cache' \subseteq loaded'[d]
    BY <1>2, <2>2 DEF Asking
  <2>3. ASSUME NEW a \in answered'
        PROVE  a \in cache' \/ \E d \in Claims : thread'[d] \in {"save", "write"} /\ a = Query(d)'
    BY <1>1, <2>3
  <2> QED  BY <2>1, <2>2, <2>3 DEF Cached
<1> QED  BY <1>1, <1>3, <1>4

LEMMA AloneInductive ==
    ASSUME Shaped, Delays, AloneInvariant, [ResearchNext]_researchVars
    PROVE  AloneInvariant'
<1> USE DEF history, client, file
<1>1. threads' = threads
  BY DEF ResearchNext, Thread, Tick, researchVars
<1> SUFFICES ASSUME threads = 1  PROVE (OneWorks /\ Spaced /\ Cached)'
  BY <1>1 DEF AloneInvariant
<1>2. OneWorks /\ Spaced /\ Cached
  BY DEF AloneInvariant
<1>3. MinInterval \in Nat \ {0} /\ Cooldown \in Nat /\ sinceStamp \in Nat /\ breaker \in Nat
  BY GdeltAssumption DEF GdeltAssumption, Delays
<1>4. CASE UNCHANGED researchVars
  BY <1>2, <1>4 DEF researchVars, OneWorks, Working, Spaced, Cached, Query
<1>5. CASE Tick
  <2>1. Min({sinceStamp + 1, MinInterval}) = IF sinceStamp + 1 <= MinInterval THEN sinceStamp + 1 ELSE MinInterval
    BY <1>3, LessOfTwo
  <2>2. UNCHANGED <<thread, position, loaded, cache, writing, answered, tooClose, whileOpen>>
    BY <1>5 DEF Tick
  <2>3. OneWorks' /\ Cached'
    BY <1>2, <2>2 DEF OneWorks, Working, Cached, Query
  <2>4. ASSUME NEW c \in Claims, thread[c] = "send"
        PROVE  wait'[c] \in Nat /\ wait'[c] + sinceStamp' >= MinInterval
    <3>1. wait[c] \in Nat /\ wait[c] + sinceStamp >= MinInterval
      BY <1>2, <2>4 DEF Spaced
    <3>2. wait'[c] = IF wait[c] = 0 THEN 0 ELSE wait[c] - 1
      BY <1>5 DEF Tick, Less
    <3>3. sinceStamp' = IF sinceStamp + 1 <= MinInterval THEN sinceStamp + 1 ELSE MinInterval
      BY <1>5, <2>1 DEF Tick
    <3> QED  BY <1>3, <3>1, <3>2, <3>3
  <2>5. ASSUME NEW c \in Claims, thread[c] \in Searching  PROVE breaker' = 0
    <3>1. breaker = 0
      BY <1>2, <2>5 DEF Spaced
    <3> QED  BY <1>5, <3>1 DEF Tick, Less
  <2>6. Spaced'
    BY <1>2, <2>2, <2>4, <2>5 DEF Spaced
  <2> QED  BY <2>3, <2>6
<1>6. ASSUME NEW c \in Claims, Thread(c)  PROVE (OneWorks /\ Spaced /\ Cached)'
  <2>1. ASSUME thread[c] \notin {"waiting", "done"}
        PROVE  /\ thread[c] \in Searching => breaker = 0
               /\ thread[c] \in Asking => cache \subseteq loaded[c]
               /\ writing => thread[c] = "write"
               /\ \A a \in answered : a \in cache \/ (thread[c] \in {"save", "write"} /\ a = Query(c))
    <3>1. \A d \in Claims : thread[d] \notin {"waiting", "done"} => d = c
      BY <1>2, <2>1 DEF OneWorks, Working
    <3> QED  BY <1>2, <3>1 DEF Spaced, Cached
  <2>2. ~tooClose /\ ~whileOpen
    BY <1>2 DEF Spaced
  <2> USE DEF Searching, Asking
  <2>3. CASE Begin(c)
    <3>1. Working = {}
      BY <2>3, NoneWorks DEF Begin
    <3>2. ~writing /\ \A a \in answered : a \in cache
      BY <1>2, <3>1 DEF Cached, Working
    <3> QED  BY <1>2, <2>2, <2>3, <3>1, <3>2, AloneMoves DEF Begin
  <2>4. CASE Search(c)
    <3>1. PICK place \in {"web", "load"} : Goto(c, place) /\ (place = "load" => ~ breaker > 0)
      BY <2>4 DEF Search
    <3>2. place = "load" => breaker = 0
      BY <1>3, <3>1
    <3> QED  BY <1>2, <2>1, <2>2, <2>4, <3>1, <3>2, AloneMoves DEF Search
  <2>5. CASE Load(c)
    <3>0. thread[c] = "load" /\ UNCHANGED <<breaker, file, history>>
      BY <2>5 DEF Load
    <3>1. loaded' = [loaded EXCEPT ![c] = IF writing THEN {} ELSE cache]
      BY <2>5 DEF Load
    <3>2. ~writing /\ breaker = 0 /\ \A a \in answered : a \in cache
      BY <2>1, <3>0
    <3>3. cache \subseteq loaded'[c]
      BY <3>1, <3>2 DEF Delays
    <3>4. PICK place \in {"load", "web", "space"} : Goto(c, place)
      BY <2>5 DEF Load, AfterQuery
    <3> QED  BY <1>2, <2>2, <3>0, <3>2, <3>3, <3>4, AloneMoves
  <2>6. CASE Space(c)
    <3>1. wait'[c] = MinInterval - sinceStamp /\ sinceStamp' = sinceStamp
      BY <2>6 DEF Space, Delays
    <3>2. wait'[c] \in Nat /\ wait'[c] + sinceStamp' >= MinInterval
      BY <1>3, <3>1 DEF Delays
    <3> QED  BY <1>2, <2>1, <2>2, <2>6, <3>2, AloneMoves DEF Space
  <2>7. CASE Send(c)
    <3>1. sinceSent >= MinInterval /\ ~ breaker > 0
      <4>1. thread[c] = "send" /\ wait[c] = 0
        BY <2>7 DEF Send
      <4>2. wait[c] + sinceStamp >= MinInterval /\ breaker = 0
        BY <1>2, <4>1 DEF Spaced
      <4> QED  BY <1>3, <4>1, <4>2 DEF Delays
    <3>2. sinceSent \in Nat /\ breaker \in Nat /\ ~ sinceSent < MinInterval
      BY <1>3, <3>1 DEF Delays
    <3>3. ~tooClose' /\ ~whileOpen'
      BY <2>2, <2>7, <3>1, <3>2 DEF Send
    <3> QED  BY <1>2, <2>1, <2>7, <3>3, AloneMoves DEF Send
  <2>8. CASE Succeed(c)
    <3>1. Query(c)' = Query(c)
      BY <2>8 DEF Succeed, Query
    <3> QED  BY <1>2, <2>1, <2>2, <2>8, <3>1, AloneMoves DEF Succeed
  <2>9. CASE Throttled(c)
    <3>0. thread[c] = "response" /\ UNCHANGED <<loaded, file, history>>
      BY <2>9 DEF Throttled
    <3>1. CASE Goto(c, "backoff") /\ UNCHANGED breaker
      BY <1>2, <2>1, <2>2, <3>0, <3>1, AloneMoves
    <3>2. CASE Goto(c, "web")
      BY <1>2, <2>1, <2>2, <3>0, <3>2, AloneMoves
    <3> QED  BY <2>9, <3>1, <3>2 DEF Throttled, Again, GiveUp
  <2>10. CASE Fail(c)
    <3>0. thread[c] = "response" /\ UNCHANGED <<loaded, file, breaker, history>>
      BY <2>10 DEF Fail
    <3>1. PICK place \in {"backoff", "web"} : Goto(c, place)
      BY <2>10 DEF Fail, Again, GiveUp
    <3> QED  BY <1>2, <2>1, <2>2, <3>0, <3>1, AloneMoves
  <2>11. CASE Break(c)
    BY <1>2, <2>1, <2>2, <2>11, AloneMoves DEF Break, GiveUp
  <2>12. CASE Awake(c)
    BY <1>2, <2>1, <2>2, <2>12, AloneMoves DEF Awake
  <2>13. CASE Truncate(c)
    <3>1. Query(c)' = Query(c)
      BY <2>13 DEF Truncate, Query
    <3> QED  BY <1>2, <2>1, <2>2, <2>13, <3>1, AloneMoves DEF Truncate
  <2>14. CASE Write(c)
    <3>0. thread[c] = "write" /\ cache' = loaded[c] \cup {Query(c)} /\ ~writing'
          /\ UNCHANGED <<loaded, breaker, answered, tooClose, whileOpen>>
      BY <2>14 DEF Write
    <3>1. breaker = 0 /\ \A a \in answered : a \in cache'
      BY <2>1, <3>0
    <3>2. PICK place \in {"load", "web"} : Goto(c, place)
      BY <2>14 DEF Write, AfterQuery
    <3> QED  BY <1>2, <2>2, <3>0, <3>1, <3>2, AloneMoves
  <2>15. CASE Web(c)
    BY <1>2, <2>1, <2>2, <2>15, AloneMoves DEF Web
  <2> QED  BY <1>6, <2>3, <2>4, <2>5, <2>6, <2>7, <2>8, <2>9, <2>10, <2>11, <2>12, <2>13, <2>14, <2>15 DEF Thread
<1> QED  BY <1>4, <1>5, <1>6 DEF ResearchNext

LEMMA ResearchStarts ==
    ASSUME ResearchInit
    PROVE  ResearchInvariant
<1>1. /\ MinInterval \in Nat \ {0} /\ Cooldown \in Nat /\ MaxQueries \in Nat \ {0} /\ MaxRetries \in Nat
  BY GdeltAssumption DEF GdeltAssumption
<1>2. ProgressInvariant
  <2>1. Shaped
    BY DEF ResearchInit, Shaped, Places
  <2>2. ASSUME NEW c \in Claims  PROVE Progress(c)
    BY <1>1 DEF ResearchInit, Progress, Places, Searching
  <2> QED  BY <2>1, <2>2 DEF ProgressInvariant
<1>3. Delays
  BY <1>1 DEF ResearchInit, Delays, Kinds
<1>4. AloneInvariant
  BY DEF ResearchInit, AloneInvariant, OneWorks, Working, Spaced, Cached, Searching, Asking
<1> QED  BY <1>2, <1>3, <1>4 DEF ResearchInvariant

LEMMA ResearchGoesOn ==
    ASSUME ResearchInvariant, [ResearchNext]_researchVars
    PROVE  ResearchInvariant'
<1>1. ProgressInvariant'
  BY ProgressInductive DEF ResearchInvariant
<1>2. Delays' /\ AloneInvariant'
  BY DelaysInductive, AloneInductive DEF ResearchInvariant, ProgressInvariant
<1> QED  BY <1>1, <1>2 DEF ResearchInvariant

LEMMA LimitsFollow ==
    ASSUME ResearchInvariant
    PROVE  LimitsKept
<1>1. MinInterval \in Nat \ {0} /\ Cooldown \in Nat /\ MaxQueries \in Nat \ {0} /\ MaxRetries \in Nat
      /\ MaxRecords \in Nat \ {0}
  BY GdeltAssumption DEF GdeltAssumption
<1>2. ResearchTypeOK
  <2>1. ASSUME NEW c \in Claims
        PROVE  /\ position[c].query \in 1 .. MaxQueries /\ position[c].attempt \in 0 .. MaxRetries
               /\ found[c] \subseteq {"existing", "gdelt", "uncertain", "web", "gap"}
    BY <1>1, <2>1 DEF ResearchInvariant, ProgressInvariant, Progress, Delays, Kinds
  <2>2. sinceStamp \in 0 .. MinInterval /\ breaker \in 0 .. Cooldown
    BY <1>1 DEF ResearchInvariant, Delays
  <2> QED  BY <2>1, <2>2 DEF ResearchTypeOK
<1>3. ASSUME NEW c \in Claims
      PROVE  requests[c] <= Len(ToSend(c)) * (MaxRetries + 1) /\ kept[c] <= MaxRecords + MaxQueries - 1
  <2>1. Progress(c) /\ Len(ToSend(c)) \in Nat
    BY QueriesToSend DEF ResearchInvariant, ProgressInvariant
  <2> DEFINE q == position[c].query
             base == (q - 1) * (MaxRetries + 1)
             cost == q * (MaxRetries + 1)
             all == Len(ToSend(c)) * (MaxRetries + 1)
  <2>2. all \in Nat
    BY <1>1, <2>1
  <2>3. CASE thread[c] \in {"waiting", "gdelt"}
    <3>1. requests[c] = 0 /\ kept[c] = 0
      BY <2>1, <2>3 DEF Progress
    <3> QED  BY <1>1, <2>2, <3>1
  <2>4. CASE thread[c] \in {"web", "done"}
    BY <2>1, <2>4 DEF Progress
  <2>5. CASE thread[c] \in Searching
    <3>1. /\ q \in Nat \ {0} /\ q <= Len(ToSend(c)) /\ q <= MaxQueries
          /\ requests[c] \in Nat /\ kept[c] \in Nat /\ kept[c] <= MaxRecords + q - 2
          /\ requests[c] <= base + position[c].attempt + Sent(thread[c])
          /\ position[c].attempt \in Nat /\ position[c].attempt <= MaxRetries
      BY <2>1, <2>5 DEF Progress
    <3>2. base \in Nat /\ base + MaxRetries + 1 = cost /\ cost <= all
      BY <1>1, <2>1, <3>1, CostOfQuery
    <3>3. Sent(thread[c]) \in {0, 1}
      BY DEF Sent
    <3>4. /\ requests[c] \in Nat /\ requests[c] <= base + position[c].attempt + Sent(thread[c])
          /\ position[c].attempt \in Nat /\ position[c].attempt <= MaxRetries
      BY <3>1
    <3>5. q \in Nat /\ q <= MaxQueries /\ kept[c] \in Nat /\ kept[c] <= MaxRecords + q - 2
      BY <3>1
    <3> HIDE DEF q, base, cost, all
    <3>6. requests[c] <= base + MaxRetries + 1
      BY <1>1, <3>2, <3>3, <3>4
    <3>7. requests[c] <= all
      BY <1>1, <2>2, <3>2, <3>4, <3>6
    <3>8. kept[c] <= MaxRecords + MaxQueries - 1
      BY <1>1, <3>5
    <3> QED  BY <3>7, <3>8 DEF all
  <2> QED  BY <2>1, <2>3, <2>4, <2>5 DEF Progress, Places, Searching
<1>4. RequestsBounded /\ RecordsBounded
  BY <1>3 DEF RequestsBounded, RecordsBounded
<1>5. RequestsSpaced /\ BreakerDisables
  BY DEF ResearchInvariant, AloneInvariant, Spaced, RequestsSpaced, BreakerDisables
<1>6. AnswersCached
  BY DEF ResearchInvariant, AloneInvariant, Cached, AnswersCached, ResearchDone
<1> QED  BY <1>2, <1>4, <1>5, <1>6 DEF LimitsKept

\* However many threads research however many claims, and whatever the service
\* answers, a claim costs no more requests than its queries and their retries and
\* keeps one article per further query beyond its limit; and one thread spaces its
\* requests, sends none while the breaker is open, and can read again whatever was
\* answered to it (GdeltSearch._fetch, search, DeepResearcher.research).
THEOREM LimitsHold == ResearchSpec => []LimitsKept
<1>1. ResearchInit => ResearchInvariant
  BY ResearchStarts
<1>2. ResearchInvariant /\ [ResearchNext]_researchVars => ResearchInvariant'
  BY ResearchGoesOn
<1>3. ResearchInvariant => LimitsKept
  BY LimitsFollow
<1> QED  BY <1>1, <1>2, <1>3, PTL DEF ResearchSpec

-----------------------------------------------------------------------------
(* The index.                                                               *)

LEMMA Least ==
    ASSUME NEW T \in SUBSET Nat, T # {}
    PROVE  \E x \in T : \A y \in T : x <= y
<1>1. PICK x \in T : \A y \in T : ~(<<y, x>> \in OpToRel(<, Nat))
  BY WFMin, NatLessThanWellFounded
<1>2. \A y \in Nat, z \in Nat : y < z => <<y, z>> \in OpToRel(<, Nat)
  BY DEF OpToRel
<1>3. \A y \in T : ~(y < x)
  BY <1>1, <1>2
<1> QED  BY <1>3

\* What is bounded has a greatest one.
LEMMA Greatest ==
    ASSUME NEW b \in Int, NEW S \in SUBSET Int, \A x \in S : x <= b, S # {}
    PROVE  Max(S) \in S /\ \A x \in S : Max(S) >= x
<1> DEFINE Below == {d \in Nat : b - d \in S}
<1>1. PICK x \in S : TRUE
  OBVIOUS
<1>2. b - x \in Below
  <2>1. b - x \in Nat /\ b - (b - x) = x
    BY <1>1
  <2> QED  BY <1>1, <2>1
<1>3. PICK d \in Below : \A e \in Below : d <= e
  <2>1. Below \in SUBSET Nat /\ Below # {}
    BY <1>2
  <2> HIDE DEF Below
  <2> QED  BY <2>1, Least
<1>4. ASSUME NEW y \in S  PROVE b - d >= y
  <2>1. b - y \in Nat /\ b - (b - y) = y /\ y \in Int
    BY <1>4
  <2>2. b - y \in Below
    BY <2>1
  <2>3. d <= b - y /\ d \in Nat
    BY <1>3, <2>2
  <2> HIDE DEF Below
  <2> QED  BY <2>1, <2>3
<1>5. b - d \in S
  BY <1>3
<1> HIDE DEF Below
<1> QED  BY <1>4, <1>5 DEF Max

AssetSet == [path : STRING, image : Images]
RowSet == [path : STRING, image : Images, case : STRING]
ClipRows == [vector : Int, asset : AssetSet]

Indexed ==
    /\ methods \in MethodSets /\ job \in DOMAIN Jobs
    /\ step \in {"search", "add", "rows", "vectors", "meta", "end"}
    /\ assets \in Seq(RowSet) /\ vectors \in Seq(Images) /\ meta \in Seq(ClipRows)
    /\ fresh.rows \in Seq(RowSet) /\ fresh.clip \in Seq(ClipRows)
    /\ crashes \in Nat

\* Each image has one row, also after those still to be written.
Single ==
    /\ IndexedOnce
    /\ step = "rows" =>
          /\ \A i, k \in DOMAIN fresh.rows : fresh.rows[i].image = fresh.rows[k].image => i = k
          /\ \A i \in DOMAIN assets, k \in DOMAIN fresh.rows : assets[i].image # fresh.rows[k].image

\* A vector is of an image that has a row; without embeddings there are none.
Known ==
    /\ \A n \in DOMAIN meta : \E a \in ToSet(assets) : Asset(a) = meta[n].asset
    /\ step = "rows" => \A n \in DOMAIN fresh.clip : \E a \in ToSet(fresh.rows) : Asset(a) = fresh.clip[n].asset
    /\ step \in {"vectors", "meta"} =>
          \A n \in DOMAIN fresh.clip : \E a \in ToSet(assets) : Asset(a) = fresh.clip[n].asset
    /\ "clip_faiss" \notin methods => meta = <<>> /\ fresh.clip = <<>>

\* Embeddings that nothing shifts.
Sure == Steady /\ "clip_faiss" \in methods /\ faiss

\* The number of a vector is its position, and it is the vector of its asset.
Lined ==
    Sure =>
        /\ \A n \in DOMAIN meta : /\ meta[n].vector = n - 1 /\ n \in DOMAIN vectors
                                  /\ vectors[n] = meta[n].asset.image
        /\ step # "meta" => Len(vectors) = Len(meta)
        /\ step \in {"rows", "vectors", "meta"} =>
              \A n \in DOMAIN fresh.clip : fresh.clip[n].vector = Len(meta) + n - 1
        /\ step = "meta" =>
              /\ Len(vectors) = Len(meta) + Len(fresh.clip)
              /\ \A n \in DOMAIN fresh.clip : vectors[Len(meta) + n] = fresh.clip[n].asset.image

\* What is reported is of the search that has just been made.
Unasked == step # "add" => reported = {}

Entered == Indexed /\ Single /\ Known /\ Lined

IndexInvariant == Entered /\ Unasked /\ MatchesTrue /\ NotItself /\ DuplicateFound

LEMMA IndexConstants ==
    /\ Distance \in [Images \X Images -> 0 .. 64] /\ Alike \in [Images \X Images -> 0 .. 100]
    /\ \A image \in Images : Distance[image, image] = 0
    /\ \A a, b \in Images : Distance[a, b] \in Int /\ Alike[a, b] \in Int /\ Alike[a, b] <= 100
    /\ MaxDistance \in Nat /\ MaxMatches \in Nat \ {0}
<1>1. /\ Distance \in [Images \X Images -> 0 .. 64] /\ Alike \in [Images \X Images -> 0 .. 100]
      /\ \A image \in Images : Distance[image, image] = 0
      /\ MaxDistance \in Nat /\ MaxMatches \in Nat \ {0}
  BY IndexAssumption DEF IndexAssumption
<1>2. ASSUME NEW a \in Images, NEW b \in Images
      PROVE  Distance[a, b] \in Int /\ Alike[a, b] \in Int /\ Alike[a, b] <= 100
  <2>1. Distance[a, b] \in 0 .. 64 /\ Alike[a, b] \in 0 .. 100
    BY <1>1
  <2>2. (\A x \in 0 .. 64 : x \in Int) /\ (\A x \in 0 .. 100 : x \in Int /\ x <= 100)
    OBVIOUS
  <2> QED  BY <2>1, <2>2, Zenon
<1> QED  BY <1>1, <1>2

LEMMA Positions ==
    ASSUME Indexed
    PROVE  /\ DOMAIN assets = 1 .. Len(assets) /\ Len(assets) \in Nat
           /\ DOMAIN vectors = 1 .. Len(vectors) /\ Len(vectors) \in Nat
           /\ DOMAIN meta = 1 .. Len(meta) /\ Len(meta) \in Nat
           /\ \A row \in ToSet(assets) : row \in RowSet /\ row.image \in Images
           /\ \A i \in DOMAIN vectors : vectors[i] \in Images
<1>1. assets \in Seq(RowSet) /\ vectors \in Seq(Images) /\ meta \in Seq(ClipRows)
  BY DEF Indexed
<1>2. /\ DOMAIN assets = 1 .. Len(assets) /\ Len(assets) \in Nat
      /\ DOMAIN vectors = 1 .. Len(vectors) /\ Len(vectors) \in Nat
      /\ DOMAIN meta = 1 .. Len(meta) /\ Len(meta) \in Nat
      /\ \A i \in DOMAIN vectors : vectors[i] \in Images
      /\ \A i \in DOMAIN assets : assets[i] \in RowSet
  BY <1>1
<1>3. ASSUME NEW row \in ToSet(assets)  PROVE row \in RowSet /\ row.image \in Images
  <2>1. row \in RowSet
    BY <1>2, <1>3 DEF ToSet
  <2> QED  BY <2>1 DEF RowSet
<1> QED  BY <1>2, <1>3

LEMMA CurrentFiles ==
    ASSUME Indexed
    PROVE  /\ Current.case \in STRING /\ Current.files \in Seq([path : STRING, image : Images])
           /\ \A f \in DOMAIN Current.files : Current.files[f] \in [path : STRING, image : Images]
<1> DEFINE FileSet == [path : STRING, image : Images]
           JobSet == [case : STRING, files : Seq(FileSet)]
<1>1. Jobs \in Seq(JobSet) /\ job \in DOMAIN Jobs
  BY IndexAssumption DEF IndexAssumption, Indexed
<1>2. Jobs[job] \in JobSet
  <2> HIDE DEF JobSet
  <2> QED  BY <1>1
<1>3. Current.case \in STRING /\ Current.files \in Seq(FileSet)
  <2> HIDE DEF FileSet
  <2> QED  BY <1>2 DEF Current
<1>4. \A f \in DOMAIN Current.files : Current.files[f] \in FileSet
  <2> HIDE DEF FileSet
  <2> QED  BY <1>3
<1> QED  BY <1>3, <1>4

\* A match is of a row that is not skipped, and looks like the query.
LEMMA SoundMatch ==
    ASSUME Entered, NEW asked \in [path : STRING, image : Images], NEW look \in Looks, NEW m \in Matches(asked, look)
    PROVE  /\ m = Match(m.row, asked, look) /\ m.row \in ToSet(assets) /\ ~Skip(m.row, asked, look)
           /\ Steady => \/ Distance[asked.image, m.row.image] <= MaxDistance
                        \/ Alike[asked.image, m.row.image] >= MinAlike
<1>1. PICK row \in ToSet(assets) : m = Match(row, asked, look) /\ (row \in PhashMatches(asked, look) \/ ClipMatches(row, asked, look) # {})
  BY DEF Matches
<1>2. m.row = row
  BY <1>1 DEF Match
<1>3. ~Skip(row, asked, look)
  BY <1>1 DEF PhashMatches, ClipMatches
<1>4. ASSUME Steady
      PROVE  \/ Distance[asked.image, row.image] <= MaxDistance
             \/ Alike[asked.image, row.image] >= MinAlike
  <2>1. CASE row \in PhashMatches(asked, look)
    BY <2>1 DEF PhashMatches
  <2>2. CASE ClipMatches(row, asked, look) # {}
    <3>1. PICK i \in DOMAIN vectors : /\ "clip_faiss" \in methods /\ faiss
                                      /\ Asset(row) \in AssetOf(i)
                                      /\ Alike[asked.image, vectors[i]] >= MinAlike
      BY <2>2 DEF ClipMatches, Nearest, Looks
    <3>2. Sure
      BY <1>4, <3>1 DEF Sure
    <3> DEFINE numbered == {n \in DOMAIN meta : meta[n].vector = i - 1}
    <3>3. numbered # {} /\ Asset(row) = meta[Max(numbered)].asset
      BY <3>1 DEF AssetOf
    <3>4. DOMAIN meta = 1 .. Len(meta) /\ Len(meta) \in Nat /\ DOMAIN vectors = 1 .. Len(vectors) /\ i \in Nat
      <4> HIDE DEF numbered
      <4>1. /\ DOMAIN meta = 1 .. Len(meta) /\ Len(meta) \in Nat /\ DOMAIN vectors = 1 .. Len(vectors)
            /\ Len(vectors) \in Nat /\ i \in DOMAIN vectors
        BY Positions DEF Entered
      <4>2. i \in 1 .. Len(vectors)
        BY <4>1, Zenon
      <4> QED  BY <4>1, <4>2
    <3>5. \A n \in numbered : n = i
      <4>1. ASSUME NEW n \in DOMAIN meta, meta[n].vector = i - 1  PROVE n = i
        <5>1. meta[n].vector = n - 1
          BY <3>2, <4>1 DEF Entered, Lined
        <5>2. n \in Nat
          BY <3>4, <4>1
        <5> QED  BY <3>4, <4>1, <5>1, <5>2
      <4> QED  BY <4>1
    <3>6. numbered = {i} /\ i \in DOMAIN meta
      BY <3>3, <3>5
    <3>7. Max({i}) = i
      BY <3>4 DEF Max
    <3>8. Asset(row) = meta[i].asset
      <4> HIDE DEF numbered
      <4> QED  BY <3>3, <3>6, <3>7
    <3>9. vectors[i] = meta[i].asset.image
      BY <3>2, <3>6 DEF Entered, Lined
    <3>10. row.image = meta[i].asset.image
      BY <3>8 DEF Asset
    <3> QED  BY <3>1, <3>9, <3>10
  <2> QED  BY <1>1, <2>1, <2>2
<1> QED  BY <1>1, <1>2, <1>3, <1>4

\* No match is ahead of itself.
LEMMA NotAheadOfItself ==
    ASSUME Indexed, NEW asked \in [path : STRING, image : Images], NEW look \in Looks, NEW row \in ToSet(assets)
    PROVE  ~Ahead(Match(row, asked, look), Match(row, asked, look))
<1> DEFINE m == Match(row, asked, look)
           alikes == {Alike[asked.image, vectors[i]] : i \in ClipMatches(row, asked, look)} \cup {None}
<1>1. row \in RowSet /\ row.image \in Images /\ asked.image \in Images
  <2> HIDE DEF alikes, m
  <2> QED  BY Positions
<1>2. m.row = row /\ m.distance \in Int
  <2>1. Distance[asked.image, row.image] \in Int
    <3> HIDE DEF alikes, m
    <3> QED  BY <1>1, IndexConstants
  <2>2. m.row = row /\ m.distance = IF row \in PhashMatches(asked, look) THEN Distance[asked.image, row.image] ELSE None
    BY DEF Match
  <2>3. None \in Int
    BY DEF None
  <2> HIDE DEF alikes, m
  <2> QED  BY <2>1, <2>2, <2>3, Zenon
<1>3. m.alike \in Int
  <2>1. ASSUME NEW i \in ClipMatches(row, asked, look)
        PROVE  Alike[asked.image, vectors[i]] \in Int /\ Alike[asked.image, vectors[i]] <= 100
    <3>1. i \in DOMAIN vectors
      BY DEF ClipMatches, Nearest
    <3> HIDE DEF alikes, m
    <3>2. vectors[i] \in Images
      BY <3>1, Positions
    <3> QED  BY <1>1, <3>2, IndexConstants
  <2>2. alikes \in SUBSET Int /\ (\A x \in alikes : x <= 100) /\ alikes # {}
    <3>1. ASSUME NEW x \in alikes  PROVE x \in Int /\ x <= 100
      <4>1. CASE x = None
        BY <4>1 DEF None
      <4>2. ASSUME NEW i \in ClipMatches(row, asked, look), x = Alike[asked.image, vectors[i]]  PROVE x \in Int /\ x <= 100
        BY <2>1, <4>2
      <4> QED  BY <4>1, <4>2
    <3>2. None \in alikes
      OBVIOUS
    <3> HIDE DEF alikes
    <3> QED  BY <3>1, <3>2
  <2>3. m.alike = Max(alikes)
    BY DEF Match
  <2>4. Max(alikes) \in alikes
    <3>1. 100 \in Int
      OBVIOUS
    <3> HIDE DEF alikes, m
    <3> QED  BY <2>2, <3>1, Greatest, Zenon
  <2> HIDE DEF alikes, m
  <2> QED  BY <2>2, <2>3, <2>4
<1> HIDE DEF m, alikes
<1>4. Score(m) \in Int
  <2> DEFINE a == 100 * (64 - (IF m.distance \in {None, 0} THEN 64 ELSE m.distance))
             b == 64 * (IF m.alike = None THEN 0 ELSE m.alike)
  <2>1. a \in Int /\ b \in Int
    BY <1>2, <1>3
  <2>2. Score(m) = Max({a, b})
    BY DEF Score
  <2> HIDE DEF a, b
  <2>3. \E x \in {a, b} : \A y \in {a, b} : x >= y
    BY <2>1
  <2>4. Max({a, b}) \in {a, b}
    BY <2>3 DEF Max
  <2> QED  BY <2>1, <2>2, <2>4
<1>5. Tie(m) \in Int
  BY <1>2 DEF Tie
<1>6. Place(m) \in Int
  <2>1. \E i \in DOMAIN assets : assets[i] = m.row
    BY <1>2 DEF ToSet
  <2>2. DOMAIN assets = 1 .. Len(assets) /\ Len(assets) \in Nat
    BY DEF Indexed
  <2>3. (CHOOSE i \in DOMAIN assets : assets[i] = m.row) \in 1 .. Len(assets)
    BY <2>1, <2>2
  <2> QED  BY <2>2, <2>3 DEF Place
<1> QED  BY <1>4, <1>5, <1>6 DEF Ahead, m

\* While there are not more rows than become evidence, a copy becomes evidence.
LEMMA CopyReported ==
    ASSUME Entered, Len(assets) <= MaxMatches,
           NEW asked \in [path : STRING, image : Images], NEW look \in Looks, NEW a \in ToSet(assets),
           look.hash, a.image = asked.image, ~Skip(a, asked, look)
    PROVE  Match(a, asked, look) \in Reported(asked, look) /\ Match(a, asked, look).row = a
<1> DEFINE m == Match(a, asked, look)
           M == Matches(asked, look)
           T == {n \in M : Ahead(n, m)}
           f == [x \in M |-> CHOOSE i \in DOMAIN assets : assets[i] = x.row]
<1>1. m.row = a
  BY DEF Match
<1>2. m \in M
  <2>1. a \in PhashMatches(asked, look)
    <3> HIDE DEF m, M, T, f
    <3>0. asked.image \in Images
      OBVIOUS
    <3>1. Distance[asked.image, a.image] = 0 /\ 0 <= MaxDistance
      <4>1. a.image = asked.image
        OBVIOUS
      <4>2. Distance[asked.image, asked.image] = 0 /\ MaxDistance \in Nat
        BY <3>0, IndexConstants, Zenon
      <4>3. Distance[asked.image, a.image] = 0
        BY <4>1, <4>2, Zenon
      <4>4. MaxDistance \in Nat
        BY IndexConstants
      <4>5. 0 <= MaxDistance
        BY <4>4
      <4> QED  BY <4>3, <4>5
    <3> QED  BY <3>1 DEF PhashMatches
  <2> QED  BY <2>1 DEF Matches
<1>3. DOMAIN assets = 1 .. Len(assets) /\ Len(assets) \in Nat /\ MaxMatches \in Nat \ {0}
  <2> HIDE DEF m, M, T, f
  <2> QED  BY IndexConstants, Positions DEF Entered
<1>4. IsFiniteSet(M) /\ Cardinality(M) <= Len(assets)
  <2>1. ASSUME NEW x \in M  PROVE f[x] \in DOMAIN assets /\ assets[f[x]] = x.row
    <3>1. x.row \in ToSet(assets)
      BY SoundMatch
    <3> QED  BY <3>1 DEF ToSet
  <2>2. ASSUME NEW x \in M, NEW y \in M, f[x] = f[y]  PROVE x = y
    <3>1. x.row = y.row
      BY <2>1, <2>2
    <3>2. x = Match(x.row, asked, look) /\ y = Match(y.row, asked, look)
      BY SoundMatch
    <3> QED  BY <3>1, <3>2
  <2>3. f \in Injection(M, 1 .. Len(assets))
    <3>1. f \in [M -> 1 .. Len(assets)]
      BY <1>3, <2>1
    <3> HIDE DEF f, M
    <3> QED  BY <2>2, <3>1 DEF Injection, IsInjective
  <2>4. IsFiniteSet(1 .. Len(assets)) /\ Cardinality(1 .. Len(assets)) = Len(assets)
    <3> DEFINE n == Len(assets)
    <3> HIDE DEF n, f, M, T, m
    <3>1. n \in Nat
      BY <1>3 DEF n
    <3>2. IsFiniteSet(1 .. n) /\ Cardinality(1 .. n) = n
      <4>1. IsFiniteSet(1 .. n) /\ Cardinality(1 .. n) = IF 1 > n THEN 0 ELSE n - 1 + 1
        BY <3>1, FS_Interval
      <4> QED  BY <3>1, <4>1
    <3> QED  BY <3>2 DEF n
  <2> HIDE DEF f, M
  <2> QED  BY <1>3, <2>3, <2>4, FS_Injection
<1>5. m \notin T
  BY NotAheadOfItself DEF Entered
<1>6. IsFiniteSet(M \ {m}) /\ Cardinality(M \ {m}) = Cardinality(M) - 1
  <2> HIDE DEF m, M
  <2> QED  BY <1>2, <1>4, FS_RemoveElement
<1>7. Cardinality(T) <= Cardinality(M \ {m}) /\ IsFiniteSet(T)
  <2>1. T \in SUBSET (M \ {m})
    BY <1>5
  <2> HIDE DEF m, M, T
  <2> QED  BY <1>6, <2>1, FS_Subset
<1>8. Cardinality(T) \in Nat /\ Cardinality(M) \in Nat
  <2> HIDE DEF M, T
  <2> QED  BY <1>4, <1>7, FS_CardinalityType
<1>9. Cardinality(T) < MaxMatches
  <2> HIDE DEF m, M, T
  <2> QED  BY <1>3, <1>4, <1>6, <1>7, <1>8
<1> QED  BY <1>1, <1>2, <1>9 DEF Reported

-----------------------------------------------------------------------------
\* The searches of the media of a job, before any of them is added.
LEMMA SearchTells ==
    ASSUME IndexInvariant, SearchImages
    PROVE  (MatchesTrue /\ NotItself /\ DuplicateFound)'
<1>1. /\ step' = "add" /\ UNCHANGED <<methods, assets, vectors, meta, job, fresh, faiss, crashes>>
      /\ reported' = UNION {{[file |-> f, match |-> m] : m \in Reported(Current.files[f], looked'[f])} :
                              f \in DOMAIN Current.files}
  BY DEF SearchImages
<1>2. \A f \in DOMAIN Current.files : Current.files[f] \in [path : STRING, image : Images]
  BY CurrentFiles DEF IndexInvariant, Entered
<1>21. \A f \in DOMAIN Current.files : looked'[f] \in Looks
  BY DEF SearchImages
<1>3. ASSUME NEW r \in reported'
      PROVE  \E f \in DOMAIN Current.files : \E m \in Matches(Current.files[f], looked'[f]) :
                 r.file = f /\ r.match = m
  <2>0. PICK f \in DOMAIN Current.files : \E m \in Reported(Current.files[f], looked'[f]) :
           r = [file |-> f, match |-> m]
    BY <1>1, <1>3
  <2>1. PICK m \in Reported(Current.files[f], looked'[f]) : r = [file |-> f, match |-> m]
    BY <2>0
  <2>2. m \in Matches(Current.files[f], looked'[f])
    BY DEF Reported
  <2> QED  BY <2>1, <2>2
<1>4. Current' = Current /\ Steady' = Steady
  BY <1>1 DEF Current, Steady
<1>5. MatchesTrue'
  <2> SUFFICES ASSUME Steady, NEW r \in reported'
               PROVE  \/ Distance[Current.files[r.file].image, r.match.row.image] <= MaxDistance
                      \/ Alike[Current.files[r.file].image, r.match.row.image] >= MinAlike
    BY <1>4 DEF MatchesTrue, Asked
  <2>0. PICK f \in DOMAIN Current.files : \E m \in Matches(Current.files[f], looked'[f]) :
           r.file = f /\ r.match = m
    BY <1>3
  <2>1. PICK m \in Matches(Current.files[f], looked'[f]) : r.file = f /\ r.match = m
    BY <2>0
  <2>2. \/ Distance[Current.files[f].image, m.row.image] <= MaxDistance
        \/ Alike[Current.files[f].image, m.row.image] >= MinAlike
    BY <1>2, <1>21, SoundMatch DEF IndexInvariant
  <2> QED  BY <2>1, <2>2
<1>6. NotItself'
  <2> SUFFICES ASSUME NEW r \in reported'
               PROVE  /\ r.match.row.path # Current.files[r.file].path
                      /\ looked'[r.file].digest /\ r.match.row.case = Current.case =>
                            r.match.row.image # Current.files[r.file].image
    BY <1>4 DEF NotItself, Asked
  <2>0. PICK f \in DOMAIN Current.files : \E m \in Matches(Current.files[f], looked'[f]) :
           r.file = f /\ r.match = m
    BY <1>3
  <2>1. PICK m \in Matches(Current.files[f], looked'[f]) : r.file = f /\ r.match = m
    BY <2>0
  <2>2. ~Skip(m.row, Current.files[f], looked'[f])
    BY <1>2, <1>21, SoundMatch DEF IndexInvariant
  <2> QED  BY <2>1, <2>2 DEF Skip
<1>7. DuplicateFound'
  <2> SUFFICES ASSUME Len(assets) <= MaxMatches, NEW f \in DOMAIN Current.files, NEW a \in ToSet(assets),
                      looked'[f].hash, a.image = Current.files[f].image,
                      ~Skip(a, Current.files[f], looked'[f])
               PROVE  \E r \in reported' : r.file = f /\ r.match.row = a
    BY <1>1, <1>4 DEF DuplicateFound, Skip
  <2> DEFINE m == Match(a, Current.files[f], looked'[f])
             r == [file |-> f, match |-> m]
  <2>1. m \in Reported(Current.files[f], looked'[f]) /\ m.row = a
    BY <1>2, <1>21, CopyReported DEF IndexInvariant
  <2>2. r \in reported'
    <3> DEFINE Told(g) == {[file |-> g, match |-> n] : n \in Reported(Current.files[g], looked'[g])}
    <3>1. reported' = UNION {Told(g) : g \in DOMAIN Current.files}
      BY <1>1
    <3>2. r \in Told(f)
      <4> HIDE DEF m
      <4> QED  BY <2>1
    <3> HIDE DEF Told, r, m
    <3> QED  BY <3>1, <3>2
  <2>3. r.file = f /\ r.match.row = a
    BY <2>1
  <2> HIDE DEF r, m
  <2> QED  BY <2>2, <2>3
<1> QED  BY <1>5, <1>6, <1>7

\* What was told is forgotten when the files are written.
LEMMA TellingStays ==
    ASSUME step' # "add", reported' = {}
    PROVE  (Unasked /\ MatchesTrue /\ NotItself /\ DuplicateFound)'
BY DEF Unasked, MatchesTrue, NotItself, DuplicateFound

-----------------------------------------------------------------------------
(* What is added.                                                           *)

LEMMA PlacesFinite ==
    ASSUME NEW n \in Nat, NEW S \in SUBSET (1 .. n)
    PROVE  IsFiniteSet(S) /\ Cardinality(S) \in Nat
<1>1. IsFiniteSet(1 .. n)
  BY FS_Interval
<1>2. IsFiniteSet(S)
  BY <1>1, FS_Subset
<1> QED  BY <1>2, FS_CardinalityType

\* Positions that stand in order are different.
LEMMA OrderedPlaces ==
    ASSUME NEW n \in Nat, NEW S \in SUBSET (1 .. n), NEW places \in Ordered(S)
    PROVE  /\ DOMAIN places = 1 .. Cardinality(S) /\ Cardinality(S) \in Nat
           /\ \A i \in DOMAIN places : places[i] \in S
           /\ \A i, k \in DOMAIN places : places[i] = places[k] => i = k
<1>1. Cardinality(S) \in Nat
  BY PlacesFinite
<1>2. /\ places \in [1 .. Cardinality(S) -> S]
      /\ \A i, k \in DOMAIN places : i < k => places[i] < places[k]
  BY DEF Ordered
<1>3. ASSUME NEW i \in DOMAIN places, NEW k \in DOMAIN places, places[i] = places[k]  PROVE i = k
  <2>1. i \in Nat /\ k \in Nat /\ places[i] \in Nat /\ places[k] \in Nat
    <3>1. i \in 1 .. Cardinality(S) /\ k \in 1 .. Cardinality(S) /\ places[i] \in 1 .. n /\ places[k] \in 1 .. n
      BY <1>2
    <3> QED  BY <1>1, <3>1
  <2>2. ~(i < k) /\ ~(k < i)
    <3>1. ~(places[i] < places[k]) /\ ~(places[k] < places[i])
      BY <1>3, <2>1
    <3> QED  BY <1>2, <3>1
  <2> QED  BY <2>1, <2>2
<1> QED  BY <1>1, <1>2, <1>3

\* The number of the next vector is that of the numbers given.
LEMMA NextInLine ==
    ASSUME Indexed, \A n \in DOMAIN meta : meta[n].vector = n - 1
    PROVE  NextVector = Len(meta)
<1> DEFINE S == {meta[n].vector : n \in DOMAIN meta} \cup {None}
           l == Len(meta)
<1>1. DOMAIN meta = 1 .. l /\ l \in Nat
  BY Positions
<1>2. l - 1 \in S
  <2>1. CASE l = 0
    BY <2>1 DEF None
  <2>2. CASE l # 0
    <3>1. l \in DOMAIN meta
      BY <1>1, <2>2
    <3>2. meta[l].vector = l - 1
      BY <3>1
    <3> QED  BY <3>1, <3>2
  <2> QED  BY <2>1, <2>2
<1>3. ASSUME NEW x \in S  PROVE x \in Int /\ x <= l - 1
  <2>1. CASE x = None
    BY <1>1, <2>1 DEF None
  <2>2. ASSUME NEW n \in DOMAIN meta, x = meta[n].vector  PROVE x \in Int /\ x <= l - 1
    <3>1. n \in 1 .. l /\ x = n - 1
      BY <1>1, <2>2
    <3> QED  BY <1>1, <3>1
  <2> QED  BY <2>1, <2>2
<1>4. Max(S) = l - 1
  <2> HIDE DEF S, l
  <2>1. Max(S) \in S /\ \A x \in S : Max(S) >= x
    <3>1. S \in SUBSET Int /\ S # {} /\ l - 1 \in Int
      BY <1>1, <1>2, <1>3
    <3> QED  BY <1>3, <3>1, Greatest
  <2> QED  BY <1>1, <1>2, <1>3, <2>1
<1>5. NextVector = Max(S) + 1
  BY DEF NextVector
<1> HIDE DEF S, l
<1> QED  BY <1>1, <1>4, <1>5 DEF l

\* All positions stand in the order.
LEMMA OrderedReaches ==
    ASSUME NEW n \in Nat, NEW S \in SUBSET (1 .. n), NEW places \in Ordered(S)
    PROVE  \A x \in S : \E i \in DOMAIN places : places[i] = x
<1>1. IsFiniteSet(S) /\ IsFiniteSet(1 .. Cardinality(S)) /\ Cardinality(1 .. Cardinality(S)) = Cardinality(S)
  <2>1. IsFiniteSet(S) /\ Cardinality(S) \in Nat
    BY PlacesFinite
  <2> QED  BY <2>1, FS_Interval
<1>2. places \in [1 .. Cardinality(S) -> S]
  BY DEF Ordered
<1>3. places \in Injection(1 .. Cardinality(S), S)
  BY <1>2, OrderedPlaces DEF Injection, IsInjective
<1>4. places \in Surjection(1 .. Cardinality(S), S)
  BY <1>1, <1>3, FS_Injection
<1> QED  BY <1>2, <1>4 DEF Surjection

LEMMA Appended ==
    ASSUME NEW R, NEW s \in Seq(R), NEW t \in Seq(R)
    PROVE  /\ s \o t \in Seq(R) /\ Len(s \o t) = Len(s) + Len(t) /\ DOMAIN (s \o t) = 1 .. Len(s) + Len(t)
           /\ DOMAIN s = 1 .. Len(s) /\ Len(s) \in Nat /\ DOMAIN t = 1 .. Len(t) /\ Len(t) \in Nat
           /\ \A i \in DOMAIN s : i \in DOMAIN (s \o t) /\ (s \o t)[i] = s[i]
           /\ \A i \in DOMAIN t : Len(s) + i \in DOMAIN (s \o t) /\ (s \o t)[Len(s) + i] = t[i]
           /\ \A i \in DOMAIN (s \o t) : i \in DOMAIN s \/ (i - Len(s) \in DOMAIN t /\ i = Len(s) + (i - Len(s)))
  OBVIOUS

LEMMA Longer ==
    ASSUME NEW R, NEW s \in Seq(R), NEW t \in Seq(R), NEW u, u = s \o t
    PROVE  /\ u \in Seq(R) /\ DOMAIN u = 1 .. Len(s) + Len(t)
           /\ \A i \in DOMAIN s : i \in DOMAIN u /\ u[i] = s[i]
           /\ \A i \in DOMAIN t : Len(s) + i \in DOMAIN u /\ u[Len(s) + i] = t[i]
           /\ \A i \in DOMAIN u : i \in DOMAIN s \/ (i - Len(s) \in DOMAIN t /\ i = Len(s) + (i - Len(s)))
  BY Appended

\* Numbers have a bound.
LEMMA Bound ==
    ASSUME NEW n \in Nat, NEW f, \A i \in 1 .. n : f[i] \in Int
    PROVE  \E b \in Int : \A i \in 1 .. n : f[i] <= b
<1> DEFINE P(k) == \E b \in Int : \A i \in 1 .. k : f[i] <= b
           T == {k \in Nat : k <= n /\ ~P(k)}
<1> SUFFICES ASSUME ~P(n)  PROVE FALSE
  OBVIOUS
<1>1. PICK m \in T : \A k \in T : m <= k
  <2>1. T \in SUBSET Nat /\ n \in T
    OBVIOUS
  <2> HIDE DEF T
  <2> QED  BY <2>1, Least
<1>2. m \in Nat /\ m <= n /\ ~P(m)
  OBVIOUS
<1>3. m # 0
  <2>1. P(0)
    <3>1. \A i \in 1 .. 0 : f[i] <= 0
      OBVIOUS
    <3> QED  BY <3>1
  <2> HIDE DEF P, T
  <2> QED  BY <1>2, <2>1
<1>4. P(m - 1)
  <2>1. m - 1 \in Nat /\ m - 1 <= n /\ ~(m <= m - 1)
    BY <1>2, <1>3
  <2>2. m - 1 \notin T
    <3> HIDE DEF T, P
    <3> QED  BY <1>1, <2>1
  <2> HIDE DEF P
  <2> QED  BY <2>1, <2>2
<1>5. PICK b \in Int : \A i \in 1 .. m - 1 : f[i] <= b
  BY <1>4
<1>6. f[m] \in Int
  <2>1. m \in 1 .. n
    BY <1>2, <1>3
  <2> QED  BY <2>1
<1>7. PICK top \in Int : b <= top /\ f[m] <= top
  <2> DEFINE v == f[m]
  <2>1. v \in Int
    BY <1>6
  <2> HIDE DEF v
  <2>2. \E t \in Int : b <= t /\ v <= t
    <3>1. CASE b <= v
      <4>1. b <= v /\ v <= v
        BY <2>1, <3>1
      <4> HIDE DEF P, T
      <4> QED  BY <2>1, <4>1
    <3>2. CASE ~(b <= v)
      <4>1. v <= b /\ b <= b
        BY <2>1, <3>2
      <4> QED  BY <4>1
    <3> QED  BY <3>1, <3>2
  <2> QED  BY <2>2 DEF v
<1>8. ASSUME NEW i \in 1 .. m  PROVE f[i] <= top
  <2>1. CASE i = m
    BY <1>7, <2>1
  <2>2. CASE i # m
    <3>1. i \in 1 .. m - 1 /\ i \in 1 .. n
      BY <1>2, <2>2
    <3>2. f[i] <= b /\ f[i] \in Int
      BY <1>5, <3>1
    <3> QED  BY <1>7, <3>2
  <2> QED  BY <2>1, <2>2
<1>9. P(m)
  BY <1>8
<1> HIDE DEF P
<1> QED  BY <1>2, <1>9

LEMMA NextIsNumber ==
    ASSUME Indexed
    PROVE  NextVector \in Int
<1> DEFINE numbers == [n \in 1 .. Len(meta) |-> meta[n].vector]
           S == {meta[n].vector : n \in DOMAIN meta} \cup {None}
<1>1. DOMAIN meta = 1 .. Len(meta) /\ Len(meta) \in Nat
  BY Positions
<1>2. \A n \in DOMAIN meta : meta[n].vector \in Int
  <2>1. meta \in Seq(ClipRows)
    BY DEF Indexed
  <2>2. \A n \in DOMAIN meta : meta[n] \in ClipRows
    BY <2>1
  <2> QED  BY <2>2 DEF ClipRows
<1>3. \A n \in 1 .. Len(meta) : numbers[n] \in Int /\ numbers[n] = meta[n].vector
  BY <1>1, <1>2
<1>4. PICK b \in Int : \A n \in 1 .. Len(meta) : numbers[n] <= b
  <2> HIDE DEF numbers
  <2> QED  BY <1>1, <1>3, Bound
<1>5. PICK top \in Int : b <= top /\ -1 <= top
  <2>1. CASE b <= -1
    BY <2>1
  <2>2. CASE ~(b <= -1)
    <3>1. b <= b /\ -1 <= b
      BY <2>2
    <3> QED  BY <3>1
  <2> QED  BY <2>1, <2>2
<1>6. ASSUME NEW x \in S  PROVE x \in Int /\ x <= top
  <2>1. CASE x = None
    BY <1>5, <2>1 DEF None
  <2>2. ASSUME NEW n \in DOMAIN meta, x = meta[n].vector  PROVE x \in Int /\ x <= top
    <3>1. x \in Int /\ x <= b
      BY <1>1, <1>2, <1>3, <1>4, <2>2
    <3> QED  BY <1>5, <3>1
  <2> QED  BY <2>1, <2>2
<1>7. S \in SUBSET Int /\ S # {}
  BY <1>6
<1> HIDE DEF S
<1>8. Max(S) \in Int
  BY <1>6, <1>7, Greatest
<1> QED  BY <1>8 DEF NextVector, S

LEMMA PrepareEnters ==
    ASSUME Entered, Prepare
    PROVE  Entered'
<1>1. /\ step = "add" /\ step' = "rows" /\ UNCHANGED <<methods, assets, vectors, meta, job, faiss, crashes>>
  BY DEF Prepare
<1>2. PICK readable \in NewFiles(Current.files) :
         \E embedded \in IF "clip_faiss" \in methods THEN SUBSET readable ELSE {{}} :
         \E places \in Ordered(readable), clip \in Ordered(embedded) :
            fresh' = [rows |-> Rows(places), clip |-> Numbered(clip)]
  BY DEF Prepare
<1>3. PICK embedded \in IF "clip_faiss" \in methods THEN SUBSET readable ELSE {{}} :
         \E places \in Ordered(readable), clip \in Ordered(embedded) :
            fresh' = [rows |-> Rows(places), clip |-> Numbered(clip)]
  BY <1>2
<1>4. PICK places \in Ordered(readable), clip \in Ordered(embedded) :
         fresh' = [rows |-> Rows(places), clip |-> Numbered(clip)]
  BY <1>3
<1> DEFINE files == Current.files
<1>5. /\ DOMAIN files = 1 .. Len(files) /\ Len(files) \in Nat
      /\ \A f \in DOMAIN files : files[f].path \in STRING /\ files[f].image \in Images
      /\ Current.case \in STRING
  <2>1. /\ Current.case \in STRING /\ files \in Seq([path : STRING, image : Images])
        /\ \A f \in DOMAIN files : files[f] \in [path : STRING, image : Images]
    BY CurrentFiles DEF Entered
  <2> HIDE DEF files
  <2> QED  BY <2>1
<1>6. readable \in SUBSET DOMAIN files /\ embedded \in SUBSET readable
  BY DEF NewFiles
<1>7. /\ DOMAIN places = 1 .. Cardinality(readable) /\ Cardinality(readable) \in Nat
      /\ \A i \in DOMAIN places : places[i] \in readable
      /\ \A i, k \in DOMAIN places : places[i] = places[k] => i = k
      /\ \A x \in readable : \E k \in DOMAIN places : places[k] = x
  <2>1. readable \in SUBSET (1 .. Len(files)) /\ Len(files) \in Nat
    BY <1>5, <1>6
  <2> HIDE DEF files
  <2>2. \A x \in readable : \E k \in DOMAIN places : places[k] = x
    BY <2>1, OrderedReaches
  <2> QED  BY <2>1, <2>2, OrderedPlaces
<1>8. /\ DOMAIN clip = 1 .. Cardinality(embedded) /\ Cardinality(embedded) \in Nat
      /\ \A i \in DOMAIN clip : clip[i] \in embedded
  <2>1. embedded \in SUBSET (1 .. Len(files))
    BY <1>5, <1>6
  <2> HIDE DEF files
  <2> QED  BY <1>5, <2>1, OrderedPlaces
<1>9. fresh'.rows = Rows(places) /\ fresh'.clip = Numbered(clip)
  BY <1>4
<1>10. \A i \in DOMAIN places : /\ Rows(places)[i].path = files[places[i]].path
                                  /\ Rows(places)[i].image = files[places[i]].image
                                  /\ Rows(places)[i].case = Current.case
  BY DEF Rows
<1>11. Rows(places) \in Seq(RowSet) /\ DOMAIN Rows(places) = DOMAIN places
  <2>1. \A i \in DOMAIN places :
           [path |-> files[places[i]].path, image |-> files[places[i]].image, case |-> Current.case] \in RowSet
    BY <1>5, <1>6, <1>7 DEF RowSet
  <2> QED  BY <1>7, <2>1 DEF Rows
<1>12. NextVector \in Int
  BY NextIsNumber DEF Entered
<1>13. Numbered(clip) \in Seq(ClipRows) /\ DOMAIN Numbered(clip) = DOMAIN clip
       /\ \A n \in DOMAIN clip : /\ Numbered(clip)[n].vector = NextVector + n - 1
                                 /\ Numbered(clip)[n].asset = Asset(files[clip[n]])
  <2>1. ASSUME NEW n \in DOMAIN clip
        PROVE  [vector |-> NextVector + n - 1, asset |-> Asset(files[clip[n]])] \in ClipRows
    <3>1. clip[n] \in DOMAIN files /\ n \in Int
      BY <1>6, <1>8
    <3>2. Asset(files[clip[n]]) \in AssetSet
      BY <1>5, <3>1 DEF Asset, AssetSet
    <3>3. NextVector + n - 1 \in Int
      BY <1>12, <3>1
    <3> QED  BY <3>2, <3>3 DEF ClipRows
  <2> HIDE DEF files
  <2>2. Numbered(clip) = [n \in DOMAIN clip |-> [vector |-> NextVector + n - 1, asset |-> Asset(files[clip[n]])]]
    BY DEF Numbered, files
  <2>3. Numbered(clip) \in [1 .. Cardinality(embedded) -> ClipRows]
    BY <1>8, <2>1, <2>2
  <2>4. Numbered(clip) \in Seq(ClipRows)
    <3> DEFINE s == Numbered(clip)
    <3>1. s \in [1 .. Cardinality(embedded) -> ClipRows] /\ Cardinality(embedded) \in Nat
      BY <1>8, <2>3
    <3> HIDE DEF s
    <3>2. s \in Seq(ClipRows)
      BY <3>1
    <3> QED  BY <3>2 DEF s
  <2> QED  BY <2>2, <2>4
<1> HIDE DEF files
<1>14. Indexed'
  BY <1>1, <1>9, <1>11, <1>13 DEF Entered, Indexed
<1>15. Single'
  <2>1. ASSUME NEW i \in DOMAIN places, NEW k \in DOMAIN places, Rows(places)[i].image = Rows(places)[k].image
        PROVE  i = k
    <3>1. /\ places[i] \in readable /\ places[k] \in readable
          /\ files[places[i]].image = files[places[k]].image
      BY <1>7, <1>10, <2>1
    <3>2. places[i] = places[k]
      BY <3>1 DEF NewFiles, files
    <3> QED  BY <1>7, <3>2
  <2>2. ASSUME NEW i \in DOMAIN assets, NEW k \in DOMAIN places  PROVE assets[i].image # Rows(places)[k].image
    <3>1. places[k] \in readable /\ Rows(places)[k].image = files[places[k]].image
      BY <1>7, <1>10
    <3> QED  BY <3>1 DEF NewFiles, files
  <2>3. IndexedOnce'
    BY <1>1 DEF Entered, Single, IndexedOnce
  <2> QED  BY <1>1, <1>9, <1>11, <2>1, <2>2, <2>3 DEF Single
<1>16. Known'
  <2>1. ASSUME NEW n \in DOMAIN clip
        PROVE  \E a \in ToSet(Rows(places)) : Asset(a) = Numbered(clip)[n].asset
    <3>1. clip[n] \in readable
      BY <1>6, <1>8
    <3>2. PICK k \in DOMAIN places : places[k] = clip[n]
      BY <1>7, <3>1
    <3>3. Asset(Rows(places)[k]) = Asset(files[clip[n]])
      BY <1>10, <3>2 DEF Asset
    <3>4. Rows(places)[k] \in ToSet(Rows(places))
      BY <1>11 DEF ToSet
    <3> QED  BY <1>13, <3>3, <3>4
  <2>2. "clip_faiss" \notin methods => Numbered(clip) = <<>>
    <3>1. SUFFICES ASSUME "clip_faiss" \notin methods  PROVE Numbered(clip) = <<>>
      OBVIOUS
    <3>2. embedded = {}
      BY <3>1
    <3>3. DOMAIN Numbered(clip) = 1 .. 0
      BY <1>8, <1>13, <3>2, FS_EmptySet
    <3> DEFINE s == Numbered(clip)
    <3>4. s \in Seq(ClipRows) /\ DOMAIN s = 1 .. 0
      BY <1>13, <3>3
    <3> HIDE DEF s
    <3>5. s = <<>>
      BY <3>4
    <3> QED  BY <3>5 DEF s
  <2> QED  BY <1>1, <1>9, <1>13, <2>1, <2>2 DEF Entered, Known
<1>17. Lined'
  <2> SUFFICES ASSUME Sure' PROVE Lined'
    BY DEF Lined
  <2>1. Sure
    BY <1>1 DEF Sure, Steady
  <2>2. /\ \A n \in DOMAIN meta : /\ meta[n].vector = n - 1 /\ n \in DOMAIN vectors
                                    /\ vectors[n] = meta[n].asset.image
        /\ Len(vectors) = Len(meta)
    BY <1>1, <2>1 DEF Entered, Lined
  <2>3. NextVector = Len(meta)
    BY <2>2, NextInLine DEF Entered
  <2> QED  BY <1>1, <1>9, <1>13, <2>2, <2>3 DEF Lined
<1> QED  BY <1>14, <1>15, <1>16, <1>17 DEF Entered

LEMMA RowsEnter ==
    ASSUME Entered, AppendRows
    PROVE  Entered'
<1>1. /\ step = "rows" /\ step' = "vectors" /\ assets' = assets \o fresh.rows
      /\ UNCHANGED <<methods, vectors, meta, job, fresh, looked, reported, faiss, crashes>>
  BY DEF AppendRows
<1>2. Indexed /\ Single /\ Known /\ Lined
  BY DEF Entered
<1>3. assets \in Seq(RowSet) /\ fresh.rows \in Seq(RowSet)
  BY <1>2 DEF Indexed
<1> DEFINE old == assets
           new == fresh.rows
<1>4. /\ assets' \in Seq(RowSet) /\ DOMAIN assets' = 1 .. Len(old) + Len(new)
      /\ \A i \in DOMAIN old : i \in DOMAIN assets' /\ assets'[i] = old[i]
      /\ \A i \in DOMAIN new : Len(old) + i \in DOMAIN assets' /\ assets'[Len(old) + i] = new[i]
      /\ \A i \in DOMAIN assets' : i \in DOMAIN old \/ (i - Len(old) \in DOMAIN new /\ i = Len(old) + (i - Len(old)))
  <2>1. assets' = old \o new /\ old \in Seq(RowSet) /\ new \in Seq(RowSet)
    BY <1>1, <1>3
  <2> HIDE DEF old, new
  <2> QED  BY <2>1, Longer
<1>5. Indexed'
  BY <1>1, <1>2, <1>4 DEF Indexed
<1>6. ASSUME NEW i \in DOMAIN assets', NEW k \in DOMAIN assets', assets'[i].image = assets'[k].image
      PROVE  i = k
  <2>0. /\ \A x, y \in DOMAIN old : old[x].image = old[y].image => x = y
        /\ \A x, y \in DOMAIN new : new[x].image = new[y].image => x = y
        /\ \A x \in DOMAIN old, y \in DOMAIN new : old[x].image # new[y].image
    BY <1>1, <1>2 DEF Single, IndexedOnce
  <2> HIDE DEF old, new
  <2>1. CASE i \in DOMAIN old /\ k \in DOMAIN old
    BY <1>4, <1>6, <2>0, <2>1
  <2>2. CASE i \in DOMAIN old /\ k \notin DOMAIN old
    <3>1. PICK y \in DOMAIN new : k = Len(old) + y
      BY <1>4, <2>2
    <3> QED  BY <1>4, <1>6, <2>0, <2>2, <3>1
  <2>3. CASE i \notin DOMAIN old /\ k \in DOMAIN old
    <3>1. PICK x \in DOMAIN new : i = Len(old) + x
      BY <1>4, <2>3
    <3> QED  BY <1>4, <1>6, <2>0, <2>3, <3>1
  <2>4. CASE i \notin DOMAIN old /\ k \notin DOMAIN old
    <3>1. PICK x \in DOMAIN new : i = Len(old) + x
      BY <1>4, <2>4
    <3>2. PICK y \in DOMAIN new : k = Len(old) + y
      BY <1>4, <2>4
    <3>3. x = y
      BY <1>4, <1>6, <2>0, <3>1, <3>2
    <3> QED  BY <3>1, <3>2, <3>3
  <2> QED  BY <2>1, <2>2, <2>3, <2>4
<1>7. Single'
  BY <1>1, <1>6 DEF Single, IndexedOnce
<1>8. ToSet(assets) \subseteq ToSet(assets') /\ ToSet(new) \subseteq ToSet(assets')
  <2> HIDE DEF new
  <2> QED  BY <1>4 DEF ToSet
<1>9. Known'
  BY <1>1, <1>2, <1>8 DEF Known
<1>10. Lined'
  BY <1>1, <1>2 DEF Lined, Sure, Steady
<1> QED  BY <1>5, <1>7, <1>9, <1>10 DEF Entered

LEMMA VectorsEnter ==
    ASSUME Entered, AppendVectors
    PROVE  Entered'
<1>1. /\ step = "vectors" /\ step' = "meta"
      /\ vectors' = IF faiss THEN vectors \o [n \in DOMAIN fresh.clip |-> fresh.clip[n].asset.image] ELSE vectors
      /\ UNCHANGED <<methods, assets, meta, job, fresh, looked, reported, faiss, crashes>>
  BY DEF AppendVectors
<1>2. Indexed /\ Single /\ Known /\ Lined
  BY DEF Entered
<1> DEFINE new == [n \in DOMAIN fresh.clip |-> fresh.clip[n].asset.image]
<1>3. vectors \in Seq(Images) /\ new \in Seq(Images) /\ Len(new) = Len(fresh.clip) /\ Len(new) \in Nat
      /\ DOMAIN new = DOMAIN fresh.clip /\ DOMAIN new = 1 .. Len(new)
  <2>1. vectors \in Seq(Images) /\ fresh.clip \in Seq(ClipRows)
    BY <1>2 DEF Indexed
  <2>2. DOMAIN fresh.clip = 1 .. Len(fresh.clip) /\ Len(fresh.clip) \in Nat
        /\ \A n \in DOMAIN fresh.clip : fresh.clip[n] \in ClipRows
    BY <2>1
  <2>3. \A n \in DOMAIN fresh.clip : fresh.clip[n].asset.image \in Images
    BY <2>2 DEF ClipRows, AssetSet
  <2>4. new \in [1 .. Len(fresh.clip) -> Images]
    BY <2>2, <2>3
  <2> HIDE DEF new
  <2> QED  BY <2>1, <2>2, <2>4
<1>4. \A n \in DOMAIN new : new[n] = fresh.clip[n].asset.image
  OBVIOUS
<1>5. vectors' = IF faiss THEN vectors \o new ELSE vectors
  BY <1>1
<1> HIDE DEF new
<1>6. /\ vectors \o new \in Seq(Images) /\ Len(vectors \o new) = Len(vectors) + Len(new)
      /\ \A i \in DOMAIN vectors : i \in DOMAIN (vectors \o new) /\ (vectors \o new)[i] = vectors[i]
      /\ \A i \in DOMAIN new : (vectors \o new)[Len(vectors) + i] = new[i]
  <2>1. vectors \in Seq(Images) /\ new \in Seq(Images)
    BY <1>3
  <2> QED  BY <2>1, Appended
<1>7. Indexed'
  BY <1>1, <1>2, <1>3, <1>5, <1>6 DEF Indexed
<1>8. Single' /\ Known'
  BY <1>1, <1>2 DEF Single, IndexedOnce, Known
<1>9. Lined'
  <2> SUFFICES ASSUME Sure' PROVE Lined'
    BY DEF Lined
  <2>1. Sure
    BY <1>1 DEF Sure, Steady
  <2>2. vectors' = vectors \o new
    BY <1>5, <2>1 DEF Sure
  <2>3. /\ \A n \in DOMAIN meta : /\ meta[n].vector = n - 1 /\ n \in DOMAIN vectors
                                    /\ vectors[n] = meta[n].asset.image
        /\ Len(vectors) = Len(meta)
        /\ \A n \in DOMAIN fresh.clip : fresh.clip[n].vector = Len(meta) + n - 1
    BY <1>1, <1>2, <2>1 DEF Lined
  <2>4. \A n \in DOMAIN meta : n \in DOMAIN vectors' /\ vectors'[n] = meta[n].asset.image
    BY <1>6, <2>2, <2>3
  <2>5. Len(vectors') = Len(meta) + Len(fresh.clip)
    BY <1>3, <1>6, <2>2, <2>3
  <2>6. \A n \in DOMAIN fresh.clip : vectors'[Len(meta) + n] = fresh.clip[n].asset.image
    BY <1>3, <1>4, <1>6, <2>2, <2>3
  <2> QED  BY <1>1, <2>3, <2>4, <2>5, <2>6 DEF Lined
<1> QED  BY <1>7, <1>8, <1>9 DEF Entered

LEMMA MetaEnter ==
    ASSUME Entered, AppendMeta
    PROVE  Entered'
<1>1. /\ step = "meta" /\ step' = "end" /\ meta' = meta \o fresh.clip
      /\ UNCHANGED <<methods, assets, vectors, job, fresh, looked, reported, faiss, crashes>>
  BY DEF AppendMeta
<1>2. Indexed /\ Single /\ Known /\ Lined
  BY DEF Entered
<1> DEFINE old == meta
           new == fresh.clip
<1>3. old \in Seq(ClipRows) /\ new \in Seq(ClipRows)
  BY <1>2 DEF Indexed
<1>4. /\ meta' \in Seq(ClipRows) /\ Len(meta') = Len(old) + Len(new)
      /\ DOMAIN old = 1 .. Len(old) /\ Len(old) \in Nat /\ DOMAIN new = 1 .. Len(new) /\ Len(new) \in Nat
      /\ \A i \in DOMAIN old : meta'[i] = old[i]
      /\ \A i \in DOMAIN new : meta'[Len(old) + i] = new[i]
      /\ \A i \in DOMAIN meta' : i \in DOMAIN old \/ (i - Len(old) \in DOMAIN new /\ i = Len(old) + (i - Len(old)))
  BY <1>1, <1>3, Appended
<1>5. Indexed'
  BY <1>1, <1>2, <1>4 DEF Indexed
<1>6. Single'
  BY <1>1, <1>2 DEF Single, IndexedOnce
<1>7. Known'
  <2>1. /\ \A n \in DOMAIN old : \E a \in ToSet(assets) : Asset(a) = old[n].asset
        /\ \A n \in DOMAIN new : \E a \in ToSet(assets) : Asset(a) = new[n].asset
    BY <1>1, <1>2 DEF Known
  <2>2. ASSUME NEW n \in DOMAIN meta'  PROVE \E a \in ToSet(assets) : Asset(a) = meta'[n].asset
    <3> HIDE DEF old, new
    <3>1. CASE n \in DOMAIN old
      BY <1>4, <2>1, <3>1
    <3>2. CASE n \notin DOMAIN old
      <4>1. PICK k \in DOMAIN new : n = Len(old) + k
        BY <1>4, <2>2, <3>2
      <4>2. meta'[n] = new[k]
        BY <1>4, <4>1
      <4> QED  BY <2>1, <4>2
    <3> QED  BY <3>1, <3>2
  <2>3. "clip_faiss" \notin methods => meta' = <<>>
    <3>1. "clip_faiss" \notin methods => meta = <<>> /\ fresh.clip = <<>>
      BY <1>2 DEF Known
    <3> QED  BY <1>1, <3>1
  <2>4. "clip_faiss" \notin methods => fresh'.clip = <<>>
    BY <1>1, <1>2 DEF Known
  <2> QED  BY <1>1, <2>2, <2>3, <2>4 DEF Known
<1>8. Lined'
  <2> SUFFICES ASSUME Sure' PROVE Lined'
    BY DEF Lined
  <2>1. Sure
    BY <1>1 DEF Sure, Steady
  <2>2. /\ \A n \in DOMAIN old : /\ old[n].vector = n - 1 /\ n \in DOMAIN vectors
                                   /\ vectors[n] = old[n].asset.image
        /\ \A n \in DOMAIN new : new[n].vector = Len(old) + n - 1
        /\ Len(vectors) = Len(old) + Len(new)
        /\ \A n \in DOMAIN new : vectors[Len(old) + n] = new[n].asset.image
    BY <1>1, <1>2, <2>1 DEF Lined
  <2>3. DOMAIN vectors = 1 .. Len(vectors)
    BY <1>2, Positions
  <2>4. ASSUME NEW n \in DOMAIN meta'
        PROVE  meta'[n].vector = n - 1 /\ n \in DOMAIN vectors /\ vectors[n] = meta'[n].asset.image
    <3> HIDE DEF old, new
    <3>1. CASE n \in DOMAIN old
      BY <1>4, <2>2, <3>1
    <3>2. CASE n \notin DOMAIN old
      <4>1. PICK k \in DOMAIN new : n = Len(old) + k
        BY <1>4, <2>4, <3>2
      <4>2. meta'[n] = new[k] /\ k \in 1 .. Len(new)
        BY <1>4, <4>1
      <4>3. n \in 1 .. Len(vectors)
        BY <1>4, <2>2, <4>1, <4>2
      <4> QED  BY <2>2, <2>3, <4>1, <4>2, <4>3
    <3> QED  BY <3>1, <3>2
  <2>5. Len(vectors) = Len(meta')
    BY <1>4, <2>2
  <2> QED  BY <1>1, <2>4, <2>5 DEF Lined
<1> QED  BY <1>5, <1>6, <1>7, <1>8 DEF Entered

\* The next media, or the same again after a crash.
LEMMA RestartEnters ==
    ASSUME Entered, NextJob \/ Crash
    PROVE  Entered'
<1>1. /\ step' = "search" /\ fresh' = Nothing /\ UNCHANGED <<methods, assets, vectors, meta>>
      /\ job' \in DOMAIN Jobs
  <2>1. CASE NextJob
    <3>1. Jobs \in Seq([case : STRING, files : Seq([path : STRING, image : Images])])
      BY IndexAssumption DEF IndexAssumption
    <3>2. DOMAIN Jobs = 1 .. Len(Jobs) /\ Len(Jobs) \in Nat
      BY <3>1, LenProperties
    <3>3. job \in 1 .. Len(Jobs) /\ job < Len(Jobs) /\ job' = job + 1
      BY <2>1, <3>2 DEF NextJob, Entered, Indexed
    <3> QED  BY <2>1, <3>2, <3>3 DEF NextJob
  <2>2. CASE Crash
    BY <2>2 DEF Crash, Entered, Indexed
  <2> QED  BY <2>1, <2>2
<1>2. crashes' \in Nat /\ (crashes' = 0 => crashes = 0)
  <2>1. crashes \in Nat
    BY DEF Entered, Indexed
  <2>2. crashes' = crashes \/ crashes' = crashes + 1
    BY DEF NextJob, Crash
  <2> QED  BY <2>1, <2>2
<1>3. Nothing.rows \in Seq(RowSet) /\ Nothing.clip \in Seq(ClipRows) /\ Nothing.clip = <<>>
  BY DEF Nothing
<1>4. Indexed'
  BY <1>1, <1>2, <1>3 DEF Entered, Indexed
<1>5. Single' /\ Known'
  BY <1>1, <1>3 DEF Entered, Single, IndexedOnce, Known
<1>6. Lined'
  <2> SUFFICES ASSUME Sure' PROVE Lined'
    BY DEF Lined
  <2>1. "clip_faiss" \in methods /\ crashes = 0 /\ crashes' = 0 /\ ~FaissChanges
    BY <1>1, <1>2 DEF Sure, Steady
  <2>2. ~Crash
    BY <2>1 DEF Crash
  <2>3. faiss' = faiss /\ step = "end"
    BY <2>1, <2>2 DEF NextJob
  <2>4. Sure
    BY <2>1, <2>3 DEF Sure, Steady
  <2> QED  BY <1>1, <2>3, <2>4 DEF Entered, Lined
<1> QED  BY <1>4, <1>5, <1>6 DEF Entered

LEMMA IndexGoesOn ==
    ASSUME IndexInvariant, [IndexNext]_indexVars
    PROVE  IndexInvariant'
<1>1. CASE UNCHANGED indexVars
  BY <1>1 DEF indexVars, IndexInvariant, Entered, Indexed, Single, IndexedOnce, Known, Lined, Sure, Steady,
              Unasked, MatchesTrue, NotItself, DuplicateFound, Asked, Current, Skip
<1>2. CASE SearchImages
  <2>1. Entered'
    BY <1>2 DEF SearchImages, IndexInvariant, Entered, Indexed, Single, IndexedOnce, Known, Lined, Sure, Steady
  <2>2. Unasked'
    BY <1>2 DEF SearchImages, Unasked
  <2> QED  BY <1>2, <2>1, <2>2, SearchTells DEF IndexInvariant
<1>3. CASE Prepare
  <2>1. Entered'
    BY <1>3, PrepareEnters DEF IndexInvariant
  <2>2. (Unasked /\ MatchesTrue /\ NotItself /\ DuplicateFound)'
    BY <1>3, TellingStays DEF Prepare
  <2> QED  BY <2>1, <2>2 DEF IndexInvariant
<1>4. CASE AppendRows
  <2>1. Entered'
    BY <1>4, RowsEnter DEF IndexInvariant
  <2>2. (Unasked /\ MatchesTrue /\ NotItself /\ DuplicateFound)'
    BY <1>4, TellingStays DEF AppendRows, IndexInvariant, Unasked
  <2> QED  BY <2>1, <2>2 DEF IndexInvariant
<1>5. CASE AppendVectors
  <2>1. Entered'
    BY <1>5, VectorsEnter DEF IndexInvariant
  <2>2. (Unasked /\ MatchesTrue /\ NotItself /\ DuplicateFound)'
    BY <1>5, TellingStays DEF AppendVectors, IndexInvariant, Unasked
  <2> QED  BY <2>1, <2>2 DEF IndexInvariant
<1>6. CASE AppendMeta
  <2>1. Entered'
    BY <1>6, MetaEnter DEF IndexInvariant
  <2>2. (Unasked /\ MatchesTrue /\ NotItself /\ DuplicateFound)'
    BY <1>6, TellingStays DEF AppendMeta, IndexInvariant, Unasked
  <2> QED  BY <2>1, <2>2 DEF IndexInvariant
<1>7. CASE NextJob \/ Crash
  <2>1. Entered'
    BY <1>7, RestartEnters DEF IndexInvariant
  <2>2. reported' = {} /\ step' = "search"
    BY <1>7 DEF NextJob, Crash, IndexInvariant, Unasked
  <2>3. (Unasked /\ MatchesTrue /\ NotItself /\ DuplicateFound)'
    BY <2>2, TellingStays
  <2> QED  BY <2>1, <2>3 DEF IndexInvariant
<1> QED  BY <1>1, <1>2, <1>3, <1>4, <1>5, <1>6, <1>7 DEF IndexNext

LEMMA IndexStarts ==
    ASSUME IndexInit
    PROVE  IndexInvariant
<1>1. /\ methods \in MethodSets /\ assets = <<>> /\ vectors = <<>> /\ meta = <<>> /\ job = 1 /\ step = "search"
      /\ fresh = Nothing /\ reported = {} /\ crashes = 0
  BY DEF IndexInit
<1>2. 1 \in DOMAIN Jobs
  <2>1. Jobs \in Seq([case : STRING, files : Seq([path : STRING, image : Images])]) /\ Jobs # <<>>
    BY IndexAssumption DEF IndexAssumption
  <2>2. Len(Jobs) \in Nat /\ Len(Jobs) # 0 /\ DOMAIN Jobs = 1 .. Len(Jobs)
    BY <2>1, EmptySeq, LenProperties
  <2> QED  BY <2>2
<1>3. Indexed
  BY <1>1, <1>2 DEF Indexed, Nothing
<1>4. Single /\ Known /\ Lined
  BY <1>1 DEF Single, IndexedOnce, Known, Lined, Nothing
<1>5. Unasked /\ MatchesTrue /\ NotItself /\ DuplicateFound
  BY <1>1 DEF Unasked, MatchesTrue, NotItself, DuplicateFound
<1> QED  BY <1>3, <1>4, <1>5 DEF IndexInvariant, Entered

LEMMA IndexFollows ==
    ASSUME IndexInvariant
    PROVE  IndexTrue
<1>1. Indexed /\ Single /\ Known /\ Lined
  BY DEF IndexInvariant, Entered
<1>2. Aligned
  <2> SUFFICES ASSUME Steady, faiss, step \in {"search", "end"}, NEW i \in DOMAIN meta
               PROVE  /\ meta[i].vector + 1 \in DOMAIN vectors
                      /\ vectors[meta[i].vector + 1] = meta[i].asset.image
                      /\ \E a \in ToSet(assets) : Asset(a) = meta[i].asset
    BY DEF Aligned
  <2>1. \E a \in ToSet(assets) : Asset(a) = meta[i].asset
    BY <1>1 DEF Known
  <2>2. "clip_faiss" \in methods
    BY <1>1 DEF Known
  <2>3. meta[i].vector = i - 1 /\ i \in DOMAIN vectors /\ vectors[i] = meta[i].asset.image
    BY <1>1, <2>2 DEF Lined, Sure
  <2>4. i \in Nat
    BY <1>1, Positions
  <2>5. meta[i].vector + 1 = i
    BY <2>3, <2>4
  <2> QED  BY <2>1, <2>3, <2>5
<1> QED  BY <1>1, <1>2 DEF IndexInvariant, IndexTrue, Single

\* Whatever the media and however many, and whatever fails of their digests, hashes
\* and embeddings, searched for or added: what is reported looks like the query; it
\* is not the query nor, if it has a digest, its image of the same case; no image is indexed twice; a
\* copy of a query that has a hash is found while there are not more images than
\* become evidence; and, with embeddings, as long as no crash came between two files
\* and FAISS came or went, the vectors are where their numbers say
\* (VisualIndex.search, add_assets, LocalReverseImageSearch.search).
THEOREM IndexIsTrue == IndexSpec => []IndexTrue
<1>1. IndexInit => IndexInvariant
  BY IndexStarts
<1>2. IndexInvariant /\ [IndexNext]_indexVars => IndexInvariant'
  BY IndexGoesOn
<1>3. IndexInvariant => IndexTrue
  BY IndexFollows
<1> QED  BY <1>1, <1>2, <1>3, PTL DEF IndexSpec

-----------------------------------------------------------------------------
(* Media.                                                                   *)

Stages == {"metadata", "keyframes", "ocr", "vlm", "forensics", "asr", "reverse", "done", "error"}

FrameCount == Setting.maxFrames

\* Where a medium is, and what was made of its frames.
Shown ==
    /\ setting \in DOMAIN Settings /\ world \in Setting.media /\ stage \in Stages
    /\ read \in Setting.readings \cup {"unread"}
    /\ frames.extracted \in SUBSET (1 .. FrameCount) /\ frames.kept \in SUBSET frames.extracted
    /\ frames.extracted # {} => frames.kept # {}
    /\ stage = "metadata" => read = "unread" /\ evidence = {}
    /\ stage = "keyframes" => Video

\* A piece of evidence is of pictures there are, and an uncertainty shows nothing.
Sound(e, last) ==
    /\ e.seen \subseteq 0 .. last
    /\ e.type = "synthetic_uncertainty" => e.flags \cap Signals = {}

AllSound == \A e \in evidence : Sound(e, FrameCount)

\* TruFor is asked once.
Unscanned == stage \in {"metadata", "keyframes", "ocr", "vlm", "forensics"} => DOMAIN scores = {}

EditorSeen ==
    Opened /\ "editor" \in world.facts /\ read # "unread" =>
        \E e \in evidence : e.type = "metadata_exiftool" /\ "software_tag_suspicious" \in e.flags

\* A medium without pictures has left the reason.
NonePictured ==
    stage \notin {"metadata", "keyframes"} /\ Targets = {} =>
        \E e \in evidence : e.flags \cap {"metadata_missing", "video_keyframes_unavailable"} # {}

Described ==
    stage \in {"forensics", "asr", "reverse", "done"} =>
        \A t \in Targets : \E e \in evidence :
            /\ t \in e.seen
            /\ \/ e.type = "visual_caption"
               \/ e.flags \cap {"vlm_adapter_failed", "vlm_empty_output"} # {}

MediaInvariant ==
    /\ Shown /\ AllSound /\ Unscanned
    /\ FallbackTold /\ CuesReported /\ FramesStand
    /\ EditorSeen /\ NonePictured /\ Described

LEMMA MediaConstants ==
    ASSUME setting \in DOMAIN Settings, world \in Setting.media
    PROVE  /\ FrameCount \in Nat \ {0} /\ Setting.maxTargets \in Nat \ {0}
           /\ world.type \in {"image", "video"} /\ world.exists \in BOOLEAN
           /\ world.look \in [0 .. FrameCount -> Nat]
           /\ Setting.engine \in {"disabled", "basic", "trufor"} /\ Setting.fallbacks \subseteq BOOLEAN
           /\ Setting.readings \subseteq {"read", "empty", "metadata_tool_failed", "metadata_json_parse_failed"}
           /\ Setting.speeches \subseteq
                 {"speech", "asr_low_confidence", "asr_adapter_unavailable", "asr_empty_transcript",
                  "asr_adapter_disabled", "ffmpeg_audio_extract_failed", "no_audio_stream"}
           /\ Setting.scores \subseteq Failed .. 100 /\ Setting.cues \subseteq ForensicCues
  BY MediaAssumption DEF MediaAssumption, Setting, FrameCount

LEMMA UncertaintySound ==
    ASSUME NEW last, NEW seen \in SUBSET (0 .. last), NEW flag, flag \notin Signals
    PROVE  Sound(Unavailable(seen, flag), last)
  BY DEF Sound, Unavailable, Item

LEMMA OtherSound ==
    ASSUME NEW last, NEW seen \in SUBSET (0 .. last), NEW type, NEW flags, NEW says,
           type # "synthetic_uncertainty"
    PROVE  Sound(Item(type, seen, flags, says), last)
  BY DEF Sound, Item

\* Of the subsets of a finite set that are of a kind, one has none of them below.
LEMMA SmallestSubset ==
    ASSUME NEW S, IsFiniteSet(S), NEW Bad \in SUBSET (SUBSET S), Bad # {}
    PROVE  \E U \in Bad : \A T \in Bad : ~(T \subseteq U /\ T # U)
<1>1. Bad \subseteq FiniteSubsetsOf(S)
  BY FS_Subset DEF FiniteSubsetsOf
<1>2. PICK U \in Bad : \A T \in Bad : ~(<<T, U>> \in StrictSubsetOrdering(S))
  BY <1>1, FS_StrictSubsetOrderingWellFounded, WFMin
<1> QED  BY <1>2 DEF StrictSubsetOrdering

\* What the pass over the frames keeps is definite: what it keeps of all but
\* the last, and the last one if it resembles none of these.
Passes(some, chosen) == \A f \in some : f \in chosen <=> \A k \in chosen : k < f => ~Resemble(f, k)

LEMMA SomePass ==
    ASSUME NEW some, IsFiniteSet(some),
           \A R \in SUBSET some : R # {} => \E x \in R : \A y \in R : ~(x < y)
    PROVE  \E chosen \in SUBSET some : Passes(some, chosen)
<1> DEFINE Bad == {R \in SUBSET some : \A S \in SUBSET R : ~Passes(R, S)}
<1>1. SUFFICES ASSUME Bad # {}  PROVE FALSE
  <2>1. some \notin Bad
    BY <1>1
  <2> QED  BY <2>1
<1>2. PICK R \in Bad : \A T \in Bad : ~(T \subseteq R /\ T # R)
  <2>1. Bad \in SUBSET (SUBSET some)
    OBVIOUS
  <2> HIDE DEF Bad
  <2> QED  BY <1>1, <2>1, SmallestSubset
<1>3. R # {} /\ R \subseteq some
  <2>1. Passes({}, {})
    BY DEF Passes
  <2> QED  BY <2>1
<1>4. PICK x \in R : \A y \in R : ~(x < y)
  BY <1>3
<1>5. PICK S \in SUBSET (R \ {x}) : Passes(R \ {x}, S)
  <2>1. R \ {x} \notin Bad /\ R \ {x} \in SUBSET some
    BY <1>2
  <2> QED  BY <2>1
<1> DEFINE Stays == \A k \in S : k < x => ~Resemble(x, k)
           Whole == IF Stays THEN S \cup {x} ELSE S
<1>6. ASSUME NEW m \in R
      PROVE  (\A k \in Whole : k < m => ~Resemble(m, k)) <=> \A k \in S : k < m => ~Resemble(m, k)
  <2>1. ~(x < m)
    BY <1>4
  <2>2. \A k : k \in Whole /\ k < m <=> k \in S /\ k < m
    BY <2>1
  <2> HIDE DEF Whole
  <2> QED  BY <2>2
<1>7. Whole \in SUBSET R
  OBVIOUS
<1>8. ASSUME NEW m \in R  PROVE m \in Whole <=> \A k \in Whole : k < m => ~Resemble(m, k)
  <2>1. CASE m = x
    <3>1. x \in Whole <=> Stays
      OBVIOUS
    <3> HIDE DEF Whole
    <3> QED  BY <1>6, <2>1, <3>1
  <2>2. CASE m # x
    <3>1. m \in S <=> \A k \in S : k < m => ~Resemble(m, k)
      BY <1>5, <2>2 DEF Passes
    <3>2. m \in Whole <=> m \in S
      BY <2>2
    <3> HIDE DEF Whole, Stays
    <3> QED  BY <1>6, <3>1, <3>2
  <2> QED  BY <2>1, <2>2
<1>9. Passes(R, Whole)
  <2> HIDE DEF Whole
  <2> QED  BY <1>7, <1>8 DEF Passes
<1> QED  BY <1>2, <1>7, <1>9

LEMMA FramesKept ==
    ASSUME NEW last \in Nat, NEW some \in SUBSET (1 .. last)
    PROVE  /\ Deduplicate(some) \in SUBSET some
           /\ Has("imagehash") => Passes(some, Deduplicate(some))
           /\ some # {} => Deduplicate(some) # {}
<1>1. CASE ~Has("imagehash")
  BY <1>1 DEF Deduplicate
<1>2. CASE Has("imagehash")
  <2>1. Deduplicate(some) = CHOOSE chosen \in SUBSET some : Passes(some, chosen)
    BY <1>2 DEF Deduplicate, Passes
  <2>2. ASSUME NEW R \in SUBSET some, R # {}  PROVE \E x \in R : \A y \in R : ~(x < y)
    <3>1. R \subseteq Int /\ last \in Int /\ \A y \in R : y \in Int /\ y <= last
      <4>1. \A y \in R : y \in 1 .. last
        OBVIOUS
      <4> QED  BY <4>1
    <3>2. Max(R) \in R /\ \A y \in R : Max(R) >= y
      BY <2>2, <3>1, Greatest
    <3>3. ASSUME NEW y \in R  PROVE ~(Max(R) < y)
      <4>1. Max(R) \in Int /\ y \in Int /\ Max(R) >= y
        BY <3>1, <3>2
      <4> QED  BY <4>1
    <3> QED  BY <3>2, <3>3
  <2>3. IsFiniteSet(some)
    <3>1. IsFiniteSet(1 .. last)
      BY FS_Interval
    <3> QED  BY <3>1, FS_Subset
  <2>4. \E chosen \in SUBSET some : Passes(some, chosen)
    BY <2>2, <2>3, SomePass
  <2>5. Deduplicate(some) \in SUBSET some /\ Passes(some, Deduplicate(some))
    <3> HIDE DEF Passes
    <3> QED  BY <2>1, <2>4
  <2>6. some # {} => Deduplicate(some) # {}
    BY <2>5 DEF Passes
  <2> QED  BY <2>5, <2>6
<1> QED  BY <1>1, <1>2

\* What passes stands for all, whatever resembles what.
LEMMA PassStands ==
    ASSUME NEW last \in Nat, NEW some \in SUBSET (1 .. last), NEW chosen \in SUBSET some, Passes(some, chosen),
           world.look \in [0 .. last -> Nat]
    PROVE  /\ \A f \in some : \E k \in chosen : k = f \/ Resemble(f, k)
           /\ \A f, k \in chosen : f # k => ~Resemble(f, k)
<1>1. \A f \in some : \E k \in chosen : k = f \/ Resemble(f, k)
  BY DEF Passes
<1>2. ASSUME NEW f \in chosen, NEW k \in chosen, f # k  PROVE ~Resemble(f, k)
  <2>1. f \in 0 .. last /\ k \in 0 .. last
    <3>1. chosen \subseteq 1 .. last
      OBVIOUS
    <3> QED  BY <3>1
  <2>2. Resemble(f, k) <=> Resemble(k, f)
    <3>1. world.look[f] \in Nat /\ world.look[k] \in Nat
      BY <2>1
    <3> QED  BY <3>1 DEF Resemble
  <2>3. k < f => ~Resemble(f, k)
    BY DEF Passes
  <2>4. f < k => ~Resemble(k, f)
    BY DEF Passes
  <2>5. f < k \/ k < f
    BY <1>2, <2>1
  <2> QED  BY <2>2, <2>3, <2>4, <2>5
<1> QED  BY <1>1, <1>2

LEMMA MediaStarts == MediaInit => MediaInvariant
<1> SUFFICES ASSUME MediaInit  PROVE MediaInvariant
  OBVIOUS
<1>1. Shown
  BY DEF MediaInit, Shown, Stages
<1>2. AllSound /\ Unscanned
  BY DEF MediaInit, AllSound, Unscanned
<1>3. FallbackTold /\ CuesReported /\ FramesStand
  BY DEF MediaInit, FallbackTold, CuesReported, FramesStand, Examined
<1>4. EditorSeen /\ NonePictured /\ Described
  BY DEF MediaInit, EditorSeen, NonePictured, Described
<1> QED  BY <1>1, <1>2, <1>3, <1>4 DEF MediaInvariant

LEMMA TargetsThere ==
    ASSUME Shown
    PROVE  /\ Targets \subseteq 0 .. FrameCount /\ ForensicTargets \subseteq 0 .. FrameCount
           /\ Candidates \subseteq ForensicTargets
<1>1. FrameCount \in Nat \ {0}
  BY MediaConstants DEF Shown
<1>2. \A f \in frames.kept : f \in 0 .. FrameCount
  <2>1. \A f \in frames.kept : f \in 1 .. FrameCount
    BY DEF Shown
  <2> QED  BY <1>1, <2>1
<1>3. 0 \in 0 .. FrameCount
  BY <1>1
<1> QED  BY <1>2, <1>3 DEF Targets, ForensicTargets, Candidates

-----------------------------------------------------------------------------
\* What was told and shown stays so while evidence is added.
LEMMA ShownStays ==
    ASSUME MediaInvariant, UNCHANGED <<setting, world, read, frames>>, evidence \subseteq evidence',
           stage \notin {"metadata", "keyframes"}, stage' \in Stages \ {"metadata", "keyframes"}
    PROVE  Shown' /\ FramesStand' /\ EditorSeen' /\ NonePictured'
<1>1. Shown'
  BY DEF MediaInvariant, Shown, Setting, FrameCount
<1>2. FramesStand'
  BY DEF MediaInvariant, FramesStand, Resemble, Readable, Has
<1>3. EditorSeen'
  BY DEF MediaInvariant, EditorSeen, Opened, Video, Readable
<1>4. NonePictured'
  BY DEF MediaInvariant, NonePictured, Targets, Video
<1> QED  BY <1>1, <1>2, <1>3, <1>4

LEMMA ReportStays ==
    ASSUME MediaInvariant, UNCHANGED <<setting, world, frames, scores, report>>, evidence \subseteq evidence',
           Examined' => Examined
    PROVE  FallbackTold' /\ CuesReported'
<1>1. FallbackTold'
  <2>1. Candidates' = Candidates /\ Setting' = Setting
    BY DEF Candidates, ForensicTargets, Targets, Video, Setting
  <2> QED  BY <2>1 DEF MediaInvariant, FallbackTold
<1>2. CuesReported'
  BY DEF MediaInvariant, CuesReported, Forensic
<1> QED  BY <1>1, <1>2

LEMMA DescriptionsStay ==
    ASSUME Described, UNCHANGED <<world, frames>>, evidence \subseteq evidence',
           stage \in {"forensics", "asr", "reverse", "done"}
    PROVE  Described'
  BY DEF Described, Targets, Video

LEMMA SoundStays ==
    ASSUME AllSound, setting' = setting, \A e \in evidence' : e \in evidence \/ Sound(e, FrameCount)
    PROVE  AllSound'
<1>1. FrameCount' = FrameCount
  BY DEF FrameCount, Setting
<1> QED  BY <1>1 DEF AllSound, Sound

-----------------------------------------------------------------------------
\* Metadata: a flag of a tool that is there belongs to a reading.
LEMMA ToolTells ==
    ASSUME Shown, NEW tool, NEW type, type # "synthetic_uncertainty", NEW missing, missing \notin Signals, NEW reading
    PROVE  LET item == ToolItem(tool, type, missing, reading)
           IN  Sound(item, FrameCount) /\ (~world.exists => "metadata_missing" \in item.flags)
<1>1. FrameCount \in Nat /\ {0} \in SUBSET (0 .. FrameCount)
  <2>1. FrameCount \in Nat
    BY MediaConstants DEF Shown
  <2> QED  BY <2>1
<1>2. CASE Has(tool) /\ world.exists
  BY <1>1, <1>2, OtherSound DEF ToolItem
<1>3. CASE ~(Has(tool) /\ world.exists)
  <2> DEFINE flag == IF world.exists THEN missing ELSE "metadata_missing"
  <2>1. flag \notin Signals
    BY DEF Signals, ForensicCues
  <2>2. ToolItem(tool, type, missing, reading) = Unavailable({0}, flag)
    BY <1>3 DEF ToolItem
  <2>3. flag \in Unavailable({0}, flag).flags
    BY DEF Unavailable, Item
  <2> HIDE DEF flag
  <2>4. Sound(Unavailable({0}, flag), FrameCount)
    BY <1>1, <2>1, UncertaintySound
  <2>5. ~world.exists => flag = "metadata_missing"
    BY DEF flag
  <2> QED  BY <2>2, <2>3, <2>4, <2>5
<1> QED  BY <1>2, <1>3

LEMMA MetadataKeeps ==
    ASSUME MediaInvariant, ExtractMetadata
    PROVE  MediaInvariant'
<1> USE DEF MediaInvariant
<1>1. PICK exif \in Setting.readings, probe \in Setting.readings :
        /\ evidence' = {ToolItem("exiftool", "metadata_exiftool", "exiftool_missing", exif),
                        ToolItem("ffprobe", "metadata_ffprobe", "ffprobe_missing", probe)}
        /\ read' = IF Has("exiftool") /\ world.exists THEN exif ELSE "unread"
  BY DEF ExtractMetadata
<1>2. /\ stage = "metadata" /\ stage' = IF Video THEN "keyframes" ELSE "ocr"
      /\ UNCHANGED <<setting, world, frames, scores, report, indexed>>
  BY DEF ExtractMetadata
<1>3. read = "unread" /\ evidence = {}
  BY <1>2 DEF Shown
<1>4. Shown'
  <2>1. read' \in Setting.readings \cup {"unread"}
    BY <1>1
  <2>2. Setting' = Setting /\ FrameCount' = FrameCount /\ Video' = Video
    BY <1>2 DEF Setting, FrameCount, Video
  <2>3. stage' \in Stages /\ (stage' = "keyframes" => Video) /\ stage' # "metadata"
    BY <1>2 DEF Stages
  <2> QED  BY <1>2, <2>1, <2>2, <2>3 DEF Shown
<1>5. \A e \in evidence' : Sound(e, FrameCount) /\ (~world.exists => "metadata_missing" \in e.flags)
  <2>1. "exiftool_missing" \notin Signals /\ "ffprobe_missing" \notin Signals
    BY DEF Signals, ForensicCues
  <2> QED  BY <1>1, <2>1, ToolTells
<1>6. AllSound'
  BY <1>2, <1>5, SoundStays
<1>7. Unscanned'
  BY <1>2 DEF Unscanned
<1>8. FallbackTold' /\ CuesReported'
  BY <1>2 DEF FallbackTold, CuesReported, Examined
<1>9. FramesStand'
  BY <1>2 DEF FramesStand, Resemble, Readable, Has
<1>10. EditorSeen'
  <2> SUFFICES ASSUME Opened, "editor" \in world.facts, read' # "unread"
               PROVE  \E e \in evidence' : e.type = "metadata_exiftool" /\ "software_tag_suspicious" \in e.flags
    BY <1>2 DEF EditorSeen, Opened, Video, Readable
  <2>1. Has("exiftool") /\ world.exists
    BY <1>1
  <2>2. "editor" \in KnownFacts(Parsed(exif))
    BY DEF KnownFacts
  <2>3. "software_tag_suspicious" \in QualityFlags(Parsed(exif), "exiftool")
    BY <2>2 DEF QualityFlags
  <2> DEFINE e == ToolItem("exiftool", "metadata_exiftool", "exiftool_missing", exif)
  <2>4. e.type = "metadata_exiftool" /\ "software_tag_suspicious" \in e.flags
    BY <2>1, <2>3 DEF ToolItem, Item
  <2> QED  BY <1>1, <2>4
<1>11. NonePictured'
  <2> SUFFICES ASSUME ~Video, ~world.exists
               PROVE  \E e \in evidence' : e.flags \cap {"metadata_missing", "video_keyframes_unavailable"} # {}
    BY <1>2 DEF NonePictured, Targets, Video
  <2>1. PICK e \in evidence' : TRUE
    BY <1>1
  <2> QED  BY <1>5, <2>1
<1>12. Described'
  BY <1>2 DEF Described
<1> QED  BY <1>4, <1>6, <1>7, <1>8, <1>9, <1>10, <1>11, <1>12

LEMMA StandingFrames ==
    ASSUME world' = world,
           Has("imagehash") =>
              /\ \A f \in frames'.extracted : \E k \in frames'.kept : k = f \/ Resemble(f, k)
              /\ \A f, k \in frames'.kept : f # k => ~Resemble(f, k)
    PROVE  FramesStand'
  BY DEF FramesStand, Resemble, Readable, Has

LEMMA KeyframesKeep ==
    ASSUME MediaInvariant, ExtractKeyframes
    PROVE  MediaInvariant'
<1> USE DEF MediaInvariant
<1>1. /\ stage = "keyframes" /\ stage' = "ocr" /\ Video
      /\ UNCHANGED <<setting, world, read, scores, report, indexed>>
  BY DEF ExtractKeyframes, Shown
<1>2. PICK some \in SUBSET (1 .. FrameCount) : Extracted(some)
  <2>1. CASE Extracted({})
    BY <2>1
  <2>2. CASE \E scenes \in 0 .. Setting.maxFrames : \E good \in SUBSET (1 .. Times(scenes)) : Extracted(good)
    <3> PICK scenes \in 0 .. Setting.maxFrames : \E good \in SUBSET (1 .. Times(scenes)) : Extracted(good)
      BY <2>2
    <3>1. PICK good \in SUBSET (1 .. Times(scenes)) : Extracted(good)
      OBVIOUS
    <3>2. FrameCount \in Nat \ {0}
      BY MediaConstants DEF Shown
    <3>3. Times(scenes) \in 1 .. FrameCount
      BY <3>2 DEF Times, FrameCount
    <3>4. \A f \in 1 .. Times(scenes) : f \in 1 .. FrameCount
      BY <3>2, <3>3
    <3> QED  BY <3>1, <3>4
  <2> QED  BY <2>1, <2>2 DEF ExtractKeyframes
<1>3. /\ frames'.extracted = some /\ frames'.kept = Deduplicate(some)
      /\ evidence' = evidence \cup
            IF some = {} THEN {Unavailable({0}, "video_keyframes_unavailable")}
            ELSE {Item("scene_keyframe", {f}, {}, "frame") : f \in Deduplicate(some)}
  BY <1>2 DEF Extracted
<1>4. FrameCount \in Nat \ {0} /\ world.look \in [0 .. FrameCount -> Nat]
  BY MediaConstants DEF Shown
<1>5. /\ Deduplicate(some) \in SUBSET some
      /\ Has("imagehash") => Passes(some, Deduplicate(some))
      /\ some # {} => Deduplicate(some) # {}
  BY <1>4, FramesKept
<1>6. Shown'
  <2>1. Setting' = Setting /\ FrameCount' = FrameCount
    BY <1>1 DEF Setting, FrameCount
  <2>2. stage' \in Stages
    BY <1>1 DEF Stages
  <2> QED  BY <1>1, <1>3, <1>5, <2>1, <2>2 DEF Shown
<1>7. AllSound'
  <2>1. Sound(Unavailable({0}, "video_keyframes_unavailable"), FrameCount)
    <3>1. {0} \in SUBSET (0 .. FrameCount) /\ "video_keyframes_unavailable" \notin Signals
      BY <1>4 DEF Signals, ForensicCues
    <3> QED  BY <3>1, UncertaintySound
  <2>2. ASSUME NEW f \in Deduplicate(some)  PROVE Sound(Item("scene_keyframe", {f}, {}, "frame"), FrameCount)
    <3>1. f \in 1 .. FrameCount
      BY <1>5
    <3>2. {f} \in SUBSET (0 .. FrameCount)
      BY <1>4, <3>1
    <3> QED  BY <3>2, OtherSound
  <2>3. \A e \in evidence' : e \in evidence \/ Sound(e, FrameCount)
    BY <1>3, <2>1, <2>2
  <2> QED  BY <1>1, <2>3, SoundStays
<1>8. Unscanned'
  BY <1>1 DEF Unscanned
<1>9. FallbackTold' /\ CuesReported'
  BY <1>1 DEF FallbackTold, CuesReported, Examined
<1>10. FramesStand'
  <2>1. Has("imagehash") =>
           /\ \A f \in some : \E k \in Deduplicate(some) : k = f \/ Resemble(f, k)
           /\ \A f, k \in Deduplicate(some) : f # k => ~Resemble(f, k)
    BY <1>4, <1>5, PassStands
  <2>2. frames'.extracted = some /\ frames'.kept = Deduplicate(some)
    BY <1>3
  <2>3. Has("imagehash") =>
           /\ \A f \in frames'.extracted : \E k \in frames'.kept : k = f \/ Resemble(f, k)
           /\ \A f, k \in frames'.kept : f # k => ~Resemble(f, k)
    BY <2>1, <2>2, Zenon
  <2> QED  BY <1>1, <2>3, StandingFrames
<1>11. EditorSeen'
  BY <1>1, <1>3 DEF EditorSeen, Opened, Video, Readable
<1>12. NonePictured'
  <2> SUFFICES ASSUME Deduplicate(some) = {}
               PROVE  \E e \in evidence' : e.flags \cap {"metadata_missing", "video_keyframes_unavailable"} # {}
    BY <1>1, <1>3 DEF NonePictured, Targets, Video
  <2>1. Unavailable({0}, "video_keyframes_unavailable") \in evidence'
    BY <1>3, <1>5
  <2> QED  BY <2>1 DEF Unavailable, Item
<1>13. Described'
  BY <1>1 DEF Described
<1> QED  BY <1>6, <1>7, <1>8, <1>9, <1>10, <1>11, <1>12, <1>13

\* A step that only adds sound evidence, where nothing is examined or described anew.
LEMMA AddingKeeps ==
    ASSUME MediaInvariant, UNCHANGED <<setting, world, read, frames, scores, report>>,
           evidence \subseteq evidence', \A e \in evidence' : e \in evidence \/ Sound(e, FrameCount),
           stage \notin {"metadata", "keyframes"}, stage' \in Stages \ {"metadata", "keyframes"},
           Examined' => Examined, Unscanned', Described'
    PROVE  MediaInvariant'
<1>1. Shown' /\ FramesStand' /\ EditorSeen' /\ NonePictured'
  BY ShownStays
<1>2. FallbackTold' /\ CuesReported'
  BY ReportStays
<1>3. AllSound'
  BY SoundStays DEF MediaInvariant
<1> QED  BY <1>1, <1>2, <1>3 DEF MediaInvariant

LEMMA OneSeen ==
    ASSUME Shown, NEW t \in Targets
    PROVE  {t} \in SUBSET (0 .. FrameCount)
  BY TargetsThere

LEMMA TextKeeps ==
    ASSUME MediaInvariant, ReadText
    PROVE  MediaInvariant'
<1> USE DEF MediaInvariant
<1>1. /\ stage = "ocr" /\ stage' = "vlm"
      /\ UNCHANGED <<setting, world, read, frames, scores, report, indexed>>
  BY DEF ReadText
<1>2. PICK text \in [Targets -> Setting.texts] :
         evidence' = evidence
            \cup {Unavailable({t}, "ocr_failed") : t \in {t \in Targets : text[t] = "failed"}}
            \cup {Item("ocr", {t \in Targets : text[t] = answer}, {}, answer) :
                     answer \in Range(text) \ {"failed", "nothing"}}
  BY DEF ReadText
<1>3. ASSUME NEW e \in evidence'  PROVE e \in evidence \/ Sound(e, FrameCount)
  <2>1. ASSUME NEW t \in Targets  PROVE Sound(Unavailable({t}, "ocr_failed"), FrameCount)
    <3>1. "ocr_failed" \notin Signals
      BY DEF Signals, ForensicCues
    <3> QED  BY <3>1, OneSeen, UncertaintySound
  <2>2. ASSUME NEW answer  PROVE Sound(Item("ocr", {t \in Targets : text[t] = answer}, {}, answer), FrameCount)
    <3>1. {t \in Targets : text[t] = answer} \in SUBSET (0 .. FrameCount)
      BY TargetsThere
    <3> QED  BY <3>1, OtherSound
  <2> QED  BY <1>2, <2>1, <2>2
<1>4. Unscanned' /\ Described' /\ (Examined' => Examined)
  BY <1>1 DEF Unscanned, Described, Examined
<1>5. evidence \subseteq evidence'
  BY <1>2
<1>6. stage \notin {"metadata", "keyframes"} /\ stage' \in Stages \ {"metadata", "keyframes"}
  BY <1>1 DEF Stages
<1> QED  BY <1>1, <1>3, <1>4, <1>5, <1>6, AddingKeeps

LEMMA SceneTells ==
    ASSUME Shown, NEW t \in Targets, NEW answer
    PROVE  \A e \in SceneItem(t, answer) :
              /\ Sound(e, FrameCount) /\ t \in e.seen
              /\ \/ e.type = "visual_caption"
                 \/ e.flags \cap {"vlm_adapter_failed", "vlm_empty_output"} # {}
<1>1. {t} \in SUBSET (0 .. FrameCount)
  BY OneSeen
<1>2. "vlm_adapter_failed" \notin Signals /\ "vlm_empty_output" \notin Signals
  BY DEF Signals, ForensicCues
<1>3. /\ Sound(Unavailable({t}, "vlm_adapter_failed"), FrameCount)
      /\ Sound(Unavailable({t}, "vlm_empty_output"), FrameCount)
      /\ Sound(Item("visual_caption", {t}, {answer} \cap {"vlm_unsure"}, "scene"), FrameCount)
  BY <1>1, <1>2, UncertaintySound, OtherSound
<1>4. /\ t \in Unavailable({t}, "vlm_adapter_failed").seen /\ t \in Unavailable({t}, "vlm_empty_output").seen
      /\ "vlm_adapter_failed" \in Unavailable({t}, "vlm_adapter_failed").flags
      /\ "vlm_empty_output" \in Unavailable({t}, "vlm_empty_output").flags
  BY DEF Unavailable, Item
<1>5. LET e == Item("visual_caption", {t}, {answer} \cap {"vlm_unsure"}, "scene")
      IN  t \in e.seen /\ e.type = "visual_caption"
  BY DEF Item
<1>6. CASE answer = "failed"
  BY <1>3, <1>4, <1>6 DEF SceneItem
<1>7. CASE answer = "nothing"
  BY <1>3, <1>4, <1>7 DEF SceneItem
<1>8. CASE answer \notin {"failed", "nothing"}
  BY <1>3, <1>5, <1>8 DEF SceneItem
<1> QED  BY <1>6, <1>7, <1>8

LEMMA ScenesKeep ==
    ASSUME MediaInvariant, DescribeScenes
    PROVE  MediaInvariant'
<1> USE DEF MediaInvariant
<1>1. /\ stage = "vlm" /\ UNCHANGED <<setting, world, read, frames, scores, report, indexed>>
  BY DEF DescribeScenes
<1>2. PICK answer \in [Targets -> Setting.scenes] :
         \/ stage' = "error" /\ UNCHANGED evidence
         \/ /\ stage' = "forensics"
            /\ evidence' = evidence \cup UNION {SceneItem(t, answer[t]) : t \in Targets}
  BY DEF DescribeScenes
<1>3. ASSUME NEW e \in evidence'  PROVE e \in evidence \/ Sound(e, FrameCount)
  BY <1>2, SceneTells
<1>4. Unscanned' /\ (Examined' => Examined) /\ evidence \subseteq evidence'
  BY <1>1, <1>2 DEF Unscanned, Examined
<1>5. Described'
  <2>1. CASE stage' = "error"
    BY <2>1 DEF Described
  <2>2. CASE evidence' = evidence \cup UNION {SceneItem(t, answer[t]) : t \in Targets}
    <3>1. ASSUME NEW t \in Targets
          PROVE  \E e \in evidence' :
                    /\ t \in e.seen
                    /\ \/ e.type = "visual_caption"
                       \/ e.flags \cap {"vlm_adapter_failed", "vlm_empty_output"} # {}
      <4>1. SceneItem(t, answer[t]) # {}
        BY DEF SceneItem
      <4>2. SceneItem(t, answer[t]) \subseteq evidence'
        BY <2>2
      <4> QED  BY <4>1, <4>2, SceneTells
    <3>2. Targets' = Targets
      BY <1>1 DEF Targets, Video
    <3> QED  BY <3>1, <3>2 DEF Described
  <2> QED  BY <1>2, <2>1, <2>2
<1>6. stage \notin {"metadata", "keyframes"} /\ stage' \in Stages \ {"metadata", "keyframes"}
  BY <1>1, <1>2 DEF Stages
<1> QED  BY <1>1, <1>3, <1>4, <1>5, <1>6, AddingKeeps

-----------------------------------------------------------------------------
\* Forensics: what each way to a report adds.
LEMMA BasicAdds ==
    ASSUME Shown, NEW extra, Basic(extra)
    PROVE  /\ report' = report
           /\ \E e : /\ evidence' = evidence \cup {e} /\ Sound(e, FrameCount)
                     /\ extra \subseteq e.flags
<1>1. Candidates \in SUBSET (0 .. FrameCount)
  BY TargetsThere
<1>2. PICK flags, says :
         evidence' = evidence \cup {Item("forensic_analysis", Candidates, flags \cup extra, says)}
  BY Zenon DEF Basic
<1> DEFINE e == Item("forensic_analysis", Candidates, flags \cup extra, says)
<1>3. Sound(e, FrameCount)
  BY <1>1, OtherSound
<1>4. extra \subseteq e.flags
  BY DEF Item
<1>5. report' = report
  BY DEF Basic
<1> QED  BY <1>2, <1>3, <1>4, <1>5

Troubles == {"deep_forensic_backend_unavailable", "deep_forensic_inference_failed"}

LEMMA FallbackAdds ==
    ASSUME Shown, NEW flag \in Troubles, FallbackOrUncertainty(flag)
    PROVE  \E e : /\ evidence' = evidence \cup {e} /\ Sound(e, FrameCount)
                  /\ flag \in e.flags
                  /\ e.says \in {"clear", "caution", "stripped"} => "deep_forensic_fallback" \in e.flags
<1>1. CASE Basic({flag, "deep_forensic_fallback"})
  <2>1. PICK e : /\ evidence' = evidence \cup {e} /\ Sound(e, FrameCount)
                 /\ {flag, "deep_forensic_fallback"} \subseteq e.flags
    BY <1>1, BasicAdds
  <2> QED  BY <2>1
<1>2. CASE evidence' = evidence \cup {Unavailable({0}, flag)}
  <2>1. FrameCount \in Nat \ {0}
    BY MediaConstants DEF Shown
  <2>2. {0} \in SUBSET (0 .. FrameCount) /\ flag \notin Signals
    BY <2>1 DEF Signals, ForensicCues, Troubles
  <2>3. Sound(Unavailable({0}, flag), FrameCount)
    BY <2>2, UncertaintySound
  <2>4. flag \in Unavailable({0}, flag).flags /\ Unavailable({0}, flag).says = "unavailable"
    BY DEF Unavailable, Item
  <2> QED  BY <1>2, <2>3, <2>4
<1> QED  BY <1>1, <1>2 DEF FallbackOrUncertainty

\* The report of results that are not all failures.
LEMMA DeepAdds ==
    ASSUME Shown, Candidates # {}, NEW result \in [Candidates -> Result], DeepReport(result)
    PROVE  \E e : /\ evidence' = evidence \cup {e} /\ Sound(e, FrameCount)
                  /\ e.type = "forensic_analysis" /\ e.says \in {"deep_cues", "deep_clear"}
                  /\ e.flags = UNION {ResultFlags(result[t]) : t \in Candidates}
                  /\ (\E t \in Candidates : result[t].score >= Threshold) =>
                        e.says = "deep_cues" /\ \A t \in Candidates : result[t].score <= report'.max
<1> DEFINE Results == {result[t].score : t \in DOMAIN result}
           highest == Max(Results)
           e == Item("forensic_analysis", DOMAIN result, UNION {ResultFlags(result[t]) : t \in DOMAIN result},
                     IF highest >= Threshold THEN "deep_cues" ELSE "deep_clear")
<1>1. DOMAIN result = Candidates
  OBVIOUS
<1>2. evidence' = evidence \cup {e} /\ (highest >= Threshold => report'.max = highest)
  BY DEF DeepReport
<1>3. \A t \in Candidates : result[t].score \in Failed .. 100
  <2>1. Setting.scores \subseteq Failed .. 100
    BY MediaConstants DEF Shown
  <2> QED  BY <2>1 DEF Result
<1>4. highest \in Int /\ \A t \in Candidates : result[t].score \in Int /\ highest >= result[t].score
  <2>1. \A x \in Results : x \in Int /\ x <= 100
    BY <1>1, <1>3 DEF Failed
  <2>2. Results \in SUBSET Int /\ Results # {} /\ 100 \in Int
    BY <1>1, <2>1
  <2>3. highest \in Results /\ \A x \in Results : highest >= x
    <3> HIDE DEF Results
    <3> QED  BY <2>1, <2>2, Greatest
  <2>4. \A t \in Candidates : result[t].score \in Results
    BY <1>1
  <2> HIDE DEF Results, highest
  <2> QED  BY <2>1, <2>3, <2>4
<1> HIDE DEF highest
<1>5. Sound(e, FrameCount)
  <2>1. Candidates \in SUBSET (0 .. FrameCount)
    BY TargetsThere
  <2> QED  BY <1>1, <2>1, OtherSound
<1>6. /\ e.type = "forensic_analysis" /\ e.flags = UNION {ResultFlags(result[t]) : t \in Candidates}
      /\ e.says = IF highest >= Threshold THEN "deep_cues" ELSE "deep_clear"
  BY <1>1 DEF Item
<1>7. ASSUME NEW t \in Candidates, result[t].score >= Threshold
      PROVE  e.says = "deep_cues" /\ \A u \in Candidates : result[u].score <= report'.max
  <2>1. highest >= Threshold
    BY <1>4, <1>7 DEF Threshold
  <2> QED  BY <1>2, <1>4, <1>6, <2>1
<1> HIDE DEF e
<1> QED  BY <1>2, <1>5, <1>6, <1>7

\* TruFor: what it did not come to is told, and what it scores high.
LEMMA DeepTells ==
    ASSUME MediaInvariant, stage = "forensics", Candidates # {}, Deep
    PROVE  /\ \E e : evidence' = evidence \cup {e} /\ Sound(e, FrameCount)
           /\ \/ DOMAIN scores' # {} /\ \A t \in DOMAIN scores' : scores'[t].score # Failed
              \/ \E e \in evidence' :
                   /\ e.flags \cap Troubles # {}
                   /\ e.says \in {"clear", "caution", "stripped"} => "deep_forensic_fallback" \in e.flags
           /\ (\E t \in DOMAIN scores' : scores'[t].score >= Threshold) =>
                /\ \E e \in evidence' : /\ e.type = "forensic_analysis" /\ e.says = "deep_cues"
                                        /\ "deep_forensic_high_manipulation_score" \in e.flags
                /\ \A t \in DOMAIN scores' : scores'[t].score <= report'.max
<1> USE DEF MediaInvariant
<1>1. CASE ~Has("trufor")
  <2>1. scores' = <<>> /\ FallbackOrUncertainty("deep_forensic_backend_unavailable")
    BY <1>1 DEF Deep
  <2>2. DOMAIN scores' = {}
    BY <2>1
  <2>3. "deep_forensic_backend_unavailable" \in Troubles
    BY DEF Troubles
  <2>4. PICK e : /\ evidence' = evidence \cup {e} /\ Sound(e, FrameCount)
                 /\ "deep_forensic_backend_unavailable" \in e.flags
                 /\ e.says \in {"clear", "caution", "stripped"} => "deep_forensic_fallback" \in e.flags
    BY <2>1, <2>3, FallbackAdds
  <2> QED  BY <2>2, <2>3, <2>4
<1>2. CASE Has("trufor")
  <2>1. PICK result \in [Candidates -> Result] :
           /\ scores' = result
           /\ IF AllFailed(result) THEN FallbackOrUncertainty("deep_forensic_inference_failed")
              ELSE DeepReport(result)
    BY <1>2 DEF Deep
  <2>2. DOMAIN scores' = Candidates
    BY <2>1
  <2>3. "deep_forensic_inference_failed" \in Troubles
    BY DEF Troubles
  <2>4. \A t \in Candidates : result[t].score \in Int
    <3>1. Setting.scores \subseteq Failed .. 100
      BY MediaConstants DEF Shown
    <3>2. \A t \in Candidates : result[t].score \in Failed .. 100
      BY <3>1 DEF Result
    <3> QED  BY <3>2 DEF Failed
  <2>5. CASE AllFailed(result)
    <3>1. PICK e : /\ evidence' = evidence \cup {e} /\ Sound(e, FrameCount)
                   /\ "deep_forensic_inference_failed" \in e.flags
                   /\ e.says \in {"clear", "caution", "stripped"} => "deep_forensic_fallback" \in e.flags
      BY <2>1, <2>3, <2>5, FallbackAdds
    <3>2. \A t \in Candidates : ~(result[t].score >= Threshold)
      BY <2>4, <2>5 DEF AllFailed, Threshold
    <3> QED  BY <2>1, <2>2, <2>3, <3>1, <3>2
  <2>6. CASE ~AllFailed(result)
    <3>1. PICK e : /\ evidence' = evidence \cup {e} /\ Sound(e, FrameCount)
                   /\ e.type = "forensic_analysis" /\ e.says \in {"deep_cues", "deep_clear"}
                   /\ e.flags = UNION {ResultFlags(result[t]) : t \in Candidates}
                   /\ (\E t \in Candidates : result[t].score >= Threshold) =>
                         e.says = "deep_cues" /\ \A t \in Candidates : result[t].score <= report'.max
      BY <2>1, <2>6, DeepAdds
    <3>2. ASSUME NEW t \in Candidates, result[t].score = Failed
          PROVE  "deep_forensic_inference_failed" \in e.flags
      <4>1. "deep_forensic_inference_failed" \in ResultFlags(result[t])
        BY <3>2 DEF ResultFlags
      <4> QED  BY <3>1, <4>1
    <3>3. ASSUME NEW t \in Candidates, result[t].score >= Threshold
          PROVE  "deep_forensic_high_manipulation_score" \in e.flags
      <4>1. "deep_forensic_high_manipulation_score" \in ResultFlags(result[t])
        BY <3>3 DEF ResultFlags
      <4> QED  BY <3>1, <4>1
    <3>4. \/ \A t \in Candidates : result[t].score # Failed
          \/ "deep_forensic_inference_failed" \in e.flags
      BY <3>2
    <3>5. e \in evidence'
      BY <3>1
    <3>6. e.says \notin {"clear", "caution", "stripped"}
      BY <3>1
    <3> QED  BY <2>1, <2>2, <2>3, <3>1, <3>3, <3>4, <3>5, <3>6
  <2> QED  BY <2>5, <2>6
<1> QED  BY <1>1, <1>2

LEMMA ForensicsKeep ==
    ASSUME MediaInvariant, AnalyzeForensics
    PROVE  MediaInvariant'
<1> USE DEF MediaInvariant
<1>1. /\ stage = "forensics" /\ stage' \in {"asr", "reverse"}
      /\ UNCHANGED <<setting, world, read, frames, indexed>>
  BY DEF AnalyzeForensics
<1>2. FrameCount \in Nat \ {0} /\ Setting.engine \in {"disabled", "basic", "trufor"}
  BY MediaConstants DEF Shown
<1>3. \/ Unexamined("forensic_adapter_disabled") /\ Setting.engine = "disabled"
      \/ Unexamined("forensic_media_missing") /\ Candidates = {}
      \/ Basic({}) /\ UNCHANGED scores /\ Setting.engine = "basic"
      \/ Deep /\ Candidates # {}
  BY <1>1, <1>2 DEF AnalyzeForensics
<1>4. DOMAIN scores = {}
  BY <1>1 DEF Unscanned
<1>5. ASSUME NEW flag, flag \notin Signals, Unexamined(flag)
      PROVE  \E e : evidence' = evidence \cup {e} /\ Sound(e, FrameCount)
  <2>1. {0} \in SUBSET (0 .. FrameCount)
    BY <1>2
  <2> QED  BY <1>5, <2>1, UncertaintySound DEF Unexamined
<1>6. \E e : evidence' = evidence \cup {e} /\ Sound(e, FrameCount)
  <2>1. "forensic_adapter_disabled" \notin Signals /\ "forensic_media_missing" \notin Signals
    BY DEF Signals, ForensicCues
  <2> QED  BY <1>1, <1>3, <1>5, <2>1, BasicAdds, DeepTells
<1>7. evidence \subseteq evidence' /\ \A e \in evidence' : e \in evidence \/ Sound(e, FrameCount)
  BY <1>6
<1>8. Shown' /\ FramesStand' /\ EditorSeen' /\ NonePictured'
  <2>1. stage \notin {"metadata", "keyframes"} /\ stage' \in Stages \ {"metadata", "keyframes"}
    BY <1>1 DEF Stages
  <2> QED  BY <1>1, <1>7, <2>1, ShownStays
<1>9. AllSound'
  BY <1>1, <1>7, SoundStays
<1>10. Unscanned'
  BY <1>1 DEF Unscanned
<1>11. Described'
  BY <1>1, <1>7, DescriptionsStay
<1>12. Candidates' = Candidates /\ Setting' = Setting
  BY <1>1 DEF Candidates, ForensicTargets, Targets, Video, Setting
<1>13. FallbackTold'
  <2>1. CASE Deep /\ Candidates # {}
    BY <1>1, <2>1, DeepTells DEF FallbackTold, Troubles
  <2>2. CASE Setting.engine # "trufor" \/ Candidates = {}
    BY <1>12, <2>2 DEF FallbackTold
  <2> QED  BY <1>3, <2>1, <2>2
<1>14. CuesReported'
  <2>1. CASE Deep /\ Candidates # {}
    BY <1>1, <2>1, DeepTells DEF CuesReported, Forensic
  <2>2. CASE UNCHANGED scores
    BY <1>4, <2>2 DEF CuesReported
  <2> QED  BY <1>3, <2>1, <2>2 DEF Unexamined
<1> QED  BY <1>8, <1>9, <1>10, <1>11, <1>13, <1>14

LEMMA TranscribeKeeps ==
    ASSUME MediaInvariant, Transcribe
    PROVE  MediaInvariant'
<1> USE DEF MediaInvariant
<1>1. /\ stage = "asr" /\ stage' = "reverse"
      /\ UNCHANGED <<setting, world, read, frames, scores, report, indexed>>
  BY DEF Transcribe
<1>2. PICK answer \in Setting.speeches :
         \/ evidence' = evidence \cup {Unavailable({0}, "asr_media_missing")}
         \/ evidence' = evidence \cup {Unavailable({0}, "ffmpeg_audio_extract_failed")}
         \/ evidence' = evidence \cup {Unavailable({0}, answer)}
         \/ evidence' = evidence \cup {Item("asr", {0}, {answer} \cap {"asr_low_confidence"}, "speech")}
  BY DEF Transcribe
<1>3. {0} \in SUBSET (0 .. FrameCount)
  <2>1. FrameCount \in Nat \ {0}
    BY MediaConstants DEF Shown
  <2> QED  BY <2>1
<1>4. {answer, "asr_media_missing", "ffmpeg_audio_extract_failed"} \cap Signals = {}
  <2>1. Setting.speeches \subseteq
           {"speech", "asr_low_confidence", "asr_adapter_unavailable", "asr_empty_transcript",
            "asr_adapter_disabled", "ffmpeg_audio_extract_failed", "no_audio_stream"}
    BY MediaConstants DEF Shown
  <2> QED  BY <2>1 DEF Signals, ForensicCues
<1>5. /\ \A flag \in {answer, "asr_media_missing", "ffmpeg_audio_extract_failed"} :
            Sound(Unavailable({0}, flag), FrameCount)
      /\ Sound(Item("asr", {0}, {answer} \cap {"asr_low_confidence"}, "speech"), FrameCount)
  BY <1>3, <1>4, UncertaintySound, OtherSound
<1>6. evidence \subseteq evidence' /\ \A e \in evidence' : e \in evidence \/ Sound(e, FrameCount)
  BY <1>2, <1>5
<1>7. Unscanned' /\ (Examined' => Examined)
  BY <1>1 DEF Unscanned, Examined
<1>8. Described'
  BY <1>1, <1>6, DescriptionsStay
<1>9. stage \notin {"metadata", "keyframes"} /\ stage' \in Stages \ {"metadata", "keyframes"}
  BY <1>1 DEF Stages
<1> QED  BY <1>1, <1>6, <1>7, <1>8, <1>9, AddingKeeps

LEMMA ReverseKeeps ==
    ASSUME MediaInvariant, ReverseSearch
    PROVE  MediaInvariant'
<1> USE DEF MediaInvariant
<1>1. /\ stage = "reverse" /\ stage' = "done"
      /\ UNCHANGED <<setting, world, read, frames, scores, report>>
  BY DEF ReverseSearch
<1>2. PICK answer \in [Targets -> Setting.matches] :
         evidence' = evidence
            \cup {Unavailable({t}, "local_reverse_search_failed") : t \in {u \in Targets : answer[u] = "failed"}}
            \cup {Item("reverse_image_local", {t}, {}, "match") : t \in {u \in Targets : answer[u] = "match"}}
  BY DEF ReverseSearch
<1>3. ASSUME NEW t \in Targets
      PROVE  /\ Sound(Unavailable({t}, "local_reverse_search_failed"), FrameCount)
             /\ Sound(Item("reverse_image_local", {t}, {}, "match"), FrameCount)
  <2>1. "local_reverse_search_failed" \notin Signals
    BY DEF Signals, ForensicCues
  <2> QED  BY <2>1, OneSeen, UncertaintySound, OtherSound
<1>4. evidence \subseteq evidence' /\ \A e \in evidence' : e \in evidence \/ Sound(e, FrameCount)
  BY <1>2, <1>3
<1>5. Unscanned' /\ (Examined' => Examined)
  BY <1>1 DEF Unscanned, Examined
<1>6. Described'
  BY <1>1, <1>4, DescriptionsStay
<1>7. stage \notin {"metadata", "keyframes"} /\ stage' \in Stages \ {"metadata", "keyframes"}
  BY <1>1 DEF Stages
<1> QED  BY <1>1, <1>4, <1>5, <1>6, <1>7, AddingKeeps

LEMMA MediaGoesOn ==
    ASSUME MediaInvariant, [MediaNext]_mediaVars
    PROVE  MediaInvariant'
<1>1. CASE ExtractMetadata
  BY <1>1, MetadataKeeps
<1>2. CASE ExtractKeyframes
  BY <1>2, KeyframesKeep
<1>3. CASE ReadText
  BY <1>3, TextKeeps
<1>4. CASE DescribeScenes
  BY <1>4, ScenesKeep
<1>5. CASE AnalyzeForensics
  BY <1>5, ForensicsKeep
<1>6. CASE Transcribe
  BY <1>6, TranscribeKeeps
<1>7. CASE ReverseSearch
  BY <1>7, ReverseKeeps
<1>8. CASE UNCHANGED mediaVars
  <2> USE <1>8 DEF MediaInvariant, mediaVars
  <2>1. Shown' /\ AllSound' /\ Unscanned'
    BY DEF Shown, AllSound, Sound, Unscanned, Setting, FrameCount, Video
  <2>2. FallbackTold' /\ CuesReported'
    BY ReportStays DEF Examined
  <2>3. FramesStand'
    BY DEF FramesStand, Resemble, Readable, Has
  <2>4. EditorSeen' /\ NonePictured' /\ Described'
    BY DEF EditorSeen, NonePictured, Described, Opened, Video, Readable, Targets
  <2> QED  BY <2>1, <2>2, <2>3, <2>4
<1> QED  BY <1>1, <1>2, <1>3, <1>4, <1>5, <1>6, <1>7, <1>8 DEF MediaNext

LEMMA MediaFollows == MediaInvariant => NothingHidden
<1> SUFFICES ASSUME MediaInvariant  PROVE NothingHidden
  OBVIOUS
<1> USE DEF MediaInvariant
<1>1. MediaTypeOK
  <2>1. /\ world.type \in {"image", "video"} /\ world.exists \in BOOLEAN
        /\ world.look \in [0 .. Setting.maxFrames -> Nat]
    BY MediaConstants DEF Shown, FrameCount
  <2>2. \A e \in evidence : e.seen \subseteq 0 .. Setting.maxFrames
    BY DEF AllSound, Sound, FrameCount
  <2>3. frames.kept \subseteq frames.extracted
    BY DEF Shown
  <2>4. stage \in Stages
    BY DEF Shown
  <2> QED  BY <2>1, <2>2, <2>3, <2>4 DEF MediaTypeOK, Stages
<1>2. EditorReported
  BY DEF EditorSeen, EditorReported
<1>3. SignalsArgued
  <2> SUFFICES ASSUME NEW e \in evidence, e.flags \cap Signals # {}  PROVE Stance(e) = "attack"
    BY DEF SignalsArgued
  <2>1. e.type # "synthetic_uncertainty"
    BY DEF AllSound, Sound
  <2>2. Signals \cap NeutralFlags = {}
    BY DEF Signals, ForensicCues, NeutralFlags
  <2>3. e.flags # {} /\ ~(e.flags \subseteq NeutralFlags)
    BY <2>2
  <2>4. CASE e.says \in {"deep_clear", "deep_cues"}
    BY <2>1, <2>4 DEF Stance
  <2>5. CASE e.says \notin {"deep_clear", "deep_cues"}
    BY <2>1, <2>3, <2>5 DEF Stance
  <2> QED  BY <2>4, <2>5
<1>4. GapsTold
  BY DEF GapsTold, Described, NonePictured
<1> QED  BY <1>1, <1>2, <1>3, <1>4 DEF NothingHidden

(***************************************************************************)
(* No failure of a stage, a target or a tool hides what the others found   *)
(* or goes untold, whatever medium, tools and answers there are            *)
(* (RawMediaProcessor.process).                                            *)
(***************************************************************************)
THEOREM NothingIsHidden == MediaSpec => []NothingHidden
<1>1. MediaInit => MediaInvariant
  BY MediaStarts
<1>2. MediaInvariant /\ [MediaNext]_mediaVars => MediaInvariant'
  BY MediaGoesOn
<1>3. MediaInvariant => NothingHidden
  BY MediaFollows
<1> QED  BY <1>1, <1>2, <1>3, PTL DEF MediaSpec
=============================================================================
