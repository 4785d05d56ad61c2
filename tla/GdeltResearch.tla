--------------------------- MODULE GdeltResearch ----------------------------
(***************************************************************************)
(* Research on the claims of a case by several threads that share one      *)
(* GDELT client: its cache file, the spacing of its requests, retries with *)
(* backoff and the circuit breaker; and what is found before and after it. *)
(* Source: src/retrieval/gdelt_search.py, deep_researcher.py,              *)
(* free_web_search.py.                                                     *)
(*                                                                         *)
(* Time is what is left of each delay; Tick lets one unit pass.            *)
(***************************************************************************)
EXTENDS Naturals, Integers, Sequences, FiniteSets, SequencesExt, FiniteSetsExt

CONSTANTS
    Claims,
    Queries,      \* [Claims -> sequence of the good queries of the claim]
    MaxQueries, MaxRecords, MaxRetries,         \* gdelt_max_...
    MinInterval, Backoff, Cooldown,             \* in units of time
    RetryAfters,  \* what the service may ask for
    ThreadCounts, \* how many claims may be researched at once
    MaxArticles,  \* bound: new articles in one response
    Caches        \* what the cache file may hold at the start

ASSUME GdeltAssumption ==
    /\ IsFiniteSet(Claims) /\ \A c \in Claims : Queries[c] \in Seq(STRING)
    /\ {MaxQueries, MaxRecords, MinInterval, Cooldown} \cup ThreadCounts \subseteq Nat \ {0}
    /\ {MaxRetries, Backoff, MaxArticles} \cup RetryAfters \subseteq Nat

VARIABLES
    threads,    \* how many claims are researched at once
    thread,     \* [claim -> where its thread is]
    position,   \* [claim -> [query, attempt]]
    wait,       \* [claim -> time it still sleeps]
    loaded,     \* [claim -> the cache as its thread has read it]
    kept,       \* [claim -> number of articles that became evidence]
    found,      \* [claim -> the kinds of evidence found]
    cache,      \* the queries in the file
    writing,    \* a thread has truncated the file and not yet written it
    sinceStamp, \* time since _last_request_ts, at most MinInterval
    breaker,    \* time until the circuit breaker closes
    answered,   \* history: queries that were answered live
    sinceSent, tooClose, whileOpen, requests    \* history of the requests

client == <<sinceStamp, breaker>>
file == <<cache, writing>>
history == <<answered, sinceSent, tooClose, whileOpen, requests>>
researchVars == <<threads, thread, position, wait, loaded, kept, found, file, client, history>>

ResearchInit ==
    /\ threads \in ThreadCounts /\ thread = [c \in Claims |-> "waiting"]
    /\ position = [c \in Claims |-> [query |-> 1, attempt |-> 0]]
    /\ wait = [c \in Claims |-> 0] /\ loaded = [c \in Claims |-> {}]
    /\ kept = [c \in Claims |-> 0] /\ found = [c \in Claims |-> {}]
    /\ cache \in Caches /\ writing = FALSE
    /\ sinceStamp = MinInterval /\ breaker = 0
    /\ answered = {} /\ sinceSent = MinInterval /\ tooClose = FALSE /\ whileOpen = FALSE
    /\ requests = [c \in Claims |-> 0]

Goto(c, place) == thread' = [thread EXCEPT ![c] = place]
Working == {c \in Claims : thread[c] \notin {"waiting", "done"}}
ToSend(c) == SubSeq(Queries[c], 1, Min({MaxQueries, Len(Queries[c])}))
Query(c) == ToSend(c)[position[c].query]

-----------------------------------------------------------------------------
\* DeepResearcher.research.

\* Queries are made of the plan and of what the media say.
Begin(c) ==
    /\ thread[c] = "waiting" /\ Cardinality(Working) < threads
    /\ Goto(c, "gdelt")
    /\ UNCHANGED <<position, wait, loaded, kept, found, file, client, history>>

\* Mutant: the breaker is not looked at.
SearchOpen(c) ==
    /\ thread[c] = "gdelt"
    /\ Goto(c, IF ToSend(c) = <<>> THEN "web" ELSE "load")
    /\ UNCHANGED <<position, wait, loaded, kept, found, file, client, history>>

\* search: nothing while the breaker is open, or without a good query.
Search(c) ==
    /\ thread[c] = "gdelt"
    /\ Goto(c, IF breaker > 0 \/ ToSend(c) = <<>> THEN "web" ELSE "load")
    /\ UNCHANGED <<position, wait, loaded, kept, found, file, client, history>>

\* The next query, or the end of the search.
AfterQuery(c) ==
    IF position[c].query < Len(ToSend(c))
    THEN /\ position' = [position EXCEPT ![c] = [query |-> @.query + 1, attempt |-> 0]]
         /\ Goto(c, "load")
    ELSE Goto(c, "web") /\ UNCHANGED position

\* Mutant: the number of records is not limited.
KeptAll(c, new) == kept[c] + new

\* The limit ends the articles of a query, not the queries: each further query
\* still adds its first new article.
Kept(c, new) == kept[c] + Min({new, Max({1, MaxRecords - kept[c]})})

TakeArticles(c) ==
    \E new \in 0 .. MaxArticles :
        /\ kept' = [kept EXCEPT ![c] = Kept(c, new)]
        /\ found' = [found EXCEPT ![c] = IF new > 0 THEN @ \cup {"gdelt"} ELSE @]

\* Mutant: the last failure does not leave the loop.
GiveUpRepeats(c) ==
    /\ kept' = [kept EXCEPT ![c] = 0]
    /\ found' = [found EXCEPT ![c] = (@ \ {"gdelt"}) \cup {"uncertain"}]
    /\ UNCHANGED thread

\* A failure returns one item that says so, and nothing of the queries before.
GiveUp(c) ==
    /\ kept' = [kept EXCEPT ![c] = 0]
    /\ found' = [found EXCEPT ![c] = (@ \ {"gdelt"}) \cup {"uncertain"}]
    /\ Goto(c, "web")

-----------------------------------------------------------------------------
\* _fetch: the whole file is read before the request and written after it.

\* A file that is being written cannot be parsed, and counts as empty.
Load(c) ==
    /\ thread[c] = "load"
    /\ LET read == IF writing THEN {} ELSE cache
       IN  /\ loaded' = [loaded EXCEPT ![c] = read]
           /\ IF Query(c) \in read
              THEN TakeArticles(c) /\ AfterQuery(c)
              ELSE Goto(c, "space") /\ UNCHANGED <<position, kept, found>>
    /\ UNCHANGED <<wait, file, client, history>>

\* Mutant: the spacing is not slept out.
SpaceNot(c) ==
    /\ thread[c] = "space"
    /\ Goto(c, "send") /\ UNCHANGED wait
    /\ UNCHANGED <<position, loaded, kept, found, file, client, history>>

\* _sleep_for_rate_limit, up to the sleep.
Space(c) ==
    /\ thread[c] = "space"
    /\ wait' = [wait EXCEPT ![c] = MinInterval - sinceStamp]
    /\ Goto(c, "send")
    /\ UNCHANGED <<position, loaded, kept, found, file, client, history>>

\* The sleep is over: the time is noted and the request is sent.
Send(c) ==
    /\ thread[c] = "send" /\ wait[c] = 0
    /\ sinceStamp' = 0 /\ sinceSent' = 0
    /\ tooClose' = (tooClose \/ sinceSent < MinInterval)
    /\ whileOpen' = (whileOpen \/ breaker > 0)
    /\ requests' = [requests EXCEPT ![c] = @ + 1]
    /\ Goto(c, "response")
    /\ UNCHANGED <<position, wait, loaded, kept, found, file, breaker, answered>>

Succeed(c) ==
    /\ thread[c] = "response"
    /\ answered' = answered \cup {Query(c)}
    /\ Goto(c, "save")
    /\ UNCHANGED <<position, wait, loaded, kept, found, file, client, sinceSent, tooClose, whileOpen, requests>>

\* Mutant: the attempts are not counted.
AgainUncounted(c, pause) ==
    /\ position[c].attempt < MaxRetries
    /\ wait' = [wait EXCEPT ![c] = pause]
    /\ Goto(c, "backoff")
    /\ UNCHANGED <<position, kept, found>>

\* Mutant: one retry after the last.
AgainOnceMore(c, pause) ==
    /\ position[c].attempt <= MaxRetries
    /\ position' = [position EXCEPT ![c].attempt = @ + 1]
    /\ wait' = [wait EXCEPT ![c] = pause]
    /\ Goto(c, "backoff")
    /\ UNCHANGED <<kept, found>>

\* The next attempt, after a pause.
Again(c, pause) ==
    /\ position[c].attempt < MaxRetries
    /\ position' = [position EXCEPT ![c].attempt = @ + 1]
    /\ wait' = [wait EXCEPT ![c] = pause]
    /\ Goto(c, "backoff")
    /\ UNCHANGED <<kept, found>>

Awake(c) ==
    /\ thread[c] = "backoff" /\ wait[c] = 0
    /\ Goto(c, "space")
    /\ UNCHANGED <<position, wait, loaded, kept, found, file, client, history>>

\* The pause doubles with each attempt.
Doubled(c) == Backoff * 2 ^ position[c].attempt

Exhausted(c) == position[c].attempt >= MaxRetries

\* 429: retried after the time the service asks for, if it does; the breaker
\* opens after the last retry.
Throttled(c) ==
    /\ thread[c] = "response"
    /\ \/ /\ \E pause \in {Doubled(c)} \cup RetryAfters : Again(c, pause)
          /\ UNCHANGED breaker
       \/ Exhausted(c) /\ GiveUp(c) /\ breaker' = Cooldown /\ UNCHANGED <<position, wait>>
    /\ UNCHANGED <<loaded, file, sinceStamp, history>>

\* Any other bad answer is retried too, and opens nothing.
Fail(c) ==
    /\ thread[c] = "response"
    /\ \/ Again(c, Doubled(c))
       \/ Exhausted(c) /\ GiveUp(c) /\ UNCHANGED <<position, wait>>
    /\ UNCHANGED <<loaded, file, client, history>>

\* No answer at all, or a Retry-After that is not a number: not retried.
Break(c) ==
    /\ thread[c] = "response"
    /\ GiveUp(c)
    /\ UNCHANGED <<position, wait, loaded, file, client, history>>

\* _save_cache truncates the file ...
Truncate(c) ==
    /\ thread[c] = "save"
    /\ writing' = TRUE
    /\ Goto(c, "write")
    /\ UNCHANGED <<position, wait, loaded, kept, found, cache, client, history>>

\* Mutant: what was read is not written again.
WriteOnly(c) ==
    /\ thread[c] = "write"
    /\ cache' = {Query(c)} /\ writing' = FALSE
    /\ TakeArticles(c) /\ AfterQuery(c)
    /\ UNCHANGED <<wait, loaded, client, history>>

\* ... and writes what the thread read, with its own query.
Write(c) ==
    /\ thread[c] = "write"
    /\ cache' = loaded[c] \cup {Query(c)} /\ writing' = FALSE
    /\ TakeArticles(c) /\ AfterQuery(c)
    /\ UNCHANGED <<wait, loaded, client, history>>

\* The web search is off or finds nothing, finds something, or fails.
WebOutcomes == {{}, {"web"}, {"uncertain"}}

\* The evidence of the case and of the local caches, of GDELT, and of the
\* searches after it: a gap where all of them found nothing.
Web(c) ==
    /\ thread[c] = "web"
    /\ \E existing \in {{}, {"existing"}}, web \in WebOutcomes :
          LET all == existing \cup found[c] \cup web
          IN  found' = [found EXCEPT ![c] = IF all = {} THEN {"gap"} ELSE all]
    /\ Goto(c, "done")
    /\ UNCHANGED <<position, wait, loaded, kept, file, client, history>>

-----------------------------------------------------------------------------
Less(n) == IF n = 0 THEN 0 ELSE n - 1

Tick ==
    /\ wait' = [c \in Claims |-> Less(wait[c])]
    /\ breaker' = Less(breaker)
    /\ sinceStamp' = Min({sinceStamp + 1, MinInterval})
    /\ sinceSent' = Min({sinceSent + 1, MinInterval})
    /\ <<wait, breaker, sinceStamp, sinceSent>>' # <<wait, breaker, sinceStamp, sinceSent>>
    /\ UNCHANGED <<threads, thread, position, loaded, kept, found, file, answered, tooClose, whileOpen, requests>>

Thread(c) ==
    /\ \/ Begin(c) \/ Search(c) \/ Load(c) \/ Space(c) \/ Send(c) \/ Succeed(c)
       \/ Throttled(c) \/ Fail(c) \/ Break(c) \/ Awake(c) \/ Truncate(c) \/ Write(c) \/ Web(c)
    /\ UNCHANGED threads

ResearchNext == Tick \/ \E c \in Claims : Thread(c)

ResearchSpec == ResearchInit /\ [][ResearchNext]_researchVars

\* Time passes, and a thread that can go on does.
FairSpec == ResearchSpec /\ WF_researchVars(Tick) /\ \A c \in Claims : WF_researchVars(Thread(c))

-----------------------------------------------------------------------------
ResearchDone == \A c \in Claims : thread[c] = "done"

ResearchTypeOK ==
    /\ \A c \in Claims : /\ position[c].query \in 1 .. MaxQueries /\ position[c].attempt \in 0 .. MaxRetries
                         /\ found[c] \subseteq {"existing", "gdelt", "uncertain", "web", "gap"}
    /\ sinceStamp \in 0 .. MinInterval /\ breaker \in 0 .. Cooldown

\* A claim costs no more requests than its queries and their retries, however
\* often the service fails or throttles (README.md:478-480).
RequestsBounded == \A c \in Claims : requests[c] <= Len(ToSend(c)) * (MaxRetries + 1)

\* What a search keeps beyond its limit is one article per further query
\* (gdelt_search.py:180-190).
RecordsBounded == \A c \in Claims : kept[c] <= MaxRecords + MaxQueries - 1

\* Live requests of one thread are spaced (README.md:476-477).
RequestsSpaced == threads = 1 => ~tooClose

\* One thread sends no request while the breaker is open (README.md:481-483).
BreakerDisables == threads = 1 => ~whileOpen

\* What was answered to one thread can be read again (README.md:463-466).
AnswersCached == threads = 1 /\ ResearchDone => answered \subseteq cache

\* A claim costs no more requests than its queries and retries, and keeps one
\* article per further query beyond its limit; on one thread requests are spaced
\* (README.md:476-477), none is sent while the breaker is open (README.md:481-483),
\* and what was answered can be read again (README.md:463-466).
LimitsKept ==
    /\ ResearchTypeOK /\ RequestsBounded /\ RecordsBounded
    /\ RequestsSpaced /\ BreakerDisables /\ AnswersCached

\* Every claim gets its evidence in the end, through all retries and sleeps.
ResearchEnds == <>ResearchDone
=============================================================================
