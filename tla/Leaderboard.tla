---------------------------- MODULE Leaderboard ----------------------------
(***************************************************************************)
(* The leaderboard API (services/leaderboard) and the three clients that   *)
(* read it: the polling hook useLeaderboard of leaderboard-ui, the drawer  *)
(* with one submission's runs, and the page served by the API itself       *)
(* (frontend/index.html) that polls the legacy endpoint.                   *)
(*                                                                         *)
(* The table benchmark_metrics only grows; a row is named by its id, which *)
(* is its index.  An answer of the API is a sequence of row ids, the rank  *)
(* of an entry being its index, together with the length the table had     *)
(* when the query read it (bookkeeping: the clients do not see it).  The   *)
(* clients share nothing but the table, so a behaviour follows one of them.*)
(***************************************************************************)
EXTENDS Integers, Sequences, FiniteSets, FiniteSetsExt

CONSTANTS
    Submissions,  \* submission ids
    Runs,         \* the rows the ingester may insert: [id, p50, p99, ok]
    Total,        \* orders of a benchmark: success_rate is ok / Total
    MaxShown,     \* the leaderboard shows this many entries (100)
    Requests,     \* bound: names of the requests in flight
    MaxRows       \* bound: rows of benchmark_metrics

ASSUME LeaderboardAssumption ==
    /\ Total \in Nat \ {0} /\ MaxShown \in Nat \ {0}
    /\ MaxRows \in Nat
    /\ Runs \subseteq [id: Submissions, p50: Nat, p99: Nat, ok: 0..Total]
    /\ IsFiniteSet(Requests)

None == "none"
ASSUME NoneAssumption == None \notin Submissions

Clients == {"hook", "drawer", "legacy"}

VARIABLES
    client,       \* the client this behaviour follows
    rows,         \* benchmark_metrics
    request,      \* request[q]: a request in flight
    active,       \* the hook is mounted / the legacy page polls
    shown,        \* the answer on the screen (prevScoresRef, tbody)
    rankChanges,  \* the entries that flash: id -> [from, to]
    selected,     \* the submission whose drawer is open
    detail        \* what the drawer shows

vars == <<client, rows, request, active, shown, rankChanges, selected, detail>>
drawerVars == <<selected, detail>>

NoDetail == [id |-> None, runs |-> {}, bestScore |-> 0, bestP99 |-> 0]
NoRequest == [pc |-> "none", at |-> 0, answer |-> <<>>, id |-> None, detail |-> NoDetail, wanted |-> FALSE]
NoFlash == [s \in {} |-> 0]

Init ==
    /\ client \in Clients
    /\ rows = <<>>
    /\ request = [q \in Requests |-> NoRequest]
    /\ active = TRUE
    /\ shown = [at |-> 0, answer |-> <<>>]
    /\ rankChanges = NoFlash
    /\ selected = None
    /\ detail = NoDetail

----------------------------------------------------------------------------
(* The score, in hundredths of a point.  40 % for p99 up to 400 us, 30 %   *)
(* for p99 up to 600 us, 20 % for the success rate, 10 % for p50 / p99;    *)
(* each part is clamped at 100 points and the sum is rounded half up.      *)
(* Exact fractions stand for the float64 arithmetic.                       *)

AtMost(bound, x) == IF x > bound THEN bound ELSE x

CalculateScore(r) ==
    IF r.p99 <= 0 \/ r.p50 <= 0 THEN 0
    ELSE LET full == 100 * r.p99
             parts == 40 * AtMost(full, 40000) + 30 * AtMost(full, 60000)
                        + 10 * AtMost(full, 100 * r.p50)
             num == parts * Total + 2000 * r.ok * r.p99
             den == r.p99 * Total
         IN  (2 * num + den) \div (2 * den)

Score(k) == CalculateScore(rows[k])

\* Mutant of LatestRows: every row is read, not only the newest.
AllRows == 1..Len(rows)

(* SELECT MAX(id) ... GROUP BY submission_id *)
LatestRows == {k \in 1..Len(rows) : \A j \in (k + 1)..Len(rows) : rows[j].id # rows[k].id}

\* Mutant of Beats: no tie-break.
BeatsOnScore(j, k) == Score(j) > Score(k)

(* The order of bestRuns and of sort.Slice: score down, then p99 up. *)
Beats(j, k) ==
    \/ Score(j) > Score(k)
    \/ Score(j) = Score(k) /\ rows[j].p99 < rows[k].p99

(* bestRuns: of the rows of a submission the one that no other beats.  The *)
(* query returns one row of each.                                          *)
BestRuns(scanned) ==
    {k \in scanned : \A j \in scanned : rows[j].id = rows[k].id => ~Beats(j, k)}

(* A Go map is walked in any order and sort.Slice is not stable: entries   *)
(* of which neither beats the other come in any order.  The list is cut.   *)
Rankings(scanned) ==
    LET best == BestRuns(scanned)
        n == Cardinality(best)
        ordered == {r \in [1..n -> best] :
                       \A j \in 1..n : \A i \in 1..(j - 1) : r[i] # r[j] /\ ~Beats(r[j], r[i])}
    IN  {[i \in 1..AtMost(MaxShown, n) |-> r[i]] : r \in ordered}

(* handleSubmissionDetail: the rows of one submission and its best figures; *)
(* bestP99 starts at MaxInt64 and is shown as 0 if no run was measured.    *)
DetailOf(s) ==
    LET runs == {k \in 1..Len(rows) : rows[k].id = s}
        measured == {rows[k].p99 : k \in runs} \ {0}
    IN  [id |-> s, runs |-> runs,
         bestScore |-> Max({0} \cup {Score(k) : k \in runs}),
         bestP99 |-> IF measured = {} THEN 0 ELSE Min(measured)]

----------------------------------------------------------------------------
(* The table and the handlers of the API *)

(* The ingester (module TelemetryIngester) inserts a row. *)
Insert(r) ==
    /\ Len(rows) < MaxRows
    /\ rows' = Append(rows, r)
    /\ UNCHANGED <<client, request, active, shown, rankChanges, drawerVars>>

Answered(q, answer, runs) ==
    request' = [request EXCEPT ![q].pc = "answered", ![q].at = Len(rows),
                               ![q].answer = answer, ![q].detail = runs]

(* handleScores.  One statement reads one snapshot of the table. *)
HandleScores(q) ==
    /\ client = "hook" /\ request[q].pc = "sent"
    /\ \E r \in Rankings(LatestRows) : Answered(q, r, NoDetail)
    /\ UNCHANGED <<client, rows, active, shown, rankChanges, drawerVars>>

HandleSubmissionDetail(q) ==
    /\ client = "drawer" /\ request[q].pc = "sent"
    /\ Answered(q, <<>>, DetailOf(request[q].id))
    /\ UNCHANGED <<client, rows, active, shown, rankChanges, drawerVars>>

HandleLegacyLeaderboard(q) ==
    /\ client = "legacy" /\ request[q].pc = "sent"
    /\ \E r \in Rankings(LatestRows) : Answered(q, r, NoDetail)
    /\ UNCHANGED <<client, rows, active, shown, rankChanges, drawerVars>>

(* handleLegacyLeaderboard does not look at rows.Err: an iteration that    *)
(* fails half way answers 200 with the rows read so far.                   *)
HandleLegacyHalfway(q) ==
    /\ client = "legacy" /\ request[q].pc = "sent"
    /\ \E scanned \in SUBSET LatestRows :
          scanned # LatestRows /\ \E r \in Rankings(scanned) : Answered(q, r, NoDetail)
    /\ UNCHANGED <<client, rows, active, shown, rankChanges, drawerVars>>

(* The query fails or its 5 s are over (status 500), the connection fails, *)
(* or the server is not there.                                             *)
RequestFails(q) ==
    /\ request[q].pc = "sent"
    /\ request' = [request EXCEPT ![q].pc = "failed"]
    /\ UNCHANGED <<client, rows, active, shown, rankChanges, drawerVars>>

Sent(s) == [NoRequest EXCEPT !.pc = "sent", !.id = s, !.wanted = TRUE]
Done(q) == request' = [request EXCEPT ![q] = NoRequest]

----------------------------------------------------------------------------
(* useLeaderboard *)

(* setInterval fires whether or not the last request has been answered. *)
Poll(q) ==
    /\ client = "hook" /\ active
    /\ request[q].pc = "none"
    /\ request' = [request EXCEPT ![q] = Sent(None)]
    /\ UNCHANGED <<client, rows, active, shown, rankChanges, drawerVars>>

RankIn(answer, s) == {i \in 1..Len(answer) : rows[answer[i]].id = s}

(* Entries on the screen before and after whose rank is another. *)
Changes(old, new) ==
    LET moved == {i \in 1..Len(new) : \E j \in RankIn(old, rows[new[i]].id) : j # i}
    IN  [s \in {rows[new[i]].id : i \in moved} |->
            LET i == CHOOSE j \in moved : rows[new[j]].id = s
            IN  [from |-> CHOOSE j \in RankIn(old, s) : TRUE, to |-> i]]

\* Mutant of Receive: only the first answer with entries is shown.
ReceiveOnce(q) ==
    /\ client = "hook" /\ request[q].pc = "answered" /\ request[q].wanted
    /\ shown' = IF shown.answer # <<>> THEN shown
                ELSE [at |-> request[q].at, answer |-> request[q].answer]
    /\ Done(q)
    /\ UNCHANGED <<client, rows, active, rankChanges, drawerVars>>

(* The continuation of fetchScores in the mounted component: whatever      *)
(* answer comes last is shown, and a flash replaces the last one.          *)
Receive(q) ==
    /\ client = "hook" /\ request[q].pc = "answered" /\ request[q].wanted
    /\ LET changes == Changes(shown.answer, request[q].answer)
       IN  rankChanges' = IF changes = NoFlash THEN rankChanges ELSE changes
    /\ shown' = [at |-> request[q].at, answer |-> request[q].answer]
    /\ Done(q)
    /\ UNCHANGED <<client, rows, active, drawerVars>>

(* A failure changes nothing but the error banner, and what comes for a    *)
(* component that was unmounted changes nothing at all.                    *)
ReceiveNothing(q) ==
    /\ client = "hook"
    /\ request[q].pc = "failed" \/ (request[q].pc = "answered" /\ ~request[q].wanted)
    /\ Done(q)
    /\ UNCHANGED <<client, rows, active, shown, rankChanges, drawerVars>>

(* The flashes are cleared 3 s after a change, or earlier by the timer of  *)
(* a change before it; a timer that finds no flash changes nothing.        *)
ClearFlash ==
    /\ rankChanges # NoFlash
    /\ rankChanges' = NoFlash
    /\ UNCHANGED <<client, rows, request, active, shown, drawerVars>>

(* The effect's cleanup: the closure's active flag turns requests in       *)
(* flight and pending timers into no-ops; the state goes with the component.*)
Unmount ==
    /\ client = "hook" /\ active
    /\ active' = FALSE
    /\ rankChanges' = NoFlash
    /\ shown' = [at |-> 0, answer |-> <<>>]
    /\ request' = [q \in Requests |-> [request[q] EXCEPT !.wanted = FALSE]]
    /\ UNCHANGED <<client, rows, drawerVars>>

Mount(q) ==
    /\ client = "hook" /\ ~active
    /\ active' = TRUE
    /\ request[q].pc = "none"
    /\ request' = [request EXCEPT ![q] = Sent(None)]
    /\ UNCHANGED <<client, rows, shown, rankChanges, drawerVars>>

----------------------------------------------------------------------------
(* SubmissionDrawer *)

(* An entry of the leaderboard is clicked; the entries are behind the      *)
(* drawer's backdrop while it is open.                                     *)
OpenDrawer(q, s) ==
    /\ client = "drawer" /\ selected = None
    /\ s \in {rows[k].id : k \in LatestRows}
    /\ request[q].pc = "none"
    /\ selected' = s
    /\ request' = [request EXCEPT ![q] = Sent(s)]
    /\ UNCHANGED <<client, rows, active, shown, rankChanges, detail>>

(* The effect's cleanup makes the requests of the open drawer inactive. *)
CloseDrawer ==
    /\ client = "drawer" /\ selected # None
    /\ selected' = None
    /\ detail' = NoDetail
    /\ request' = [q \in Requests |-> [request[q] EXCEPT !.wanted = FALSE]]
    /\ UNCHANGED <<client, rows, active, shown, rankChanges>>

\* Mutant of ReceiveDetail: the answer is not checked to be wanted.
ReceiveAnyDetail(q) ==
    /\ client = "drawer" /\ request[q].pc \in {"answered", "failed"}
    /\ Done(q)
    /\ detail' = IF request[q].pc = "answered" THEN request[q].detail ELSE detail
    /\ UNCHANGED <<client, rows, active, shown, rankChanges, selected>>

ReceiveDetail(q) ==
    /\ client = "drawer" /\ request[q].pc \in {"answered", "failed"}
    /\ Done(q)
    /\ detail' = IF request[q].wanted /\ request[q].pc = "answered" THEN request[q].detail ELSE detail
    /\ UNCHANGED <<client, rows, active, shown, rankChanges, selected>>

----------------------------------------------------------------------------
(* frontend/index.html *)

\* Mutant of Fetch: the previous request is not aborted.
FetchWithoutAbort(q) ==
    /\ request[q].pc = "none"
    /\ request' = [request EXCEPT ![q] = Sent(None)]

(* fetchLeaderboard aborts the request that is still in flight and sends   *)
(* its own.                                                                *)
Fetch(q) ==
    request' = [p \in Requests |-> IF p = q THEN Sent(None) ELSE NoRequest]

PollLegacy(q) ==
    /\ client = "legacy" /\ active
    /\ Fetch(q)
    /\ UNCHANGED <<client, rows, active, shown, rankChanges, drawerVars>>

(* The timeout of a request, or of an earlier one whose timer was not      *)
(* cleared: both abort whichever request is the current one.               *)
TimeoutLegacy(q) ==
    /\ client = "legacy" /\ request[q].pc # "none"
    /\ Done(q)
    /\ UNCHANGED <<client, rows, active, shown, rankChanges, drawerVars>>

ReceiveLegacy(q) ==
    /\ client = "legacy" /\ request[q].pc = "answered"
    /\ shown' = [at |-> request[q].at, answer |-> request[q].answer]
    /\ Done(q)
    /\ UNCHANGED <<client, rows, active, rankChanges, drawerVars>>

(* A failure empties the table on the screen. *)
ReceiveLegacyError(q) ==
    /\ client = "legacy" /\ request[q].pc = "failed"
    /\ shown' = [shown EXCEPT !.answer = <<>>]
    /\ Done(q)
    /\ UNCHANGED <<client, rows, active, rankChanges, drawerVars>>

(* visibilitychange: a request in flight goes on; startPolling fetches at once. *)
StopPolling ==
    /\ client = "legacy" /\ active
    /\ active' = FALSE
    /\ UNCHANGED <<client, rows, request, shown, rankChanges, drawerVars>>

StartPolling(q) ==
    /\ client = "legacy" /\ ~active
    /\ active' = TRUE
    /\ Fetch(q)
    /\ UNCHANGED <<client, rows, shown, rankChanges, drawerVars>>

----------------------------------------------------------------------------
Handler(q) == HandleScores(q) \/ HandleSubmissionDetail(q) \/ HandleLegacyLeaderboard(q)

Next ==
    \/ \E r \in Runs : Insert(r)
    \/ \E q \in Requests :
          \/ Handler(q) \/ HandleLegacyHalfway(q) \/ RequestFails(q)
          \/ Poll(q) \/ Receive(q) \/ ReceiveNothing(q) \/ Mount(q)
          \/ \E s \in Submissions : OpenDrawer(q, s)
          \/ ReceiveDetail(q)
          \/ PollLegacy(q) \/ TimeoutLegacy(q) \/ StartPolling(q)
          \/ ReceiveLegacy(q) \/ ReceiveLegacyError(q)
    \/ ClearFlash \/ Unmount \/ CloseDrawer \/ StopPolling

Spec == Init /\ [][Next]_vars

(* The answer has every entry the table had. *)
Complete(at, answer) ==
    Len(answer) = AtMost(MaxShown, Cardinality({rows[k].id : k \in 1..at}))

(* The intervals of a browser fire and an answer that came is taken.  That *)
(* a query succeeds is assumed only of queries made again and again; for   *)
(* the legacy page also that again and again a complete answer comes       *)
(* before the next poll aborts it.                                         *)
Fairness ==
    /\ WF_vars(\E q \in Requests : Poll(q) \/ PollLegacy(q))
    /\ SF_vars(\E q \in Requests : Handler(q))
    /\ \A q \in Requests : WF_vars(Receive(q) \/ ReceiveNothing(q))
    /\ SF_vars(\E q \in Requests : Complete(request[q].at, request[q].answer) /\ ReceiveLegacy(q))
FairSpec == Spec /\ Fairness

----------------------------------------------------------------------------
(* Properties *)

Answers == Seq(1..Len(rows))

(* Type correctness; a request is answered at most with the whole table. *)
TypeOK ==
    /\ client \in Clients /\ active \in BOOLEAN
    /\ rows \in Seq(Runs) /\ Len(rows) <= MaxRows
    /\ shown.at \in 0..Len(rows) /\ shown.answer \in Answers
    /\ \A q \in Requests :
          /\ request[q].pc \in {"none", "sent", "answered", "failed"}
          /\ request[q].at \in 0..Len(rows)
          /\ request[q].answer \in Answers
    /\ selected \in Submissions \cup {None}
    /\ DOMAIN rankChanges \subseteq Submissions

(* What the entry k has over the entry j, measured without the score: a    *)
(* lower p99 and neither less success nor less stability.                  *)
Dominates(k, j) ==
    LET a == rows[k]
        b == rows[j]
    IN  a.p99 > 0 /\ a.p99 < b.p99 /\ a.ok >= b.ok /\ a.p50 * b.p99 >= b.p50 * a.p99

NewestAt(at, k) == k <= at /\ \A j \in (k + 1)..at : rows[j].id # rows[k].id

(* What a client shows is the newest run of each submission in the table   *)
(* its answer was read from, once each, and no entry stands above one that *)
(* is better in every figure the score is made of; the leaderboard of the  *)
(* hook leaves out none that is better than one it shows.                  *)
StandingsSound ==
    LET list == shown.answer
    IN  /\ \A i \in 1..Len(list) : NewestAt(shown.at, list[i])
        /\ \A i, j \in 1..Len(list) :
              i < j => rows[list[i]].id # rows[list[j]].id /\ ~Dominates(list[j], list[i])
        /\ client = "hook" =>
              \A k \in 1..shown.at : NewestAt(shown.at, k) =>
                  \/ \E i \in 1..Len(list) : list[i] = k
                  \/ \A i \in 1..Len(list) : ~Dominates(k, list[i])

(* Every request and every page speaks of rows that exist, in sound order. *)
DisplayConsistent == TypeOK /\ StandingsSound

(* An open drawer shows the runs of the submission it was opened for, late *)
(* answers of drawers closed before notwithstanding, at least one run, and *)
(* best figures that none of these runs beats.                             *)
DrawerShowsSelected ==
    detail # NoDetail =>
        /\ detail.id = selected /\ detail.runs # {}
        /\ \A k \in detail.runs :
              /\ rows[k].id = selected
              /\ Score(k) <= detail.bestScore
              /\ rows[k].p99 > 0 => detail.bestP99 \in 1..rows[k].p99

Tied(j, k) == Score(j) = Score(k) /\ rows[j].p99 = rows[k].p99

(* Two answers read from the same table differ only in the order of exact  *)
(* ties: without a new run no other entry moves, and an entry that flashes *)
(* has changed places with one it is tied with.                            *)
NoPhantomMoves ==
    [][client = "hook" /\ shown'.at = shown.at =>
          /\ \A i \in DOMAIN shown.answer \cap DOMAIN shown'.answer :
                Tied(shown.answer[i], shown'.answer[i])
          /\ \/ rankChanges' \in {rankChanges, NoFlash}
             \/ \A s \in DOMAIN rankChanges' :
                   Tied(shown.answer[rankChanges'[s].from], shown.answer[rankChanges'[s].to])]_vars

(* The abort of the previous request keeps the legacy page from showing an *)
(* older table after a newer one.                                          *)
LegacyNeverGoesBack == [][client = "legacy" => shown'.at >= shown.at]_vars

ShowsLatest == shown.at = Len(rows) /\ Complete(shown.at, shown.answer)

(* Once no run is added, a page that stays open shows the final table: the *)
(* hook for good, whatever old answers were in flight; the legacy page     *)
(* again and again (a failure or half an answer takes it away).            *)
EventuallyCurrent ==
    /\ client = "hook" /\ <>[]active => <>[]ShowsLatest
    /\ client = "legacy" /\ <>[]active => []<>ShowsLatest

============================================================================
