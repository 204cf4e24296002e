------------------------------- MODULE ReportsPage -------------------------------
(***************************************************************************)
(* The report of a period (reports.service, dashboard/reports): several    *)
(* queries, each its own snapshot, while the agenda goes on changing.      *)
(* History: since, the visits completed when the report was asked for.     *)
(***************************************************************************)
EXTENDS DeskServer

VARIABLE rp

inPeriod == {v \in Visit : visit[v].at \in limits.period[1]..limits.period[2]}
within(S) == {v \in inPeriod : visit[v].status \in S}

Figures == [completed |-> Cardinality(within({"COMPLETED"})), revenue |-> Spent(within({"COMPLETED"}))]

ReportInit ==
  rp = [want |-> {}, asked |-> FALSE, appointments |-> 0, noShow |-> 0, totals |-> Nothing,
        byPro |-> Nothing, since |-> Nothing]

loadReport ==
  /\ isOpen("report") /\ rp.want = {} /\ Click /\ UNCHANGED calls
  /\ rp' = [rp EXCEPT !.asked = TRUE, !.since = within({"COMPLETED"}),
              !.want = {"byStatus", "completedAgg", "byProfessional"}]

byStatus == [rp EXCEPT !.appointments = Cardinality(inPeriod), !.noShow = Cardinality(within({"NO_SHOW"}))]
\* Mutant: everything finished counts as revenue.
completedAgg_Finished ==
  [rp EXCEPT !.totals = [completed |-> Cardinality(within({"COMPLETED", "NO_SHOW"})),
                         revenue |-> Spent(within({"COMPLETED", "NO_SHOW"}))]]
completedAgg == [rp EXCEPT !.totals = Figures]
byProfessional ==
  [rp EXCEPT !.byPro = [p \in Pro |-> Spent({v \in within({"COMPLETED"}) : visit[v].pro = p})]]

Query1(q) == CASE q = "byStatus" -> byStatus [] q = "completedAgg" -> completedAgg
               [] q = "byProfessional" -> byProfessional

RunQuery(q) ==
  /\ q \in rp.want /\ rp' = [Query1(q) EXCEPT !.want = @ \ {q}]
  /\ UNCHANGED <<limits, tables, calls, counters>>

summaryReady == rp.asked /\ rp.want = {}
================================================================================
