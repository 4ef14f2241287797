--------------------------------- MODULE MCTools ---------------------------------
(***************************************************************************)
(* Small instances of the tools around a candidate, for TLC: the ledger,   *)
(* evidence freshness, the automerge guard, missions, the evidence gates,  *)
(* the scan for papers and the slots.  They share no state, so a behaviour *)
(* is one of one of them, `part`, and the others stay as they start.       *)
(***************************************************************************)
EXTENDS Ledger, Freshness, AutomergeGuard, Mission, EvidenceGates, Discovery, Schedule, TLC

VARIABLE part

Symmetry == Permutations(Nights) \cup Permutations(Texts) \cup Permutations(Commits)

-----------------------------------------------------------------------------
(* Ledger: a merged night, a blocked one, one with a pipe in its finding   *)
(* and a date that names no day, and one that names no direction.          *)

LedgerRow(date, finding, pr, evaluated, verdict) ==
  [date |-> Plain(date), finding |-> finding, pr |-> Plain(pr),
   evaluated |-> Plain(evaluated), verdict |-> Plain(verdict)]

MCRows ==
  {LedgerRow("07-01", Plain("cache"), "#1", "yes", "ACCEPT"),
   LedgerRow("07-03", Plain("cache"), "NONE", "blocked", "REJECT"),
   LedgerRow("soon", Plain("cache") \o Plain("index"), "NONE", "no", "INCONCLUSIVE"),
   LedgerRow("07-05", Plain(""), "NONE", "no", "INCONCLUSIVE")}
MCDayOf == "07-01" :> 1 @@ "07-03" :> 3 @@ "07-05" :> 5
MCPullRequests == {Plain("#1")}
MCPending == <<>>

(* Freshness: nothing declared, two paths, one path twice.                 *)

MCDeclarable == {<<>>, <<"p", "q">>, <<"p", "p">>}

(* Guard: a protected file on the second page, none, a protected previous  *)
(* name, and one file.                                                     *)

Plainly(name) == [name |-> name, previous |-> NoPath]
MCFilesOf ==
  "v1" :> <<Plainly("a"), Plainly("b"), Plainly("gate")>>
  @@ "v2" :> <<Plainly("a"), Plainly("b"), Plainly("c")>>
  @@ "v3" :> <<Plainly("a"), [name |-> "b", previous |-> "scripts"]>>
  @@ "v4" :> <<Plainly("c")>>

(* Mission: two commits with one lockfile, and a working tree of neither.  *)

MCTreeOf == "c1" :> [text |-> "a", lock |-> "l1"] @@ "c2" :> [text |-> "b", lock |-> "l1"]
MCTrees == {MCTreeOf["c1"], MCTreeOf["c2"], [text |-> "b", lock |-> "l2"]}

-----------------------------------------------------------------------------
(* Gates: per gate a sound policy, others to amend it to, and records that *)
(* meet it, fail it, repeat or do not belong.                              *)

MCClaim(assignments, required, opened, terminal) ==
  [assignments |-> assignments, required |-> required, opened |-> opened,
   terminal |-> terminal]
MCCompletion(evid, scopes, value) ==
  [evidence |-> evid, scopes |-> scopes, value |-> value]

Scope(required, replicates, independent) ==
  [required |-> required, minReplicates |-> replicates, independent |-> independent]
Patch(unsafe, changed, surfaces, holdout) ==
  [unsafe |-> unsafe, changedLines |-> changed, maxChangedLines |-> 1,
   surfaces |-> surfaces, maxSurfaces |-> 1, maxRegression |-> 1,
   minImprovement |-> 0, requireHoldout |-> holdout]

MCPoliciesOf ==
  [claim       |-> {MCClaim({"a1", "a2"}, {"pass"}, {"pass"}, TRUE),
                    MCClaim({"a1", "a2"}, {"cost"}, {}, FALSE),
                    MCClaim({"a1"}, {"pass", "cost"}, {"cost"}, FALSE),
                    MCClaim({"a1"}, {}, {}, FALSE)},
   discovery   |-> {Scope({"c1", "c2"}, 2, TRUE), Scope({"c1", "c2"}, 2, FALSE),
                    Scope({}, 1, FALSE)},
   security    |-> [cases : {{<<"transformed", "t">>, <<"negative", "n">>}}, checks : BOOLEAN],
   environment |-> {"none"},
   completion  |-> {{}, {MCCompletion({1, 2}, {"s1"}, <<"x", "y">>)},
                    {MCCompletion({1}, {"s1"}, <<"x">>), MCCompletion({2}, {"s1"}, <<"y">>)},
                    {MCCompletion({}, {"s1"}, <<>>)}},
   replay      |-> {"none"},
   report      |-> {"h1", "h2"},
   ruos        |-> [assertions : {{"t"}}, cases : {{"c"}}, minSamples : {1, 2},
                    maxLatency : {10}, maxCost : {10}, maxDrop : {0}, ttl : {2}, skew : {1}]
                   \cup {[assertions |-> {}, cases |-> {"c"}, minSamples |-> 1, maxLatency |-> 10,
                          maxCost |-> 10, maxDrop |-> 0, ttl |-> 2, skew |-> 1]},
   harness     |-> {Patch(FALSE, 1, 1, TRUE), Patch(FALSE, 1, 1, FALSE),
                    Patch(FALSE, 1, 0, FALSE), Patch(FALSE, 2, 1, TRUE),
                    Patch(FALSE, 1, 2, TRUE), Patch(TRUE, 1, 1, TRUE)}]

RuosRun(arm, says, executed, timestamp, refuted, lacking) ==
  [arm |-> arm, kind |-> "run", id |-> "run", says |-> says, executed |-> executed,
   timestamp |-> timestamp, refuted |-> refuted, lacking |-> lacking]
RuosAssertion(arm, id, pass) ==
  [arm |-> arm, kind |-> "assertion", id |-> id, pass |-> pass]
RuosCase(arm, id, samples, latency, cost, success) ==
  [arm |-> arm, kind |-> "case", id |-> id, samples |-> samples, latency |-> latency,
   cost |-> cost, success |-> success]

MCBaseline ==
  <<RuosRun("baseline", "baseline", "baseline", 1, FALSE, FALSE),
    RuosAssertion("baseline", "t", TRUE), RuosCase("baseline", "c", 2, 10, 10, 9)>>

MCRecordsOf ==
  [claim       |-> [assignment : {"a1", "a2"}, field : {"pass", "cost"},
                    opened : BOOLEAN, terminal : BOOLEAN]
                   \cup {[assignment |-> "a3", field |-> "pass", opened |-> TRUE, terminal |-> TRUE]},
   discovery   |-> [criterion : {"c1", "c2"}, pass : BOOLEAN, independent : BOOLEAN,
                    replicates : {1, 2}]
                   \cup [criterion : {"c1", "c3"}, pass : {TRUE}, independent : {TRUE}, replicates : {0}],
   security    |-> [suite : {"transformed", "negative"}, id : {"t", "n"}, passed : BOOLEAN],
   environment |-> [path : {"p", "q", "r"}, source : {"gap", "disk", "completion"},
                    required : BOOLEAN, verified : BOOLEAN],
   completion  |-> [id : {1, 2}, scope : {"s1", "s2"}, sequence : {1}, output : {"x"}]
                   \cup [id : {2}, scope : {"s1"}, sequence : {0, 1}, output : {"y"}],
   replay      |-> [id : {"a", "b"}, step : 1 .. 3],
   report      |-> {"r1", "r2"},
   ruos        |-> {RuosRun("candidate", "candidate", "candidate", time, FALSE, FALSE) :
                      time \in {0, 1, 3}}
                   \cup
                   {RuosRun("candidate", "candidate", "candidate", 1, FALSE, TRUE),
                    RuosRun("candidate", "candidate", "candidate", 1, TRUE, FALSE),
                    RuosRun("candidate", "candidate", "baseline", 1, FALSE, FALSE),
                    RuosRun("candidate", "baseline", "baseline", 1, FALSE, FALSE),
                    RuosAssertion("candidate", "t", TRUE),
                    RuosAssertion("candidate", "t", FALSE),
                    RuosAssertion("candidate", "u", TRUE),
                    RuosCase("candidate", "c", 2, 11, 11, 9), RuosCase("candidate", "c", 2, 12, 10, 9),
                    RuosCase("candidate", "c", 2, 10, 12, 9), RuosCase("candidate", "c", 2, 10, 10, 8),
                    RuosCase("candidate", "c", 1, 10, 10, 9), RuosCase("candidate", "d", 2, 10, 10, 9)},
   harness     |-> [split : {"validation", "holdout"}, before : {2}, after : {0, 1, 4},
                    sampleSize : {1}, lower : {FALSE}]
                   \cup [split : {"holdout"}, before : {2}, after : {3},
                         sampleSize : {2}, lower : BOOLEAN]]

-----------------------------------------------------------------------------
(* Discovery: feeds with a revised paper, an old one, one of today, one    *)
(* cut off and more than were asked for; pages, errors and empty results.  *)
(* Slots: lists of hours around the ends of February, of a month and of a  *)
(* year.                                                                   *)

Paper(id, published, updated) ==
  [id |-> id, sound |-> TRUE, published |-> published, updated |-> updated]
Feed(entries, total) == [entries |-> entries, total |-> total]
Answer(body, declared, parts) ==
  [accepted |-> TRUE, declared |-> declared, chunks |-> parts, body |-> body]

MCBodies ==
  {NotAtom, Feed(<<>>, 0), Feed(<<>>, NoTotal), Feed(<<>>, 2),
   Feed(<<[Paper(1, 9, 9) EXCEPT !.sound = FALSE]>>, 1), Feed(<<Paper(1, 9, 8)>>, 1)}
  \cup [entries : {<<p, q>> : p, q \in {Paper(1, 9, 9), Paper(1, 9, 10), Paper(1, 2, 9),
                                      Paper(2, 9, 9), Paper(2, 3, 10), Paper(3, 10, 10)}},
        total : {1, 2, 3, NoTotal}]
  \cup {Feed(<<Paper(2, 8, 8), Paper(1, 8, 9), Paper(2, 8, 10)>>, 3),
         Feed(<<Paper(1, 9, 9), Paper(2, 8, 8), Paper(3, 10, 10)>>, 3),
         Feed(<<Paper(1, 9, 9), Paper(2, 9, 9), Paper(3, 9, 9)>>, NoTotal)}
MCAnswers ==
  [accepted : {TRUE}, declared : {NoTotal, 1}, chunks : {1}, body : MCBodies]
  \cup {Answer(Feed(<<Paper(1, 9, 9)>>, 1), declared, parts) :
         declared \in {NoTotal, 2, 3}, parts \in 0 .. 3}
  \cup {[Answer(Feed(<<>>, 0), NoTotal, 1) EXCEPT !.accepted = FALSE]}

MCConfigs == {<<>>, <<3>>, <<0, 2, 12, 23>>, <<22, 6>>, <<6, 6>>, <<3, 25>>}
MCFirstDays ==
  {Date(2024, 2, 28), Date(2023, 2, 28), Date(2024, 12, 31), Date(2026, 4, 30), Date(2100, 2, 28)}

-----------------------------------------------------------------------------
(* One part at a time.  The parts that do not act start from one state.    *)

ToolsInit ==
  /\ part \in {"ledger", "freshness", "guard", "mission", "gates", "papers", "slots"}
  /\ LedgerInit /\ (part # "ledger" => ledger = EmptyLedger)
  /\ FreshInit /\ (part # "freshness" => \A p, q \in Paths : content[p] = content[q])
  /\ GuardInit /\ (part # "guard" => version = "v1" /\ ready)
  /\ MissionInit /\ headId = "c1" /\ (part # "mission" => tree = MCTreeOf["c1"])
  /\ GatesInit /\ (part # "gates" => gate = "environment")
  /\ DiscoveryInit
  /\ ScheduleInit
  /\ part # "slots" => dailyHours = <<>> /\ localDay = Date(2023, 2, 28) /\ localHour = 0

\* The variables of the parts that are not at work.
Others(own) ==
  /\ UNCHANGED part
  /\ own # "ledger" => UNCHANGED ledgerVars
  /\ own # "freshness" => UNCHANGED freshVars
  /\ own # "guard" => UNCHANGED guardVars
  /\ own # "mission" => UNCHANGED missionVars
  /\ own # "gates" => UNCHANGED gateVars
  /\ own # "papers" => UNCHANGED discoveryVars
  /\ own # "slots" => UNCHANGED scheduleVars

ToolsNext ==
  \/ part = "ledger" /\ LedgerNext /\ Others("ledger")
  \/ part = "freshness" /\ FreshNext /\ Others("freshness")
  \/ part = "guard" /\ GuardNext /\ Others("guard")
  \/ part = "mission" /\ MissionNext /\ Others("mission")
  \/ part = "gates" /\ GatesNext /\ Others("gates")
  \/ part = "papers" /\ DiscoveryNext /\ Others("papers")
  \/ part = "slots" /\ ScheduleNext /\ Others("slots")

toolsVars == <<part, ledgerVars, freshVars, guardVars, missionVars, gateVars,
               discoveryVars, scheduleVars>>

ToolsSpec == ToolsInit /\ [][ToolsNext]_toolsVars
=============================================================================
