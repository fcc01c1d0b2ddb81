---------------------------- MODULE ReviewAgents ----------------------------
(***************************************************************************)
(* What each agent of a review may report, from the keys of the graph      *)
(* state it reads: the findings by severity, the keys it sets, and by how  *)
(* much it moves the finding counter _fid.  Nothing here has state;        *)
(* ReviewGraph runs the agents one after the other.                        *)
(***************************************************************************)
EXTENDS Naturals, Sequences

CONSTANTS
    ApiFailures,    \* how many of the four API calls of a test may fail
    Ollama          \* is OLLAMA_URL set?

ASSUME AgentsAssumption ==
    /\ ApiFailures \subseteq 0..4
    /\ Ollama \in BOOLEAN

(* "other": a model that answers for a crashed agent may name any severity. *)
Severities == {"HIGH", "MEDIUM", "LOW", "other"}

(* A finding without its id and agent; latency: test_name checkout_latency. *)
Reported == [sev : Severities, latency : BOOLEAN]
Finding(sev) == [sev |-> sev, latency |-> FALSE]
Latency(sev) == [sev |-> sev, latency |-> TRUE]
High == <<Finding("HIGH")>>
Medium == <<Finding("MEDIUM")>>
Low == <<Finding("LOW")>>
None == <<>>
HasHigh(found) == \E i \in DOMAIN found : found[i].sev = "HIGH"

(* The keys of TuskerState that later agents read.                          *)
(*   tag: build_artifacts names an image; url: deploy_url is set; deployed: *)
(*   deploy_success; tested, passed, slow: the api_tests of test_results    *)
(*   and a slow average; tests: test_success; health: runtime_health; hot:  *)
(*   CPU or memory over its threshold; evidence: bus_observations.          *)
Keys == [tag : BOOLEAN, url : BOOLEAN, deployed : BOOLEAN,
         tested : BOOLEAN, passed : 0..4, slow : BOOLEAN, tests : BOOLEAN,
         health : {"none", "good", "bad"}, hot : BOOLEAN, evidence : BOOLEAN]
NoKeys == [tag |-> FALSE, url |-> FALSE, deployed |-> FALSE,
           tested |-> FALSE, passed |-> 0, slow |-> FALSE, tests |-> FALSE,
           health |-> "none", hot |-> FALSE, evidence |-> FALSE]

(* The keys an agent sets together. *)
Tagged(k, tag) == [k EXCEPT !.tag = tag]
Deployment(k, url, deployed) == [k EXCEPT !.url = url, !.deployed = deployed]
Tests(k, tested, passed, slow, tests) ==
    [k EXCEPT !.tested = tested, !.passed = passed, !.slow = slow, !.tests = tests]
Runtime(k, health, hot) == [k EXCEPT !.health = health, !.hot = hot]
Observed(k) == [k EXCEPT !.evidence = TRUE]

Reports == [found : Seq(Reported), bump : Nat, keys : Keys]
Report(found, bump, k) == [found |-> found, bump |-> bump, keys |-> k]
(* Most agents count every finding. *)
Plain(found, k) == Report(found, Len(found), k)

(* Mutant: a crash is worth a MEDIUM. *)
CrashMutant(k) == Plain(Medium, k)
(* A module that cannot be imported or an agent that raises: the node      *)
(* reports it and sets no key.                                             *)
Crash(k) == Plain(High, k)

-----------------------------------------------------------------------------
(* Building, deploying, testing *)

Repeat(found, n) == [i \in 1..n |-> found[1]]

(* The Dockerfile, then npm, pip and maven until one of the four succeeds:  *)
(* so many fail, and perhaps another one does not.  Any success reports the *)
(* image tag.                                                               *)
BuildOutcome(failures, succeeds, k) ==
    Plain(Repeat(High, failures) \o IF succeeds THEN Low ELSE None, Tagged(k, succeeds))

Unbuilt(k) == Tagged(k, FALSE)
Built(k) == BuildOutcome(0, TRUE, k)
(* A timeout or an exception reports without counting.                      *)
BreaksOff(k) == Report(High, 0, Unbuilt(k))
CloneFails(k) == {Plain(High, Unbuilt(k)), BreaksOff(k), Crash(k)}
(* A Makefile alone is no build and no finding; no build file at all is     *)
(* MEDIUM.                                                                  *)
Builder(k) ==
    {BuildOutcome(failures, FALSE, k) : failures \in 0..4}
        \cup {BuildOutcome(failures, TRUE, k) : failures \in 0..3}
        \cup {Plain(Medium, Unbuilt(k))} \cup CloneFails(k)

(* image: does docker image inspect find the tag?  free: is the container's *)
(* name?                                                                    *)
DeployerUsual(k, image, free) ==
    LET failed == Deployment(k, FALSE, FALSE)
    IN  CASE ~k.tag           -> Report(High, 0, failed)
          [] k.tag /\ ~image  -> Plain(High, failed)
          [] k.tag /\ image /\ ~free -> Plain(High, failed)
          [] k.tag /\ image /\ free  -> Plain(Low, Deployment(k, TRUE, TRUE))
(* docker run fails; or the container never gets healthy (its URL stays); or *)
(* something times out before or after the URL is set.                      *)
Deployer(k, image, free) ==
    LET failed(url) == Deployment(k, url, FALSE)
        urls == IF image /\ free THEN BOOLEAN ELSE {FALSE}
    IN  {Crash(k)} \cup
        IF k.tag THEN    {Plain(High, failed(url)) : url \in urls}
                  \cup {Report(High, 0, failed(url)) : url \in urls}
        ELSE {}

Untested(k) == Tests(k, FALSE, 0, FALSE, FALSE)

(* Mutant: half of the API calls is enough. *)
EnoughMutant(passed) == passed * 10 >= 4 * 5

(* 80% of four API calls is all four. *)
Enough(passed) == passed * 10 >= 4 * 8

(* A healthy application: its own pytest suite if there is one, four API   *)
(* calls, five timed requests.  test_success is set by the API calls alone. *)
TestRun(pytest, failures, timing, k) ==
    Plain(Low \o pytest \o Repeat(Medium, failures) \o timing.found,
          Tests(k, TRUE, 4 - failures, timing.slow, Enough(4 - failures)))

TimedOut(pytest, failures, k) ==
    Report(Low \o pytest \o Repeat(Medium, failures) \o High, 1 + Len(pytest) + failures,
           Tests(k, TRUE, 4 - failures, FALSE, FALSE))

(* An average above one second is MEDIUM; slow: above two. *)
Timing(found, slow) == [found |-> found, slow |-> slow]
Timings == {Timing(None, FALSE), Timing(Low, FALSE), Timing(Medium, FALSE), Timing(Medium, TRUE)}

TesterUsual(k) ==
    IF k.url THEN {TestRun(Low, 0, Timing(Low, FALSE), k)} ELSE {Report(High, 0, Untested(k))}
(* Not healthy; or the health check, the pytest run or a timed request      *)
(* times out, which the agent reports without counting it and before it     *)
(* sets test_success.                                                       *)
Tester(k) ==
    IF ~k.url THEN {Crash(k)}
    ELSE    {TestRun(pytest, failures, timing, k) :
                pytest \in {None, Low, High}, failures \in ApiFailures, timing \in Timings}
            \cup {Plain(High, Untested(k)), Report(High, 0, Untested(k)), Crash(k),
                  Report(Low \o High, 1, Untested(k))}
            \cup {TimedOut(pytest, failures, k) :
                    pytest \in {None, Low, High}, failures \in ApiFailures}

(* The counter moves for each endpoint, reported or not. *)
ApiValidatorUsual(k) == IF k.url THEN {Report(None, 4, k)} ELSE {Plain(High, k)}
ApiValidator(k) ==
    IF k.url THEN {Crash(k)} \cup {Report(Repeat(Medium, n), 4, k) : n \in ApiFailures}
    ELSE {Crash(k)}

(* trivy is not in the image: no scan. *)
SecurityRuntimeUsual(k) == {Plain(IF k.tag THEN None ELSE Medium, k)}
SecurityRuntime(k) ==
    {Crash(k)} \cup
    IF k.tag THEN {Report(None, 1, k), Plain(High, k), Plain(Medium, k), Plain(Low, k)}
    ELSE {}

(* Container log, test results and container statistics; the verdict counts *)
(* this agent's own HIGH findings.                                          *)
Analysis(logs, perf, stats, k) ==
    LET api == IF k.tested /\ ~Enough(k.passed) THEN High ELSE None
        own == logs \o api \o perf \o stats
        bad == HasHigh(own)
    IN  Plain(IF bad THEN own ELSE own \o Low,
              Runtime(k, IF bad THEN "bad" ELSE "good", stats # None))

RuntimeAnalyzerUsual(k) ==
    IF k.url THEN {Analysis(None, None, None, k)}
    ELSE {Report(High, 0, Runtime(k, "none", FALSE))}
RuntimeAnalyzer(k) ==
    IF k.url
    THEN    {Analysis(logs, perf, stats, k) :
                logs \in {None, High, Medium, Low},
                perf \in IF k.slow THEN {None, Medium} ELSE {None},
                stats \in {None, Medium, Medium \o Medium}}
            \cup {Report(High, 0, Runtime(k, "none", FALSE)), Crash(k)}
    ELSE {Crash(k)}

-----------------------------------------------------------------------------
(* The engineering agents *)

(* Whoever finds no deployment tests the demo shop and says so. *)
Warning(k) == IF k.url THEN None ELSE Low

(* An engineering agent that crashes or is missing is replaced by one line *)
(* of a language model, or a MEDIUM finding, under the test name given.     *)
Substitute(latency, k) ==
    {Plain(<<[sev |-> sev, latency |-> latency]>>, k) :
        sev \in IF Ollama THEN Severities ELSE {"MEDIUM"}}

BackendUsual(k) == {Plain(Warning(k) \o Low, k)}
(* A failed suite is filed under checkout_latency; with no test tool, two   *)
(* synthetic findings.                                                      *)
Backend(k) ==
    {Plain(Warning(k) \o <<Latency("HIGH")>>, k),
     Plain(Warning(k) \o <<Latency("MEDIUM")>> \o Low, k)} \cup Substitute(TRUE, k)

FrontendUsual(k) == {Plain(Warning(k) \o Low, k)}
Frontend(k) ==
    {Plain(Warning(k) \o High, k), Plain(Warning(k) \o Low \o Low, k)}
        \cup Substitute(FALSE, k)

(* Something must be said, be it the warning. *)
Said(found) == IF found = None THEN Low ELSE found

SecurityUsual(k) == {Plain(Warning(k) \o Low, k)}
(* HIGH stands for one or more of the three probes that report HIGH. *)
Security(k) ==
    {Plain(Said(Warning(k) \o probes \o cors), k) :
        probes \in {None, High}, cors \in {None, Low}}
    \cup {Plain(Warning(k) \o High \o Low, k)} \cup Substitute(FALSE, k)

SreUsual(k) == {Plain(Warning(k) \o Low \o <<Latency("LOW")>>, k)}
(* One probe stands for /products and /health; /checkout needs a token. *)
Sre(k) ==
    LET severity == {"HIGH", "MEDIUM", "LOW"}
    IN  {Plain(Said(Warning(k) \o plain \o checkout), k) :
            plain \in {None} \cup {<<Finding(s)>> : s \in severity},
            checkout \in {None} \cup {<<Latency(s)>> : s \in severity}}
        \cup {Plain(Warning(k) \o <<Latency("MEDIUM")>> \o Low, k)}
        \cup Substitute(TRUE, k)

-----------------------------------------------------------------------------
(* Reading the logs, joining the findings *)

LogInspectorUsual(k) == {Plain(Low, k)}
(* No service answers: two synthetic findings and no observation.  Failing *)
(* altogether, the inspector reports nothing.                              *)
LogInspector(k) ==
    {Plain(found, Observed(k)) : found \in {High, Medium, High \o Medium}}
        \cup {Plain(High \o High, k), Plain(None, k)}

CorrelatorUsual(k) == {Plain(Low, k)}
(* A root cause needs an observation of the log inspector. *)
Correlator(k) ==
    LET chains == IF k.evidence THEN {None, High, Medium, High \o Medium} ELSE {None}
        narrative == IF Ollama THEN {None, Low} ELSE {None}
    IN  {Plain(Said(c \o n), k) : c \in chains, n \in narrative} \cup {Plain(None, k)}

-----------------------------------------------------------------------------
(* QA lead and judge *)

Count(findings, sev) == {i \in DOMAIN findings : findings[i].sev = sev}

(* More than one MEDIUM. *)
SeveralMedium(findings) ==
    \E i, j \in Count(findings, "MEDIUM") : i # j

Risk(findings) ==
    IF Count(findings, "HIGH") # {} THEN "HIGH"
    ELSE IF SeveralMedium(findings) THEN "MEDIUM" ELSE "LOW"

(* _rule_based_decision, first match first. *)
Rules(findings, challenges, risk, k) ==
    IF \/ Count(findings, "HIGH") # {}
       \/ risk = "HIGH"
       \/ challenges # {}
       \/ k.health = "bad" \/ k.hot
       \/ SeveralMedium(findings)
    THEN "REVIEW_REQUIRED" ELSE "APPROVE"
=============================================================================
