-------------------------- MODULE ReviewGraphProofs --------------------------
(***************************************************************************)
(* The invariants of ReviewGraph, proved for every set of API failures,    *)
(* either engine, with and without a language model, and any number of     *)
(* passes and deviations.                                                   *)
(***************************************************************************)
EXTENDS ReviewGraph, TLAPS, WellFoundedInduction

(* A report is well counted: it moves the counter past each finding that    *)
(* the challenger may dispute.                                              *)
HasLatency(found) == \E i \in DOMAIN found : found[i].latency
Sound(r) == r \in Reports /\ (HasLatency(r.found) => r.bump = Len(r.found))

-----------------------------------------------------------------------------
(* Findings *)

LEMMA Constants ==
    /\ High \in Seq(Reported) /\ HasHigh(High) /\ ~HasLatency(High)
    /\ Medium \in Seq(Reported) /\ ~HasLatency(Medium)
    /\ Low \in Seq(Reported) /\ ~HasLatency(Low)
    /\ None \in Seq(Reported) /\ ~HasLatency(None)
BY DEF High, Medium, Low, None, Finding, Reported, Severities, HasHigh, HasLatency

LEMMA Single ==
    ASSUME NEW f \in Reported
    PROVE  <<f>> \in Seq(Reported)
OBVIOUS

LEMMA Joined ==
    ASSUME NEW a \in Seq(Reported), NEW b \in Seq(Reported)
    PROVE  /\ a \o b \in Seq(Reported)
           /\ HasHigh(a) \/ HasHigh(b) <=> HasHigh(a \o b)
           /\ HasLatency(a) \/ HasLatency(b) <=> HasLatency(a \o b)
<1>1. a \o b \in Seq(Reported) /\ Len(a \o b) = Len(a) + Len(b)
    OBVIOUS
<1>2. \A i \in 1..Len(a) : (a \o b)[i] = a[i]
    OBVIOUS
<1>3. \A i \in 1..Len(b) : (a \o b)[Len(a) + i] = b[i]
    OBVIOUS
<1>4. \A i \in 1..Len(a \o b) : i \in 1..Len(a) \/ i - Len(a) \in 1..Len(b)
    BY <1>1
<1>5. /\ \A i \in 1..Len(a) : i \in 1..Len(a \o b)
      /\ \A i \in 1..Len(b) : Len(a) + i \in 1..Len(a \o b)
    BY <1>1
<1>6. /\ DOMAIN a = 1..Len(a) /\ DOMAIN b = 1..Len(b)
      /\ DOMAIN (a \o b) = 1..Len(a \o b)
    BY <1>1
<1>7. ASSUME NEW i \in DOMAIN (a \o b)
      PROVE  \/ i \in DOMAIN a /\ (a \o b)[i] = a[i]
             \/ i - Len(a) \in DOMAIN b /\ (a \o b)[i] = b[i - Len(a)]
    BY <1>2, <1>3, <1>4, <1>6
<1>8. HasHigh(a) \/ HasHigh(b) <=> HasHigh(a \o b)
    <2>1. HasHigh(a \o b) => HasHigh(a) \/ HasHigh(b)
        BY <1>7 DEF HasHigh
    <2>2. HasHigh(a) \/ HasHigh(b) => HasHigh(a \o b)
        BY <1>2, <1>3, <1>5, <1>6 DEF HasHigh
    <2> QED BY <2>1, <2>2
<1>9. HasLatency(a) \/ HasLatency(b) <=> HasLatency(a \o b)
    <2>1. HasLatency(a \o b) => HasLatency(a) \/ HasLatency(b)
        BY <1>7 DEF HasLatency
    <2>2. HasLatency(a) \/ HasLatency(b) => HasLatency(a \o b)
        BY <1>2, <1>3, <1>5, <1>6 DEF HasLatency
    <2> QED BY <2>1, <2>2
<1> QED BY <1>1, <1>8, <1>9

LEMMA Repeated ==
    ASSUME NEW n \in Nat, NEW found \in {Medium, High}
    PROVE  Repeat(found, n) \in Seq(Reported) /\ ~HasLatency(Repeat(found, n))
<1>1. found[1] \in Reported /\ ~found[1].latency
    <2>1. Medium[1] \in Reported /\ ~Medium[1].latency
        BY DEF Medium, Finding, Reported, Severities
    <2>2. High[1] \in Reported /\ ~High[1].latency
        BY DEF High, Finding, Reported, Severities
    <2> QED BY <2>1, <2>2
<1>2. Repeat(found, n) \in Seq(Reported) /\ DOMAIN Repeat(found, n) = 1..n
    BY <1>1 DEF Repeat
<1> QED BY <1>1, <1>2 DEF Repeat, HasLatency

LEMMA PlainSound ==
    ASSUME NEW found \in Seq(Reported), NEW k \in Keys
    PROVE  /\ Sound(Plain(found, k))
           /\ Plain(found, k).found = found /\ Plain(found, k).keys = k
<1>1. Len(found) \in Nat
    OBVIOUS
<1> QED BY <1>1 DEF Plain, Report, Reports, Sound

LEMMA ReportSound ==
    ASSUME NEW found \in Seq(Reported), ~HasLatency(found), NEW bump \in Nat, NEW k \in Keys
    PROVE  /\ Sound(Report(found, bump, k))
           /\ Report(found, bump, k).found = found /\ Report(found, bump, k).keys = k
BY DEF Report, Reports, Sound

LEMMA CrashSound ==
    ASSUME NEW k \in Keys
    PROVE  Sound(Crash(k)) /\ HasHigh(Crash(k).found) /\ Crash(k).keys = k
BY PlainSound, Constants DEF Crash

LEMMA UncountedSound ==
    ASSUME NEW k \in Keys
    PROVE  /\ Sound(Report(High, 0, k)) /\ HasHigh(Report(High, 0, k).found)
           /\ Report(High, 0, k).keys = k
<1>1. 0 \in Nat
    OBVIOUS
<1> QED BY <1>1, ReportSound, Constants

-----------------------------------------------------------------------------
(* Building, deploying, testing *)

(* What an agent promises about the keys it leaves. *)
Deployed(k) == k.url /\ k.deployed
SameDeployment(k, l) == l.url = k.url /\ l.deployed = k.deployed
Judged(k) == k.tested /\ k.tests = Enough(k.passed)

LEMMA Tagging ==
    ASSUME NEW k \in Keys, NEW b \in BOOLEAN
    PROVE  Tagged(k, b) \in Keys
BY DEF Keys, Tagged

LEMMA Deploying ==
    ASSUME NEW k \in Keys
    PROVE  /\ \A u, d \in BOOLEAN : Deployment(k, u, d) \in Keys
           /\ Deployed(Deployment(k, TRUE, TRUE))
BY DEF Keys, Deployment, Deployed

LEMMA Testing ==
    ASSUME NEW k \in Keys, NEW t \in BOOLEAN, NEW p \in 0..4, NEW s \in BOOLEAN, NEW e \in BOOLEAN
    PROVE  /\ Tests(k, t, p, s, e) \in Keys
           /\ SameDeployment(k, Tests(k, t, p, s, e))
BY DEF Keys, Tests, SameDeployment

LEMMA TestingDone ==
    ASSUME NEW k \in Keys, NEW p \in 0..4, NEW s \in BOOLEAN
    PROVE  Judged(Tests(k, TRUE, p, s, Enough(p)))
<1>1. Enough(p) \in BOOLEAN
    BY DEF Enough
<1> QED BY <1>1 DEF Keys, Tests, Judged

LEMMA BuilderReports ==
    ASSUME NEW k \in Keys, NEW r \in Builder(k) \cup {Built(k)} \cup CloneFails(k)
    PROVE  Sound(r)
<1>1. \A failures \in 0..4, succeeds \in BOOLEAN : Sound(BuildOutcome(failures, succeeds, k))
    <2> SUFFICES ASSUME NEW failures \in 0..4, NEW succeeds \in BOOLEAN
                 PROVE  Sound(BuildOutcome(failures, succeeds, k))
        OBVIOUS
    <2> DEFINE last == IF succeeds THEN Low ELSE None
               found == Repeat(High, failures) \o last
               after == Tagged(k, succeeds)
    <2>1. last \in Seq(Reported) /\ Repeat(High, failures) \in Seq(Reported)
        <3>1. failures \in Nat
            OBVIOUS
        <3> QED BY <3>1, Constants, Repeated
    <2>2. found \in Seq(Reported)
        <3> HIDE DEF last
        <3> QED BY <2>1, Joined
    <2>3. after \in Keys
        BY Tagging
    <2>4. BuildOutcome(failures, succeeds, k) = Plain(found, after)
        BY DEF BuildOutcome
    <2> HIDE DEF found, after
    <2> QED BY <2>2, <2>3, <2>4, PlainSound
<1>2. Unbuilt(k) \in Keys
    BY Tagging DEF Unbuilt
<1>3. /\ Sound(Plain(High, Unbuilt(k))) /\ Sound(Plain(Medium, Unbuilt(k)))
      /\ Sound(Report(High, 0, Unbuilt(k))) /\ Sound(Crash(k))
    BY <1>2, Constants, PlainSound, ReportSound, CrashSound
<1>4. 0 \in 0..4 /\ 0..3 \subseteq 0..4
    OBVIOUS
<1> QED BY <1>1, <1>3, <1>4 DEF Builder, Built, CloneFails, BreaksOff

(* No HIGH finding: there is a deployment. *)
LEMMA DeployerReports ==
    ASSUME NEW k \in Keys, NEW image \in BOOLEAN, NEW free \in BOOLEAN,
           NEW r \in {DeployerUsual(k, image, free)} \cup Deployer(k, image, free)
    PROVE  Sound(r) /\ (HasHigh(r.found) \/ Deployed(r.keys))
<1> DEFINE Good(x) == Sound(x) /\ (HasHigh(x.found) \/ Deployed(x.keys))
<1>1. /\ Deployment(k, TRUE, TRUE) \in Keys /\ Deployed(Deployment(k, TRUE, TRUE))
      /\ Deployment(k, TRUE, FALSE) \in Keys
      /\ Deployment(k, FALSE, FALSE) \in Keys
    BY Deploying
<1>2. /\ Good(Plain(High, Deployment(k, TRUE, FALSE)))
      /\ Good(Plain(High, Deployment(k, FALSE, FALSE)))
    BY <1>1, Constants, PlainSound
<1>3. /\ Good(Report(High, 0, Deployment(k, TRUE, FALSE)))
      /\ Good(Report(High, 0, Deployment(k, FALSE, FALSE)))
    BY <1>1, UncountedSound
<1>4. Good(Plain(Low, Deployment(k, TRUE, TRUE)))
    BY <1>1, Constants, PlainSound
<1>5. Good(Crash(k))
    BY CrashSound
<1> HIDE DEF Good
<1>6. Good(DeployerUsual(k, image, free))
    <2>1. k.tag \in BOOLEAN
        BY DEF Keys
    <2> QED BY <1>2, <1>3, <1>4, <2>1 DEF DeployerUsual
<1>7. ASSUME NEW x \in Deployer(k, image, free) PROVE Good(x)
    <2>1. \/ x = Crash(k)
          \/ \E u \in {TRUE, FALSE} : \/ x = Plain(High, Deployment(k, u, FALSE))
                                     \/ x = Report(High, 0, Deployment(k, u, FALSE))
        BY DEF Deployer
    <2> QED BY <2>1, <1>2, <1>3, <1>5
<1> QED BY <1>6, <1>7 DEF Good

(* No HIGH finding: the tests were run, and the verdict is that of the API  *)
(* calls.                                                                   *)
LEMMA TesterReports ==
    ASSUME NEW k \in Keys, NEW r \in TesterUsual(k) \cup Tester(k)
    PROVE  /\ Sound(r) /\ SameDeployment(k, r.keys)
           /\ HasHigh(r.found) \/ Judged(r.keys)
<1> DEFINE Good(x) == /\ Sound(x) /\ SameDeployment(k, x.keys)
                      /\ HasHigh(x.found) \/ Judged(x.keys)
<1>1. SameDeployment(k, k)
    BY DEF SameDeployment
<1>2. \A n \in {0} \cup ApiFailures : n \in Nat /\ n + 1 \in Nat /\ 4 - n \in 0..4
    BY AgentsAssumption
<1>3. Untested(k) \in Keys /\ SameDeployment(k, Untested(k))
    <2>1. 0 \in 0..4 /\ FALSE \in BOOLEAN
        OBVIOUS
    <2> QED BY <2>1, Testing DEF Untested
<1>5. Good(Crash(k))
    BY CrashSound, <1>1
<1>6. Good(Report(High, 0, Untested(k))) /\ Good(Plain(High, Untested(k)))
    BY <1>3, Constants, PlainSound, UncountedSound
<1>7. Good(Report(Low \o High, 1, Untested(k)))
    <2>1. Low \o High \in Seq(Reported) /\ HasHigh(Low \o High) /\ ~HasLatency(Low \o High)
        BY Constants, Joined
    <2> QED BY <2>1, <1>3, ReportSound
<1>8. ASSUME NEW pytest \in {None, Low, High}, NEW n \in ApiFailures
      PROVE  Good(TimedOut(pytest, n, k))
    <2>1. n \in Nat /\ 4 - n \in 0..4
        BY <1>2
    <2> DEFINE start == Low \o pytest
               most == start \o Repeat(Medium, n)
               found == most \o High
               bump == 1 + Len(pytest) + n
               after == Tests(k, TRUE, 4 - n, FALSE, FALSE)
    <2>p. pytest \in Seq(Reported) /\ ~HasLatency(pytest)
        BY Constants
    <2>b. bump \in Nat
        <3>1. Len(pytest) \in Nat
            BY <2>p
        <3> QED BY <2>1, <3>1
    <2>s. start \in Seq(Reported) /\ ~HasLatency(start)
        BY <2>p, Constants, Joined
    <2>2. most \in Seq(Reported) /\ ~HasLatency(most)
        <3> HIDE DEF start
        <3> QED BY <2>1, <2>s, Repeated, Joined
    <2>3. found \in Seq(Reported) /\ HasHigh(found) /\ ~HasLatency(found)
        <3> HIDE DEF most
        <3> QED BY <2>2, Constants, Joined
    <2>4. after \in Keys /\ SameDeployment(k, after)
        BY <2>1, Testing
    <2> HIDE DEF found, after, bump
    <2>5. Good(Report(found, bump, after))
        BY <2>b, <2>3, <2>4, ReportSound
    <2> QED BY <2>5 DEF found, after, bump, TimedOut
<1>9. ASSUME NEW pytest \in {None, Low, High}, NEW n \in {0} \cup ApiFailures,
             NEW timing \in Timings
      PROVE  Good(TestRun(pytest, n, timing, k))
    <2>1. n \in Nat /\ 4 - n \in 0..4
        BY <1>2
    <2>2. timing.found \in Seq(Reported) /\ timing.slow \in BOOLEAN
        <3>1. PICK found \in {None, Low, Medium}, slow \in BOOLEAN : timing = Timing(found, slow)
            BY DEF Timings
        <3> QED BY <3>1, Constants DEF Timing
    <2> DEFINE a == Low \o pytest
               b == a \o Repeat(Medium, n)
               found == b \o timing.found
               after == Tests(k, TRUE, 4 - n, timing.slow, Enough(4 - n))
    <2>3. a \in Seq(Reported)
        <3>1. pytest \in Seq(Reported)
            BY Constants
        <3> QED BY <3>1, Constants, Joined
    <2>4. b \in Seq(Reported)
        <3> HIDE DEF a
        <3> QED BY <2>1, <2>3, Repeated, Joined
    <2>5. found \in Seq(Reported)
        <3> HIDE DEF b
        <3> QED BY <2>2, <2>4, Joined
    <2>6. after \in Keys /\ SameDeployment(k, after) /\ Judged(after)
        <3>1. Enough(4 - n) \in BOOLEAN
            BY DEF Enough
        <3> QED BY <2>1, <2>2, <3>1, Testing, TestingDone
    <2>7. TestRun(pytest, n, timing, k) = Plain(found, after)
        BY DEF TestRun
    <2> HIDE DEF found, after
    <2> QED BY <2>5, <2>6, <2>7, PlainSound
<1> HIDE DEF Good
<1>10. \A x \in TesterUsual(k) : Good(x)
    <2>1. Timing(Low, FALSE) \in Timings
        BY DEF Timings
    <2>2. Good(TestRun(Low, 0, Timing(Low, FALSE), k))
        BY <1>9, <2>1
    <2> QED BY <1>6, <2>2 DEF TesterUsual
<1>11. \A x \in Tester(k) : Good(x)
    <2> SUFFICES ASSUME NEW x \in Tester(k) PROVE Good(x)
        OBVIOUS
    <2> DEFINE S1 == {TestRun(pytest, n, timing, k) :
                        pytest \in {None, Low, High}, n \in ApiFailures, timing \in Timings}
               S2 == {Plain(High, Untested(k)), Report(High, 0, Untested(k)), Crash(k),
                      Report(Low \o High, 1, Untested(k))}
               S3 == {TimedOut(pytest, n, k) : pytest \in {None, Low, High}, n \in ApiFailures}
    <2>1. CASE x \in S1
        <3>1. PICK pytest \in {None, Low, High}, n \in ApiFailures, timing \in Timings :
                    x = TestRun(pytest, n, timing, k)
            BY <2>1
        <3>2. pytest \in {None, Low, High} /\ n \in {0} \cup ApiFailures
            OBVIOUS
        <3> QED BY <3>1, <3>2, <1>9
    <2>2. CASE x \in S2
        BY <1>5, <1>6, <1>7, <2>2
    <2>3. CASE x \in S3
        BY <1>8, <2>3
    <2>4. Tester(k) = IF ~k.url THEN {Crash(k)} ELSE S1 \cup S2 \cup S3
        BY DEF Tester
    <2> HIDE DEF S1, S2, S3
    <2> QED BY <2>1, <2>2, <2>3, <2>4, <1>5
<1> QED BY <1>10, <1>11 DEF Good

(* An agent that leaves the keys alone. *)
Aside(k, r) == Sound(r) /\ r.keys = k

LEMMA PlainAside ==
    ASSUME NEW found \in Seq(Reported), NEW k \in Keys
    PROVE  Aside(k, Plain(found, k))
BY PlainSound DEF Aside

LEMMA ReportAside ==
    ASSUME NEW found \in Seq(Reported), ~HasLatency(found), NEW bump \in Nat, NEW k \in Keys
    PROVE  Aside(k, Report(found, bump, k))
BY ReportSound DEF Aside

LEMMA CrashAside ==
    ASSUME NEW k \in Keys
    PROVE  Aside(k, Crash(k))
BY CrashSound DEF Aside

LEMMA ApiValidatorReports ==
    ASSUME NEW k \in Keys, NEW r \in ApiValidatorUsual(k) \cup ApiValidator(k)
    PROVE  Aside(k, r)
<1>1. ASSUME NEW n \in ApiFailures PROVE Aside(k, Report(Repeat(Medium, n), 4, k))
    <2>1. n \in Nat /\ 4 \in Nat
        BY AgentsAssumption
    <2> QED BY <2>1, Repeated, ReportAside
<1>2. /\ Aside(k, Report(None, 4, k)) /\ Aside(k, Plain(High, k)) /\ Aside(k, Crash(k))
    BY Constants, PlainAside, ReportAside, CrashAside
<1>3. CASE r \in ApiValidatorUsual(k)
    BY <1>2, <1>3 DEF ApiValidatorUsual
<1>4. CASE r \in ApiValidator(k)
    <2>1. r = Crash(k) \/ r \in {Report(Repeat(Medium, n), 4, k) : n \in ApiFailures}
        BY <1>4 DEF ApiValidator
    <2>2. CASE r \in {Report(Repeat(Medium, n), 4, k) : n \in ApiFailures}
        <3>1. PICK n \in ApiFailures : r = Report(Repeat(Medium, n), 4, k)
            BY <2>2
        <3> QED BY <3>1, <1>1
    <2> QED BY <2>1, <2>2, <1>2
<1> QED BY <1>3, <1>4

LEMMA SecurityRuntimeReports ==
    ASSUME NEW k \in Keys, NEW r \in SecurityRuntimeUsual(k) \cup SecurityRuntime(k)
    PROVE  Aside(k, r)
<1>1. /\ Aside(k, Plain(None, k)) /\ Aside(k, Plain(High, k)) /\ Aside(k, Plain(Medium, k))
      /\ Aside(k, Plain(Low, k)) /\ Aside(k, Crash(k))
    BY Constants, PlainAside, CrashAside
<1>2. Aside(k, Report(None, 1, k))
    BY Constants, ReportAside
<1>3. CASE r \in SecurityRuntimeUsual(k)
    <2>1. r = Plain(None, k) \/ r = Plain(Medium, k)
        BY <1>3 DEF SecurityRuntimeUsual
    <2> QED BY <2>1, <1>1
<1>4. CASE r \in SecurityRuntime(k)
    BY <1>1, <1>2, <1>4 DEF SecurityRuntime
<1> QED BY <1>3, <1>4

(* Whatever the verdict on the runtime, the tests and the deployment are as *)
(* they were.                                                               *)
Kept(k, l) == /\ SameDeployment(k, l)
              /\ l.tested = k.tested /\ l.passed = k.passed /\ l.tests = k.tests

LEMMA Running ==
    ASSUME NEW k \in Keys, NEW h \in {"none", "good", "bad"}, NEW t \in BOOLEAN
    PROVE  /\ Runtime(k, h, t) \in Keys /\ Kept(k, Runtime(k, h, t))
           /\ Runtime(k, h, t).health = h
BY DEF Keys, Runtime, Kept, SameDeployment

(* No HIGH finding: the application is healthy and its tests, if any, all   *)
(* passed.                                                                  *)
LEMMA AnalysisReports ==
    ASSUME NEW k \in Keys, NEW logs \in Seq(Reported), NEW perf \in Seq(Reported),
           NEW stats \in Seq(Reported)
    PROVE  LET r == Analysis(logs, perf, stats, k)
           IN  /\ Sound(r) /\ Kept(k, r.keys)
               /\ \/ HasHigh(r.found)
                  \/ r.keys.health = "good" /\ ~(k.tested /\ ~Enough(k.passed))
<1> DEFINE api == IF k.tested /\ ~Enough(k.passed) THEN High ELSE None
           la == logs \o api
           lap == la \o perf
           own == lap \o stats
           health == IF HasHigh(own) THEN "bad" ELSE "good"
           found == IF HasHigh(own) THEN own ELSE own \o Low
           hot == stats # None
           r == Analysis(logs, perf, stats, k)
<1>1. /\ api \in Seq(Reported)
      /\ k.tested /\ ~Enough(k.passed) => HasHigh(api)
    BY Constants
<1>2. la \in Seq(Reported) /\ (HasHigh(api) => HasHigh(la))
    <2> HIDE DEF api
    <2> QED BY <1>1, Joined
<1>3. lap \in Seq(Reported) /\ (HasHigh(la) => HasHigh(lap))
    <2> HIDE DEF la
    <2> QED BY <1>2, Joined
<1>4. own \in Seq(Reported) /\ (HasHigh(lap) => HasHigh(own))
    <2> HIDE DEF lap
    <2> QED BY <1>3, Joined
<1>5. r = Plain(found, Runtime(k, health, hot))
    BY DEF Analysis
<1> HIDE DEF own
<1>6. found \in Seq(Reported) /\ (HasHigh(own) => HasHigh(found))
    BY <1>4, Constants, Joined
<1>7. health \in {"none", "good", "bad"} /\ (~HasHigh(own) => health = "good")
    OBVIOUS
<1>8. hot \in BOOLEAN
    OBVIOUS
<1> HIDE DEF found, health, hot, r
<1>9. Runtime(k, health, hot) \in Keys /\ Kept(k, Runtime(k, health, hot))
      /\ Runtime(k, health, hot).health = health
    BY <1>7, <1>8, Running
<1>10. Sound(r) /\ Kept(k, r.keys) /\ r.found = found /\ r.keys.health = health
    BY <1>5, <1>6, <1>9, PlainSound
<1>11. HasHigh(r.found) \/ (r.keys.health = "good" /\ ~(k.tested /\ ~Enough(k.passed)))
    <2>1. CASE HasHigh(own)
        BY <1>6, <1>10, <2>1
    <2>2. CASE ~HasHigh(own)
        BY <1>1, <1>2, <1>3, <1>4, <1>7, <1>10, <2>2
    <2> QED BY <2>1, <2>2
<1> QED BY <1>10, <1>11 DEF r

LEMMA RuntimeAnalyzerReports ==
    ASSUME NEW k \in Keys, NEW r \in RuntimeAnalyzerUsual(k) \cup RuntimeAnalyzer(k)
    PROVE  /\ Sound(r) /\ Kept(k, r.keys)
           /\ \/ HasHigh(r.found)
              \/ r.keys.health = "good" /\ ~(k.tested /\ ~Enough(k.passed))
<1> DEFINE Good(x) == /\ Sound(x) /\ Kept(k, x.keys)
                      /\ \/ HasHigh(x.found)
                         \/ x.keys.health = "good" /\ ~(k.tested /\ ~Enough(k.passed))
<1>1. Good(Crash(k))
    <2>1. Kept(k, k)
        BY DEF Kept, SameDeployment
    <2> QED BY <2>1, CrashSound
<1>2. Good(Report(High, 0, Runtime(k, "none", FALSE)))
    <2>1. Runtime(k, "none", FALSE) \in Keys /\ Kept(k, Runtime(k, "none", FALSE))
        BY Running
    <2> QED BY <2>1, UncountedSound
<1>3. ASSUME NEW logs \in Seq(Reported), NEW perf \in Seq(Reported), NEW stats \in Seq(Reported)
      PROVE  Good(Analysis(logs, perf, stats, k))
    BY AnalysisReports
<1> SUFFICES Good(r)
    OBVIOUS
<1> HIDE DEF Good
<1>4. CASE r \in RuntimeAnalyzerUsual(k)
    <2>1. r = Analysis(None, None, None, k) \/ r = Report(High, 0, Runtime(k, "none", FALSE))
        BY <1>4 DEF RuntimeAnalyzerUsual
    <2>2. Good(Analysis(None, None, None, k))
        BY <1>3, Constants
    <2> QED BY <2>1, <2>2, <1>2
<1>5. CASE r \in RuntimeAnalyzer(k)
    <2> DEFINE perfs == IF k.slow THEN {None, Medium} ELSE {None}
               S1 == {Analysis(logs, perf, stats, k) :
                        logs \in {None, High, Medium, Low}, perf \in perfs,
                        stats \in {None, Medium, Medium \o Medium}}
               S2 == {Report(High, 0, Runtime(k, "none", FALSE)), Crash(k)}
    <2>1. CASE r \in S1
        <3>1. PICK logs \in {None, High, Medium, Low}, perf \in perfs,
                   stats \in {None, Medium, Medium \o Medium} :
                        r = Analysis(logs, perf, stats, k)
            BY <2>1
        <3>2. /\ logs \in Seq(Reported) /\ perf \in Seq(Reported)
              /\ stats \in Seq(Reported)
            <4>1. Medium \o Medium \in Seq(Reported)
                BY Constants, Joined
            <4> QED BY <4>1, Constants
        <3> QED BY <3>1, <3>2, <1>3
    <2>2. CASE r \in S2
        BY <2>2, <1>1, <1>2
    <2>3. RuntimeAnalyzer(k) = IF k.url THEN S1 \cup S2 ELSE {Crash(k)}
        BY DEF RuntimeAnalyzer
    <2> HIDE DEF S1, S2
    <2> QED BY <1>1, <1>5, <2>1, <2>2, <2>3
<1> QED BY <1>4, <1>5

-----------------------------------------------------------------------------
(* The engineering agents, the logs *)

LEMMA WarningFound ==
    ASSUME NEW k \in Keys
    PROVE  Warning(k) \in Seq(Reported)
BY Constants DEF Warning

LEMMA SaidFound ==
    ASSUME NEW found \in Seq(Reported)
    PROVE  Said(found) \in Seq(Reported)
BY Constants DEF Said

LEMMA LatencyFound ==
    ASSUME NEW sev \in Severities
    PROVE  <<Latency(sev)>> \in Seq(Reported) /\ <<Finding(sev)>> \in Seq(Reported)
BY DEF Latency, Finding, Reported

LEMMA SubstituteReports ==
    ASSUME NEW k \in Keys, NEW latency \in BOOLEAN, NEW r \in Substitute(latency, k)
    PROVE  Aside(k, r)
<1>1. PICK sev \in Severities : r = Plain(<<[sev |-> sev, latency |-> latency]>>, k)
    BY DEF Substitute, Severities
<1>2. [sev |-> sev, latency |-> latency] \in Reported
    BY DEF Reported
<1>3. <<[sev |-> sev, latency |-> latency]>> \in Seq(Reported)
    BY <1>2
<1> QED BY <1>1, <1>3, PlainAside

LEMMA BackendReports ==
    ASSUME NEW k \in Keys, NEW r \in BackendUsual(k) \cup Backend(k)
    PROVE  Aside(k, r)
<1>1. /\ Warning(k) \in Seq(Reported)
      /\ <<Latency("HIGH")>> \in Seq(Reported) /\ <<Latency("MEDIUM")>> \in Seq(Reported)
    BY WarningFound, LatencyFound DEF Severities
<1>2. /\ Warning(k) \o Low \in Seq(Reported)
      /\ Warning(k) \o <<Latency("HIGH")>> \in Seq(Reported)
      /\ Warning(k) \o <<Latency("MEDIUM")>> \in Seq(Reported)
    BY <1>1, Constants, Joined
<1>3. Warning(k) \o <<Latency("MEDIUM")>> \o Low \in Seq(Reported)
    BY <1>2, Constants, Joined
<1>4. CASE r \in Substitute(TRUE, k)
    BY <1>4, SubstituteReports
<1> QED BY <1>2, <1>3, <1>4, PlainAside DEF BackendUsual, Backend

LEMMA FrontendReports ==
    ASSUME NEW k \in Keys, NEW r \in FrontendUsual(k) \cup Frontend(k)
    PROVE  Aside(k, r)
<1>1. Warning(k) \o Low \in Seq(Reported) /\ Warning(k) \o High \in Seq(Reported)
    BY WarningFound, Constants, Joined
<1>2. Warning(k) \o Low \o Low \in Seq(Reported)
    BY <1>1, Constants, Joined
<1>3. CASE r \in Substitute(FALSE, k)
    BY <1>3, SubstituteReports
<1> QED BY <1>1, <1>2, <1>3, PlainAside DEF FrontendUsual, Frontend

LEMMA SecurityReports ==
    ASSUME NEW k \in Keys, NEW r \in SecurityUsual(k) \cup Security(k)
    PROVE  Aside(k, r)
<1>1. Warning(k) \o Low \in Seq(Reported) /\ Warning(k) \o High \in Seq(Reported)
    BY WarningFound, Constants, Joined
<1>2. Warning(k) \o High \o Low \in Seq(Reported)
    BY <1>1, Constants, Joined
<1>3. CASE r \in Substitute(FALSE, k)
    BY <1>3, SubstituteReports
<1>4. ASSUME NEW probes \in {None, High}, NEW cors \in {None, Low}
      PROVE  Aside(k, Plain(Said(Warning(k) \o probes \o cors), k))
    <2>1. probes \in Seq(Reported) /\ cors \in Seq(Reported)
        BY Constants
    <2>2. Warning(k) \o probes \in Seq(Reported)
        BY <2>1, WarningFound, Joined
    <2>3. Warning(k) \o probes \o cors \in Seq(Reported)
        BY <2>1, <2>2, Joined
    <2> QED BY <2>3, SaidFound, PlainAside
<1> DEFINE S1 == {Plain(Said(Warning(k) \o probes \o cors), k) :
                    probes \in {None, High}, cors \in {None, Low}}
<1>5. CASE r \in S1
    <2>1. PICK probes \in {None, High}, cors \in {None, Low} :
                r = Plain(Said(Warning(k) \o probes \o cors), k)
        BY <1>5
    <2> QED BY <2>1, <1>4
<1>6. CASE r \in {Plain(Warning(k) \o Low, k), Plain(Warning(k) \o High \o Low, k)}
    BY <1>1, <1>2, <1>6, PlainAside
<1>7. Security(k) = S1 \cup {Plain(Warning(k) \o High \o Low, k)} \cup Substitute(FALSE, k)
    BY DEF Security
<1>8. SecurityUsual(k) = {Plain(Warning(k) \o Low, k)}
    BY DEF SecurityUsual
<1> HIDE DEF S1
<1>9. r \in S1 \/ r \in Substitute(FALSE, k)
        \/ r \in {Plain(Warning(k) \o Low, k), Plain(Warning(k) \o High \o Low, k)}
    BY <1>7, <1>8
<1> QED BY <1>3, <1>5, <1>6, <1>9

LEMMA SreReports ==
    ASSUME NEW k \in Keys, NEW r \in SreUsual(k) \cup Sre(k)
    PROVE  Aside(k, r)
<1> DEFINE severity == {"HIGH", "MEDIUM", "LOW"}
           plains == {None} \cup {<<Finding(s)>> : s \in severity}
           checkouts == {None} \cup {<<Latency(s)>> : s \in severity}
<1>1. /\ \A plain \in plains : plain \in Seq(Reported)
      /\ \A checkout \in checkouts : checkout \in Seq(Reported)
    BY Constants, LatencyFound DEF Severities
<1>2. Warning(k) \o Low \in Seq(Reported) /\ Warning(k) \o <<Latency("MEDIUM")>> \in Seq(Reported)
    BY WarningFound, LatencyFound, Constants, Joined DEF Severities
<1>3. /\ Warning(k) \o Low \o <<Latency("LOW")>> \in Seq(Reported)
      /\ Warning(k) \o <<Latency("MEDIUM")>> \o Low \in Seq(Reported)
    BY <1>2, LatencyFound, Constants, Joined DEF Severities
<1>4. CASE r \in Substitute(TRUE, k)
    BY <1>4, SubstituteReports
<1> DEFINE S1 == {Plain(Said(Warning(k) \o plain \o checkout), k) :
                    plain \in plains, checkout \in checkouts}
<1>5. CASE r \in S1
    <2>1. PICK plain \in plains, checkout \in checkouts :
                r = Plain(Said(Warning(k) \o plain \o checkout), k)
        BY <1>5
    <2>2. plain \in Seq(Reported) /\ checkout \in Seq(Reported)
        BY <1>1
    <2>3. Warning(k) \o plain \in Seq(Reported)
        BY <2>2, WarningFound, Joined
    <2>4. Warning(k) \o plain \o checkout \in Seq(Reported)
        BY <2>2, <2>3, Joined
    <2> QED BY <2>1, <2>4, SaidFound, PlainAside
<1>6. CASE r \in {Plain(Warning(k) \o Low \o <<Latency("LOW")>>, k),
                  Plain(Warning(k) \o <<Latency("MEDIUM")>> \o Low, k)}
    BY <1>3, <1>6, PlainAside
<1>7. Sre(k) = S1 \cup {Plain(Warning(k) \o <<Latency("MEDIUM")>> \o Low, k)}
                  \cup Substitute(TRUE, k)
    BY DEF Sre
<1>8. SreUsual(k) = {Plain(Warning(k) \o Low \o <<Latency("LOW")>>, k)}
    BY DEF SreUsual
<1> HIDE DEF S1
<1>9. r \in S1 \/ r \in Substitute(TRUE, k)
        \/ r \in {Plain(Warning(k) \o Low \o <<Latency("LOW")>>, k),
                 Plain(Warning(k) \o <<Latency("MEDIUM")>> \o Low, k)}
    BY <1>7, <1>8
<1> QED BY <1>4, <1>5, <1>6, <1>9

LEMMA LogInspectorReports ==
    ASSUME NEW k \in Keys, NEW r \in LogInspectorUsual(k) \cup LogInspector(k)
    PROVE  Sound(r) /\ Kept(k, r.keys) /\ r.keys.health = k.health
<1> DEFINE Good(x) == Sound(x) /\ Kept(k, x.keys) /\ x.keys.health = k.health
<1>1. Observed(k) \in Keys /\ Kept(k, Observed(k)) /\ Observed(k).health = k.health
    BY DEF Keys, Kept, SameDeployment, Observed
<1>2. Kept(k, k)
    BY DEF Kept, SameDeployment
<1>3. High \o High \in Seq(Reported) /\ High \o Medium \in Seq(Reported)
    BY Constants, Joined
<1>4. Good(Plain(Low, k)) /\ Good(Plain(None, k)) /\ Good(Plain(High \o High, k))
    BY <1>2, <1>3, Constants, PlainSound
<1>5. /\ Good(Plain(High, Observed(k))) /\ Good(Plain(Medium, Observed(k)))
      /\ Good(Plain(High \o Medium, Observed(k)))
    BY <1>1, <1>3, Constants, PlainSound
<1> HIDE DEF Good
<1>6. Good(r)
    BY <1>4, <1>5 DEF LogInspectorUsual, LogInspector
<1> QED BY <1>6 DEF Good

LEMMA CorrelatorReports ==
    ASSUME NEW k \in Keys, NEW r \in CorrelatorUsual(k) \cup Correlator(k)
    PROVE  Aside(k, r)
<1> DEFINE chains == IF k.evidence THEN {None, High, Medium, High \o Medium} ELSE {None}
           narrative == IF Ollama THEN {None, Low} ELSE {None}
<1>1. CASE r \in {Plain(Said(c \o n), k) : c \in chains, n \in narrative}
    <2>1. PICK c \in chains, n \in narrative : r = Plain(Said(c \o n), k)
        BY <1>1
    <2>2. c \in Seq(Reported) /\ n \in Seq(Reported)
        <3>1. High \o Medium \in Seq(Reported)
            BY Constants, Joined
        <3> QED BY <3>1, Constants
    <2> QED BY <2>1, <2>2, Joined, SaidFound, PlainAside
<1>2. Aside(k, Plain(Low, k)) /\ Aside(k, Plain(None, k))
    BY Constants, PlainAside
<1> QED BY <1>1, <1>2 DEF CorrelatorUsual, Correlator

-----------------------------------------------------------------------------
(* Numbers *)

(* In a numbered list a finding that may be disputed has a number below the *)
(* counter, and every later finding a higher one.                           *)
Numbered(list, next) ==
    /\ \A i \in DOMAIN list : list[i].latency => list[i].id < next
    /\ \A i, j \in DOMAIN list : i < j /\ list[i].latency => list[i].id < list[j].id

Fresh(found, next) ==
    [i \in DOMAIN found |-> [id      |-> next + i - 1,
                             sev     |-> found[i].sev,
                             latency |-> found[i].latency]]

LEMMA Appended ==
    ASSUME NEW list \in Seq(Entry), NEW next \in Nat, NEW r, Sound(r)
    PROVE  LET longer == list \o Fresh(r.found, next)
           IN  /\ longer \in Seq(Entry)
               /\ next + r.bump \in Nat
               /\ HasHigh(list) => HasHigh(longer)
               /\ HasHigh(r.found) => HasHigh(longer)
               /\ \A i \in DOMAIN list : i \in DOMAIN longer /\ longer[i] = list[i]
               /\ Numbered(list, next) => Numbered(longer, next + r.bump)
<1> DEFINE new == Fresh(r.found, next)
           longer == list \o new
<1>1. /\ r.found \in Seq(Reported) /\ r.bump \in Nat
      /\ HasLatency(r.found) => r.bump = Len(r.found)
    BY DEF Sound, Reports
<1>2. /\ DOMAIN r.found = 1..Len(r.found) /\ Len(r.found) \in Nat
      /\ \A i \in 1..Len(r.found) : r.found[i] \in Reported
    BY <1>1
<1>3. ASSUME NEW i \in 1..Len(r.found)
      PROVE  /\ new[i] = [id |-> next + i - 1, sev |-> r.found[i].sev,
                          latency |-> r.found[i].latency]
             /\ new[i] \in Entry
             /\ new[i].id = next + i - 1
             /\ new[i].sev = r.found[i].sev /\ new[i].latency = r.found[i].latency
    <2>1. new[i] = [id |-> next + i - 1, sev |-> r.found[i].sev,
                    latency |-> r.found[i].latency]
        BY <1>2 DEF Fresh
    <2>2. next + i - 1 \in Nat /\ r.found[i] \in Reported
        BY <1>2
    <2> QED BY <2>1, <2>2 DEF Entry, Reported
<1>4. new \in Seq(Entry) /\ Len(new) = Len(r.found) /\ DOMAIN new = 1..Len(r.found)
    <2>1. new = [i \in 1..Len(r.found) |-> new[i]]
        BY <1>2 DEF Fresh
    <2> HIDE DEF new
    <2>2. new \in [1..Len(r.found) -> Entry]
        BY <2>1, <1>3
    <2> QED BY <2>2, <1>2
<1> HIDE DEF new
<1>5. /\ longer \in Seq(Entry) /\ Len(longer) = Len(list) + Len(new)
      /\ DOMAIN longer = 1..Len(longer) /\ DOMAIN list = 1..Len(list)
      /\ Len(list) \in Nat /\ Len(new) \in Nat
    BY <1>4
<1>6. \A i \in 1..Len(list) : i \in 1..Len(longer) /\ longer[i] = list[i]
    BY <1>4, <1>5
<1>7. \A i \in 1..Len(new) :
            Len(list) + i \in 1..Len(longer) /\ longer[Len(list) + i] = new[i]
    BY <1>4, <1>5
<1>8. \A i \in 1..Len(longer) :
            \/ i \in 1..Len(list) /\ longer[i] = list[i]
            \/ i - Len(list) \in 1..Len(new) /\ longer[i] = new[i - Len(list)]
    BY <1>5, <1>6, <1>7
<1> HIDE DEF longer
<1>9. HasHigh(list) => HasHigh(longer)
    BY <1>5, <1>6 DEF HasHigh
<1>10. HasHigh(r.found) => HasHigh(longer)
    <2> SUFFICES ASSUME NEW i \in DOMAIN r.found, r.found[i].sev = "HIGH"
                 PROVE  HasHigh(longer)
        BY DEF HasHigh
    <2>1. Len(list) + i \in DOMAIN longer /\ longer[Len(list) + i] = new[i]
        BY <1>2, <1>4, <1>5, <1>7
    <2>2. new[i].sev = "HIGH"
        BY <1>2, <1>3
    <2> QED BY <2>1, <2>2 DEF HasHigh
<1>11. ASSUME Numbered(list, next) PROVE Numbered(longer, next + r.bump)
    <2>1. ASSUME NEW i \in DOMAIN longer, longer[i].latency
          PROVE  longer[i].id < next + r.bump
        <3>1. CASE i \in 1..Len(list) /\ longer[i] = list[i]
            <4>1. list[i].id < next /\ list[i].id \in Nat
                <5>1. list[i] \in Entry
                    BY <3>1
                <5> QED BY <5>1, <3>1, <2>1, <1>5, <1>11 DEF Numbered, Entry
            <4> QED BY <4>1, <3>1, <1>1
        <3>2. CASE i - Len(list) \in 1..Len(new) /\ longer[i] = new[i - Len(list)]
            <4> DEFINE n == i - Len(list)
            <4>1. n \in 1..Len(r.found) /\ longer[i] = new[n]
                BY <3>2, <1>4
            <4> HIDE DEF n
            <4>2. r.found[n].latency /\ longer[i].id = next + n - 1
                BY <4>1, <1>3, <2>1
            <4>3. r.bump = Len(r.found)
                BY <4>1, <4>2, <1>1, <1>2 DEF HasLatency
            <4> QED BY <4>1, <4>2, <4>3, <1>2
        <3> QED BY <3>1, <3>2, <1>5, <1>8
    <2>2. ASSUME NEW i \in DOMAIN longer, NEW j \in DOMAIN longer, i < j, longer[i].latency
          PROVE  longer[i].id < longer[j].id
        <3>1. CASE i \in 1..Len(list) /\ j \in 1..Len(list)
            <4>1. longer[i] = list[i] /\ longer[j] = list[j]
                BY <3>1, <1>6
            <4> QED BY <4>1, <3>1, <2>2, <1>5, <1>11 DEF Numbered
        <3>2. CASE i \in 1..Len(list) /\ j - Len(list) \in 1..Len(new)
            <4> DEFINE n == j - Len(list)
            <4>1. longer[j] = new[n] /\ n \in 1..Len(r.found)
                BY <3>2, <1>4, <1>5, <1>7
            <4> HIDE DEF n
            <4>2. longer[i] = list[i] /\ longer[j].id = next + n - 1
                BY <3>2, <4>1, <1>3, <1>6
            <4>3. list[i].id < next /\ list[i].id \in Nat
                <5>1. list[i] \in Entry
                    BY <3>2
                <5> QED BY <5>1, <3>2, <4>2, <2>2, <1>5, <1>11 DEF Numbered, Entry
            <4> QED BY <4>1, <4>2, <4>3, <1>2
        <3>3. CASE i - Len(list) \in 1..Len(new) /\ j - Len(list) \in 1..Len(new)
            <4> DEFINE m == i - Len(list)
                       n == j - Len(list)
            <4>1. /\ longer[i] = new[m] /\ longer[j] = new[n]
                  /\ m \in 1..Len(r.found) /\ n \in 1..Len(r.found) /\ m < n
                BY <3>3, <2>2, <1>4, <1>5, <1>7
            <4> HIDE DEF m, n
            <4>2. longer[i].id = next + m - 1 /\ longer[j].id = next + n - 1
                BY <4>1, <1>3
            <4> QED BY <4>1, <4>2, <1>2
        <3> QED BY <3>1, <3>2, <3>3, <2>2, <1>5, <1>8
    <2> QED BY <2>1, <2>2 DEF Numbered
<1> QED BY <1>1, <1>5, <1>6, <1>9, <1>10, <1>11 DEF longer, new

(* Of the findings with one number there is a last one. *)
LEMMA LastOne ==
    ASSUME NEW list \in Seq(Entry), NEW id, NEW i0 \in DOMAIN list, list[i0].id = id
    PROVE  \E i \in DOMAIN list :
                /\ list[i].id = id
                /\ \A j \in DOMAIN list : list[j].id = id => j <= i
<1> DEFINE R == OpToRel(<, Nat)
           T == {n \in Nat : \E i \in DOMAIN list : list[i].id = id /\ n = Len(list) - i}
<1>1. DOMAIN list = 1..Len(list) /\ Len(list) \in Nat
    OBVIOUS
<1>2. T \subseteq Nat /\ Len(list) - i0 \in T
    BY <1>1
<1>3. IsWellFoundedOn(R, Nat)
    BY NatLessThanWellFounded
<1>4. \A x, y \in Nat : <<y, x>> \in R <=> y < x
    BY DEF OpToRel
<1> HIDE DEF R
<1>5. PICK x \in T : \A y \in T : ~(<<y, x>> \in R)
    <2> HIDE DEF T
    <2> QED BY <1>2, <1>3, WFMin
<1>6. PICK i \in DOMAIN list : list[i].id = id /\ x = Len(list) - i
    BY <1>5
<1>7. ASSUME NEW j \in DOMAIN list, list[j].id = id PROVE j <= i
    <2>1. Len(list) - j \in T
        BY <1>1, <1>7
    <2>2. ~(Len(list) - j < x)
        BY <2>1, <1>4, <1>5
    <2> QED BY <2>2, <1>1, <1>6
<1> QED BY <1>6, <1>7

-----------------------------------------------------------------------------
(* The inductive invariant *)

Phases ==
    /\ thread = "graph" => status = "RUNNING"
    /\ thread = "done" => node \in {"gate", "cleanup", "end"}
    /\ pass >= 1

Undecided == node \in Agents => judgedBy = "nobody"

(* A challenge names its finding by the number the finding has.             *)
Raised ==
    \A c \in challenges :
        c.of \in DOMAIN findings /\ findings[c.of].id = c.id /\ findings[c.of].latency

Counted == pass = 1 => Numbered(findings, fid)

AfterDeployer == {"backend", "frontend", "security", "sre", "tester", "api_validator",
                  "security_runtime", "runtime_analyzer", "log_inspector", "correlator",
                  "challenger", "qa_lead", "judge"}
AfterTester   == {"api_validator", "security_runtime", "runtime_analyzer", "log_inspector",
                  "correlator", "challenger", "qa_lead", "judge"}
AfterRuntime  == {"log_inspector", "correlator", "challenger", "qa_lead", "judge"}

(* Unless there is a HIGH finding, what the agents so far were to achieve   *)
(* they have achieved.                                                      *)
Successes ==
    /\ node \in AfterDeployer \/ (node = "planner" /\ engine = "simple") =>
            HasHigh(findings) \/ Deployed(keys)
    /\ node \in AfterTester => HasHigh(findings) \/ Judged(keys)
    /\ node \in AfterRuntime =>
            HasHigh(findings) \/ (keys.health = "good" /\ Enough(keys.passed))

(* A crash of this pass is among the findings. *)
Noticed == (silent # {} => HasHigh(findings)) /\ ApprovedOnThisPass

Inv == /\ TypeOK /\ Phases /\ Undecided /\ Raised /\ Counted /\ Successes /\ Noticed
       /\ ApprovedMeansPassed /\ ChallengesHitTheirFinding /\ ResultIsRecorded

LEMMA InitInv == Init => Inv
<1> SUFFICES ASSUME Init PROVE Inv
    OBVIOUS
<1>0. /\ findings = <<>> /\ challenges = {} /\ fid = 1 /\ keys = NoKeys
      /\ returned = 0 /\ pass = 1 /\ deviations = 0
      /\ thread = "graph" /\ status = "RUNNING" /\ judgedBy = "nobody"
    BY Zenon DEF Init
<1>1. TypeOK
    <2>1. keys \in Keys
        BY <1>0 DEF NoKeys, Keys
    <2>2. findings \in Seq(Entry) /\ fid \in Nat /\ returned \in Nat /\ pass \in Nat
            /\ deviations \in Nat
        BY <1>0
    <2>3. /\ engine \in Engines /\ node \in Nodes /\ challenges \subseteq Challenge
          /\ risk \in {"HIGH", "MEDIUM", "LOW"} /\ decision \in Decisions
          /\ human \in {"none", "APPROVE", "REJECT"} /\ docker \subseteq Host
        BY DEF Init, Nodes, Agents, Decisions
    <2>4. /\ thread \in {"graph", "done"}
          /\ status \in {"RUNNING", "FAILED", "COMPLETED", "WAITING_HUMAN_APPROVAL"}
          /\ stored \subseteq Nat /\ disputes \subseteq [row : Nat, of : Nat]
          /\ refused \in BOOLEAN
          /\ judgedBy \in {"nobody", "demo", "model", "rules", "nothing"}
          /\ silent \subseteq Witnesses
        BY DEF Init
    <2> QED BY <2>1, <2>2, <2>3, <2>4 DEF TypeOK
<1>2. Numbered(findings, fid)
    <2>1. DOMAIN findings = {}
        BY <1>0
    <2> QED BY <2>1 DEF Numbered
<1>3. Phases /\ Undecided /\ Raised /\ Successes
    <2>1. Phases /\ Undecided /\ Raised
        BY <1>0 DEF Phases, Undecided, Raised
    <2>2. node = "repo_validator"
        BY DEF Init
    <2> QED BY <2>1, <2>2 DEF Successes, AfterDeployer, AfterTester, AfterRuntime
<1>4. Noticed /\ ApprovedMeansPassed /\ ChallengesHitTheirFinding /\ ResultIsRecorded
    BY DEF Init, Noticed, ApprovedOnThisPass, ApprovedMeansPassed, ChallengesHitTheirFinding,
           ResultIsRecorded
<1> QED BY <1>1, <1>2, <1>3, <1>4 DEF Inv, Counted

LEMMA DeviateTyped ==
    ASSUME TypeOK, NEW rare \in BOOLEAN, Deviate(rare)
    PROVE  deviations' \in Nat
BY DEF TypeOK, Deviate

LEMMA Merged ==
    ASSUME TypeOK, NEW report, Sound(report), Merge(report)
    PROVE  /\ findings' \in Seq(Entry) /\ fid' \in Nat
           /\ keys' = report.keys /\ keys' \in Keys
           /\ HasHigh(findings) => HasHigh(findings')
           /\ HasHigh(report.found) => HasHigh(findings')
           /\ \A i \in DOMAIN findings : i \in DOMAIN findings' /\ findings'[i] = findings[i]
           /\ Numbered(findings, fid) => Numbered(findings', fid')
           /\ silent' \subseteq Witnesses
           /\ node \notin Witnesses => silent' = silent
           /\ silent' # {} => silent # {} \/ HasHigh(findings')
<1>1. findings \in Seq(Entry) /\ fid \in Nat
    BY DEF TypeOK
<1>2. findings' = findings \o Fresh(report.found, fid) /\ fid' = fid + report.bump
    BY DEF Merge, Fresh
<1>3. keys' = report.keys /\ report.keys \in Keys
    BY DEF Merge, Sound, Reports
<1>4. silent' = IF node \in Witnesses /\ report = Crash(keys) THEN silent \cup {node} ELSE silent
    BY DEF Merge
<1>5. silent' \subseteq Witnesses /\ (node \notin Witnesses => silent' = silent)
    BY <1>4 DEF TypeOK
<1>6. silent' # {} => silent # {} \/ HasHigh(report.found)
    <2>1. HasHigh(Crash(keys).found)
        BY CrashSound DEF TypeOK
    <2> QED BY <1>4, <2>1
<1> QED BY <1>1, <1>2, <1>3, <1>5, <1>6, Appended

(* A step that merges a report and decides nothing. *)
LEMMA MergeStep ==
    ASSUME Inv, NEW report, Sound(report), Merge(report),
           node' \in Nodes, node' \in Agents => judgedBy = "nobody",
           thread = "done" => node' \in {"gate", "cleanup", "end"},
           docker' \subseteq Host, refused' \in BOOLEAN, deviations' \in Nat,
           UNCHANGED <<challenges, risk, decision, human, judgedBy, engine, outer, pass>>,
           Successes', ApprovedMeansPassed', ApprovedOnThisPass'
    PROVE  Inv'
<1>1. /\ findings' \in Seq(Entry) /\ fid' \in Nat /\ keys' \in Keys
      /\ \A i \in DOMAIN findings : i \in DOMAIN findings' /\ findings'[i] = findings[i]
      /\ Numbered(findings, fid) => Numbered(findings', fid')
      /\ silent' \subseteq Witnesses
    BY Merged DEF Inv
<1>2. TypeOK'
    BY <1>1 DEF Inv, TypeOK, outer
<1>7. Noticed'
    BY Merged DEF Inv, Noticed
<1>3. Phases' /\ Undecided'
    BY DEF Inv, Phases, Undecided, outer
<1>4. Raised'
    BY <1>1 DEF Inv, Raised
<1>5. Counted'
    BY <1>1 DEF Inv, Counted
<1>6. ChallengesHitTheirFinding' /\ ResultIsRecorded'
    BY DEF Inv, ChallengesHitTheirFinding, ResultIsRecorded, outer
<1> QED BY <1>2, <1>3, <1>4, <1>5, <1>6, <1>7 DEF Inv

(* The turn of an agent that decides nothing, whatever it reports. *)
LEMMA AgentStep ==
    ASSUME Inv, NEW report, Sound(report), Merge(report),
           node \in Agents, node' \in Nodes,
           docker' \subseteq Host, refused' \in BOOLEAN, deviations' \in Nat,
           UNCHANGED <<challenges, risk, decision, human, judgedBy>>, Quiet,
           Successes'
    PROVE  Inv'
<1>1. judgedBy = "nobody" /\ thread # "done"
    BY DEF Inv, Undecided, Phases, Agents
<1>2. ApprovedMeansPassed' /\ ApprovedOnThisPass'
    BY <1>1 DEF ApprovedMeansPassed, ApprovedOnThisPass
<1> QED BY <1>1, <1>2, MergeStep DEF Quiet

LEMMA FollowingNodes ==
    ASSUME NEW n \in Agents \ {"repo_validator", "judge"}
    PROVE  Following[n] \in Nodes
BY DEF Following, Agents, Nodes

(* The turn of an agent that leaves the keys alone. *)
LEMMA AsideSteps ==
    ASSUME Inv, NEW report, Aside(keys, report), Merge(report),
           node \in {"planner", "backend", "frontend", "security", "sre", "api_validator",
                     "security_runtime", "correlator"},
           node' = Following[node], UNCHANGED engine
    PROVE  Sound(report) /\ Successes'
<1>1. Sound(report) /\ keys' = keys /\ (HasHigh(findings) => HasHigh(findings'))
    BY Merged DEF Aside, Inv
<1>2. Successes
    BY DEF Inv
<1>3. /\ node' \in AfterDeployer \/ (node' = "planner" /\ engine' = "simple") =>
            node \in AfterDeployer \/ (node = "planner" /\ engine = "simple")
      /\ node' \in AfterTester => node \in AfterTester
      /\ node' \in AfterRuntime => node \in AfterRuntime
    BY DEF Following, AfterDeployer, AfterTester, AfterRuntime
<1> QED BY <1>1, <1>2, <1>3 DEF Successes

LEMMA AsideStep ==
    ASSUME Inv, NEW report, Aside(keys, report), Merge(report),
           node \in {"planner", "backend", "frontend", "security", "sre", "api_validator",
                     "security_runtime", "correlator"},
           node' = Following[node], NEW rare \in BOOLEAN, Deviate(rare),
           UNCHANGED <<challenges, risk, decision, human, docker, refused, judgedBy>>, Quiet
    PROVE  Inv'
<1>1. UNCHANGED engine
    BY DEF Quiet
<1>2. Sound(report) /\ Successes'
    BY <1>1, AsideSteps
<1>3. node \in Agents /\ node' \in Nodes
    BY FollowingNodes DEF Agents
<1>4. deviations' \in Nat
    BY DeviateTyped DEF Inv
<1>5. docker' \subseteq Host /\ refused' \in BOOLEAN
    BY DEF Inv, TypeOK
<1> QED BY <1>2, <1>3, <1>4, <1>5, AgentStep

-----------------------------------------------------------------------------
(* Every step preserves it *)

LEMMA RepoValidatorStep == Inv /\ RepoValidator => Inv'
<1> SUFFICES ASSUME Inv, RepoValidator PROVE Inv'
    OBVIOUS
<1>1. PICK fails \in BOOLEAN :
        /\ Deviate(fails)
        /\ Merge(Plain(IF fails THEN High ELSE None, keys))
        /\ refused' = fails
        /\ node' = IF engine = "simple" THEN IF fails THEN "end" ELSE "builder"
                   ELSE "planner"
    BY DEF RepoValidator
<1> DEFINE found == IF fails THEN High ELSE None
<1>2. found \in Seq(Reported) /\ keys \in Keys
    BY Constants DEF Inv, TypeOK
<1>3. Sound(Plain(found, keys)) /\ Merge(Plain(found, keys))
    <2> HIDE DEF found
    <2>1. Merge(Plain(found, keys))
        BY <1>1 DEF found
    <2> QED BY <1>2, <2>1, PlainSound
<1>4. node' \in {"end", "builder", "planner"} /\ (node' = "planner" => engine # "simple")
    BY <1>1
<1>5. Successes'
    BY <1>4 DEF Successes, AfterDeployer, AfterTester, AfterRuntime, RepoValidator, Quiet
<1>6. node \in Agents /\ node' \in Nodes /\ docker' \subseteq Host /\ refused' \in BOOLEAN
    BY <1>1, <1>4 DEF RepoValidator, Agents, Nodes, Inv, TypeOK
<1>7. deviations' \in Nat
    BY <1>1, DeviateTyped DEF Inv
<1>8. UNCHANGED <<challenges, risk, decision, human, judgedBy>> /\ Quiet
    BY DEF RepoValidator
<1> HIDE DEF found
<1> QED BY <1>3, <1>5, <1>6, <1>7, <1>8, AgentStep

LEMMA AsideTurns ==
    Inv /\ (\/ Planner \/ RunBackend \/ RunFrontend \/ RunSecurity \/ RunSre
            \/ RunApiValidator \/ RunSecurityRuntime \/ RunCorrelator) => Inv'
<1> SUFFICES ASSUME Inv, \/ Planner \/ RunBackend \/ RunFrontend \/ RunSecurity \/ RunSre
                         \/ RunApiValidator \/ RunSecurityRuntime \/ RunCorrelator
             PROVE  Inv'
    OBVIOUS
<1>k. keys \in Keys
    BY DEF Inv, TypeOK
<1> DEFINE Asides == {"planner", "backend", "frontend", "security", "sre", "api_validator",
                      "security_runtime", "correlator"}
<1>1. /\ node \in Asides /\ node' = Following[node]
      /\ UNCHANGED <<challenges, risk, decision, human, docker, refused, judgedBy>> /\ Quiet
    BY DEF Planner, RunBackend, RunFrontend, RunSecurity, RunSre, RunApiValidator,
           RunSecurityRuntime, RunCorrelator, Turn
<1>2. \E rare \in BOOLEAN : \E report : Deviate(rare) /\ Merge(report) /\ Aside(keys, report)
    <2>1. CASE Planner
        <3>1. PICK rare \in BOOLEAN, report \in {Plain(None, keys)} \cup {} :
                    Deviate(rare) /\ Merge(report)
            BY <2>1 DEF Planner, Turn
        <3>2. Aside(keys, report)
            BY <1>k, PlainAside, Constants
        <3> QED BY <3>1, <3>2
    <2>2. CASE RunBackend
        <3>1. PICK rare \in BOOLEAN, report \in BackendUsual(keys) \cup Backend(keys) :
                    Deviate(rare) /\ Merge(report)
            BY <2>2 DEF RunBackend, Turn
        <3> QED BY <3>1, <1>k, BackendReports
    <2>3. CASE RunFrontend
        <3>1. PICK rare \in BOOLEAN, report \in FrontendUsual(keys) \cup Frontend(keys) :
                    Deviate(rare) /\ Merge(report)
            BY <2>3 DEF RunFrontend, Turn
        <3> QED BY <3>1, <1>k, FrontendReports
    <2>4. CASE RunSecurity
        <3>1. PICK rare \in BOOLEAN, report \in SecurityUsual(keys) \cup Security(keys) :
                    Deviate(rare) /\ Merge(report)
            BY <2>4 DEF RunSecurity, Turn
        <3> QED BY <3>1, <1>k, SecurityReports
    <2>5. CASE RunSre
        <3>1. PICK rare \in BOOLEAN, report \in SreUsual(keys) \cup Sre(keys) :
                    Deviate(rare) /\ Merge(report)
            BY <2>5 DEF RunSre, Turn
        <3> QED BY <3>1, <1>k, SreReports
    <2>6. CASE RunApiValidator
        <3>1. PICK rare \in BOOLEAN, report \in ApiValidatorUsual(keys) \cup ApiValidator(keys) :
                    Deviate(rare) /\ Merge(report)
            BY <2>6 DEF RunApiValidator, Turn
        <3> QED BY <3>1, <1>k, ApiValidatorReports
    <2>7. CASE RunSecurityRuntime
        <3>1. PICK rare \in BOOLEAN,
                   report \in SecurityRuntimeUsual(keys) \cup SecurityRuntime(keys) :
                    Deviate(rare) /\ Merge(report)
            BY <2>7 DEF RunSecurityRuntime, Turn
        <3> QED BY <3>1, <1>k, SecurityRuntimeReports
    <2>8. CASE RunCorrelator
        <3>1. PICK rare \in BOOLEAN, report \in CorrelatorUsual(keys) \cup Correlator(keys) :
                    Deviate(rare) /\ Merge(report)
            BY <2>8 DEF RunCorrelator, Turn
        <3> QED BY <3>1, <1>k, CorrelatorReports
    <2> QED BY <2>1, <2>2, <2>3, <2>4, <2>5, <2>6, <2>7, <2>8
<1>3. PICK rare \in BOOLEAN : \E report : Deviate(rare) /\ Merge(report) /\ Aside(keys, report)
    BY <1>2
<1>4. PICK report : Deviate(rare) /\ Merge(report) /\ Aside(keys, report)
    BY <1>3
<1> QED BY <1>1, <1>4, AsideStep

LEMMA BuilderStep == Inv /\ RunBuilder => Inv'
<1> SUFFICES ASSUME Inv, RunBuilder PROVE Inv'
    OBVIOUS
<1>k. keys \in Keys
    BY DEF Inv, TypeOK
<1>1. \E report : Merge(report) /\ Sound(report)
    <2>1. \E report \in Builder(keys) \cup {Built(keys)} \cup CloneFails(keys) : Merge(report)
        BY DEF RunBuilder
    <2> QED BY <2>1, <1>k, BuilderReports
<1>2. PICK report : Merge(report) /\ Sound(report)
    BY <1>1
<1>3. docker' \subseteq Host
    <2>1. docker \subseteq Host
        BY DEF Inv, TypeOK
    <2>2. \/ docker' = docker \cup {"workspace", "image"}
          \/ docker' = docker
          \/ \E made \in SUBSET {"workspace", "image"} : docker' = docker \cup made
        BY DEF RunBuilder
    <2> QED BY <2>1, <2>2 DEF Host
<1>4. deviations' \in Nat
    <2>1. UNCHANGED deviations \/ \E rare \in BOOLEAN : Deviate(rare)
        BY DEF RunBuilder
    <2> QED BY <2>1, DeviateTyped DEF Inv, TypeOK
<1>5. node = "builder" /\ node' = "deployer"
    BY DEF RunBuilder, Following
<1>6. Successes'
    BY <1>5 DEF Successes, AfterDeployer, AfterTester, AfterRuntime
<1>7. /\ UNCHANGED <<challenges, risk, decision, human, judgedBy>> /\ Quiet
      /\ refused' \in BOOLEAN
    BY DEF RunBuilder, Inv, TypeOK
<1>8. node \in Agents /\ node' \in Nodes
    BY <1>5 DEF Agents, Nodes
<1> QED BY <1>2, <1>3, <1>4, <1>6, <1>7, <1>8, AgentStep

LEMMA DeployerStep == Inv /\ RunDeployer => Inv'
<1> SUFFICES ASSUME Inv, RunDeployer PROVE Inv'
    OBVIOUS
<1>k. keys \in Keys
    BY DEF Inv, TypeOK
<1> DEFINE image == "image" \in docker
           free == "container" \notin docker
           usual == DeployerUsual(keys, image, free)
<1>1. \E report \in {usual} \cup Deployer(keys, image, free) : Merge(report)
    BY DEF RunDeployer
<1>2. PICK report : /\ Merge(report) /\ Sound(report)
                    /\ HasHigh(report.found) \/ Deployed(report.keys)
    <2>1. image \in BOOLEAN /\ free \in BOOLEAN
        OBVIOUS
    <2> HIDE DEF image, free
    <2> QED BY <1>1, <1>k, <2>1, DeployerReports
<1>3. docker' \subseteq Host
    <2>1. docker \subseteq Host
        BY DEF Inv, TypeOK
    <2>2. docker' \subseteq docker \cup {"container"}
        <3> HIDE DEF usual
        <3> QED BY DEF RunDeployer, usual
    <2> QED BY <2>1, <2>2 DEF Host
<1>4. deviations' \in Nat
    <2>1. UNCHANGED deviations \/ Deviate(TRUE)
        BY DEF RunDeployer
    <2> QED BY <2>1, DeviateTyped DEF Inv, TypeOK
<1>5. node = "deployer" /\ node' \in {"planner", "backend"}
    BY DEF RunDeployer, Following
<1>6. Successes'
    <2>1. HasHigh(findings') \/ Deployed(keys')
        BY <1>2, Merged DEF Inv
    <2> QED BY <1>5, <2>1 DEF Successes, AfterTester, AfterRuntime
<1>7. /\ UNCHANGED <<challenges, risk, decision, human, judgedBy>> /\ Quiet
      /\ refused' \in BOOLEAN
    BY DEF RunDeployer, Inv, TypeOK
<1>8. node \in Agents /\ node' \in Nodes
    BY <1>5 DEF Agents, Nodes
<1> QED BY <1>2, <1>3, <1>4, <1>6, <1>7, <1>8, AgentStep

LEMMA TesterStep == Inv /\ RunTester => Inv'
<1> SUFFICES ASSUME Inv, RunTester PROVE Inv'
    OBVIOUS
<1>k. keys \in Keys
    BY DEF Inv, TypeOK
<1>1. PICK rare \in BOOLEAN, report \in TesterUsual(keys) \cup Tester(keys) :
            Deviate(rare) /\ Merge(report)
    BY DEF RunTester, Turn
<1>2. /\ Sound(report) /\ SameDeployment(keys, report.keys)
      /\ HasHigh(report.found) \/ Judged(report.keys)
    BY <1>1, <1>k, TesterReports
<1>3. node = "tester" /\ node' = "api_validator"
    BY DEF RunTester, Turn, Following
<1>4. Successes'
    <2>1. /\ HasHigh(findings') \/ Judged(keys')
          /\ HasHigh(findings) => HasHigh(findings')
          /\ keys' = report.keys
        BY <1>1, <1>2, Merged DEF Inv
    <2>2. HasHigh(findings) \/ Deployed(keys)
        BY <1>3 DEF Inv, Successes, AfterDeployer
    <2>3. HasHigh(findings') \/ Deployed(keys')
        BY <1>2, <2>1, <2>2 DEF Deployed, SameDeployment
    <2> QED BY <1>3, <2>1, <2>3 DEF Successes, AfterRuntime
<1>5. deviations' \in Nat
    BY <1>1, DeviateTyped DEF Inv
<1>6. /\ UNCHANGED <<challenges, risk, decision, human, judgedBy>> /\ Quiet
      /\ docker' \subseteq Host /\ refused' \in BOOLEAN
    BY DEF RunTester, Turn, Inv, TypeOK
<1>7. node \in Agents /\ node' \in Nodes
    BY <1>3 DEF Agents, Nodes
<1> QED BY <1>1, <1>2, <1>4, <1>5, <1>6, <1>7, AgentStep

LEMMA RuntimeStep == Inv /\ RunRuntimeAnalyzer => Inv'
<1> SUFFICES ASSUME Inv, RunRuntimeAnalyzer PROVE Inv'
    OBVIOUS
<1>k. keys \in Keys
    BY DEF Inv, TypeOK
<1>1. PICK rare \in BOOLEAN, report \in RuntimeAnalyzerUsual(keys) \cup RuntimeAnalyzer(keys) :
            Deviate(rare) /\ Merge(report)
    BY DEF RunRuntimeAnalyzer, Turn
<1>2. /\ Sound(report) /\ Kept(keys, report.keys)
      /\ \/ HasHigh(report.found)
         \/ report.keys.health = "good" /\ ~(keys.tested /\ ~Enough(keys.passed))
    BY <1>1, <1>k, RuntimeAnalyzerReports
<1>3. node = "runtime_analyzer" /\ node' = "log_inspector"
    BY DEF RunRuntimeAnalyzer, Turn, Following
<1>4. Successes'
    <2>1. /\ HasHigh(report.found) => HasHigh(findings')
          /\ HasHigh(findings) => HasHigh(findings')
          /\ keys' = report.keys
        BY <1>1, <1>2, Merged DEF Inv
    <2>2. HasHigh(findings) \/ (Deployed(keys) /\ Judged(keys))
        BY <1>3 DEF Inv, Successes, AfterDeployer, AfterTester
    <2>3. HasHigh(findings') \/ Deployed(keys')
        BY <1>2, <2>1, <2>2 DEF Deployed, SameDeployment, Kept
    <2>4. HasHigh(findings') \/ Judged(keys')
        BY <1>2, <2>1, <2>2 DEF Judged, Kept
    <2>5. HasHigh(findings') \/ (keys'.health = "good" /\ Enough(keys'.passed))
        BY <1>2, <2>1, <2>2 DEF Judged, Kept
    <2> QED BY <1>3, <2>3, <2>4, <2>5 DEF Successes
<1>5. deviations' \in Nat
    BY <1>1, DeviateTyped DEF Inv
<1>6. /\ UNCHANGED <<challenges, risk, decision, human, judgedBy>> /\ Quiet
      /\ docker' \subseteq Host /\ refused' \in BOOLEAN
    BY DEF RunRuntimeAnalyzer, Turn, Inv, TypeOK
<1>7. node \in Agents /\ node' \in Nodes
    BY <1>3 DEF Agents, Nodes
<1> QED BY <1>1, <1>2, <1>4, <1>5, <1>6, <1>7, AgentStep

LEMMA LogInspectorStep == Inv /\ RunLogInspector => Inv'
<1> SUFFICES ASSUME Inv, RunLogInspector PROVE Inv'
    OBVIOUS
<1>k. keys \in Keys
    BY DEF Inv, TypeOK
<1>1. PICK rare \in BOOLEAN, report \in LogInspectorUsual(keys) \cup LogInspector(keys) :
            Deviate(rare) /\ Merge(report)
    BY DEF RunLogInspector, Turn
<1>2. Sound(report) /\ Kept(keys, report.keys) /\ report.keys.health = keys.health
    BY <1>1, <1>k, LogInspectorReports
<1>3. node = "log_inspector" /\ node' = "correlator"
    BY DEF RunLogInspector, Turn, Following
<1>4. Successes'
    <2>1. (HasHigh(findings) => HasHigh(findings')) /\ keys' = report.keys
        BY <1>1, <1>2, Merged DEF Inv
    <2>2. \/ HasHigh(findings)
          \/ Deployed(keys) /\ Judged(keys) /\ keys.health = "good" /\ Enough(keys.passed)
        BY <1>3 DEF Inv, Successes, AfterDeployer, AfterTester, AfterRuntime
    <2>3. HasHigh(findings') \/ Deployed(keys')
        BY <1>2, <2>1, <2>2 DEF Deployed, SameDeployment, Kept
    <2>4. HasHigh(findings') \/ Judged(keys')
        BY <1>2, <2>1, <2>2 DEF Judged, Kept
    <2>5. HasHigh(findings') \/ (keys'.health = "good" /\ Enough(keys'.passed))
        BY <1>2, <2>1, <2>2 DEF Kept
    <2> QED BY <2>3, <2>4, <2>5 DEF Successes
<1>5. deviations' \in Nat
    BY <1>1, DeviateTyped DEF Inv
<1>6. /\ UNCHANGED <<challenges, risk, decision, human, judgedBy>> /\ Quiet
      /\ docker' \subseteq Host /\ refused' \in BOOLEAN
    BY DEF RunLogInspector, Turn, Inv, TypeOK
<1>7. node \in Agents /\ node' \in Nodes
    BY <1>3 DEF Agents, Nodes
<1> QED BY <1>1, <1>2, <1>4, <1>5, <1>6, <1>7, AgentStep

LEMMA ChallengerStep == Inv /\ Challenger => Inv'
<1> SUFFICES ASSUME Inv, Challenger PROVE Inv'
    OBVIOUS
<1>1. PICK disputed \in {{}, {i \in DOMAIN findings : findings[i].latency}} :
        challenges' = challenges \cup {[id |-> findings[i].id, of |-> i] : i \in disputed}
    BY DEF Challenger
<1>2. node = "challenger" /\ node' = "qa_lead"
    BY DEF Challenger, Following
<1>3. /\ UNCHANGED <<findings, fid, keys, risk, decision, human, docker, refused, judgedBy,
                     silent, deviations, engine, outer, pass>>
    BY DEF Challenger, Quiet
<1>4. \A i \in disputed : i \in DOMAIN findings /\ findings[i].latency
    BY <1>1
<1>5. challenges' \subseteq Challenge
    <2>1. \A i \in DOMAIN findings : i \in Nat /\ findings[i].id \in Nat
        <3>1. findings \in Seq(Entry)
            BY DEF Inv, TypeOK
        <3>2. \A i \in DOMAIN findings : i \in Nat /\ findings[i] \in Entry
            BY <3>1
        <3> QED BY <3>2 DEF Entry
    <2> QED BY <1>1, <1>4, <2>1 DEF Inv, TypeOK, Challenge
<1>6. TypeOK'
    BY <1>2, <1>3, <1>5 DEF Inv, TypeOK, outer, Nodes, Agents
<1>7. Raised'
    <2> SUFFICES ASSUME NEW c \in challenges'
                 PROVE  /\ c.of \in DOMAIN findings /\ findings[c.of].id = c.id
                        /\ findings[c.of].latency
        BY <1>3 DEF Raised
    <2>1. CASE c \in challenges
        BY <2>1 DEF Inv, Raised
    <2>2. CASE \E i \in disputed : c = [id |-> findings[i].id, of |-> i]
        BY <2>2, <1>4
    <2> QED BY <2>1, <2>2, <1>1
<1>8. Phases' /\ Undecided' /\ Counted'
    <2>1. thread # "done" /\ judgedBy = "nobody"
        BY <1>2 DEF Inv, Phases, Undecided, Agents
    <2> QED BY <2>1, <1>3 DEF Inv, Phases, Undecided, Counted, outer
<1>9. Successes'
    BY <1>2, <1>3 DEF Inv, Successes, AfterDeployer, AfterTester, AfterRuntime
<1>10. Noticed' /\ ApprovedMeansPassed' /\ ChallengesHitTheirFinding' /\ ResultIsRecorded'
    <2>1. thread # "done"
        BY <1>2 DEF Inv, Phases
    <2> QED BY <2>1, <1>3 DEF Inv, Noticed, ApprovedOnThisPass, ApprovedMeansPassed,
                              ChallengesHitTheirFinding, ResultIsRecorded, outer
<1> QED BY <1>6, <1>7, <1>8, <1>9, <1>10 DEF Inv

LEMMA QaLeadStep == Inv /\ QaLead => Inv'
<1> SUFFICES ASSUME Inv, QaLead PROVE Inv'
    OBVIOUS
<1>1. node = "qa_lead" /\ node' = "judge"
    BY DEF QaLead, Following
<1>2. UNCHANGED <<findings, challenges, fid, keys, decision, human, docker, refused, judgedBy,
                  silent, engine, outer, pass>>
    BY DEF QaLead, Quiet
<1>3. risk' \in {"HIGH", "MEDIUM", "LOW"} /\ deviations' \in Nat
    <2>1. PICK rare \in BOOLEAN : Deviate(rare) /\ risk' = IF rare THEN "LOW" ELSE Risk(findings)
        BY DEF QaLead
    <2>2. Risk(findings) \in {"HIGH", "MEDIUM", "LOW"}
        BY DEF Risk
    <2> QED BY <2>1, <2>2, DeviateTyped DEF Inv
<1>4. TypeOK'
    BY <1>1, <1>2, <1>3 DEF Inv, TypeOK, outer, Nodes, Agents
<1>5. Phases' /\ Undecided' /\ Counted' /\ Raised'
    <2>1. thread # "done" /\ judgedBy = "nobody"
        BY <1>1 DEF Inv, Phases, Undecided, Agents
    <2> QED BY <2>1, <1>2 DEF Inv, Phases, Undecided, Counted, Raised, outer
<1>6. Successes'
    BY <1>1, <1>2 DEF Inv, Successes, AfterDeployer, AfterTester, AfterRuntime
<1>7. Noticed' /\ ApprovedMeansPassed' /\ ChallengesHitTheirFinding' /\ ResultIsRecorded'
    BY <1>2 DEF Inv, Noticed, ApprovedOnThisPass, ApprovedMeansPassed, ChallengesHitTheirFinding,
                ResultIsRecorded, outer
<1> QED BY <1>4, <1>5, <1>6, <1>7 DEF Inv

(* What the rules approve has no HIGH finding. *)
LEMMA RulesApprove ==
    ASSUME NEW f, NEW c, NEW k, NEW x, Rules(f, c, x, k) = "APPROVE"
    PROVE  ~HasHigh(f)
<1>1. Count(f, "HIGH") = {}
    BY DEF Rules
<1> QED BY <1>1 DEF Count, HasHigh

LEMMA JudgeStep == Inv /\ Judge => Inv'
<1> SUFFICES ASSUME Inv, Judge PROVE Inv'
    OBVIOUS
<1>1. PICK verdict \in Verdicts \cup Misfits :
        /\ Deviate(verdict.rare)
        /\ decision' = verdict.says
        /\ judgedBy' = verdict.by
        /\ node' = IF verdict.says \in {"APPROVE", "REJECT"} THEN "cleanup" ELSE "gate"
    BY DEF Judge
<1>2. /\ verdict.says \in {"APPROVE", "REJECT", "REVIEW_REQUIRED"}
      /\ verdict.by \in {"demo", "model", "rules", "nothing"}
      /\ verdict.rare \in BOOLEAN
      /\ verdict.by = "rules" => verdict.says = Rules(findings, challenges, risk, keys)
    <2>1. Rules(findings, challenges, risk, keys) \in {"APPROVE", "REVIEW_REQUIRED"}
        BY DEF Rules
    <2>2. CASE verdict \in Verdicts
        <3>1. \/ verdict = [says |-> "APPROVE", by |-> "demo", rare |-> FALSE]
              \/ verdict = [says |-> Rules(findings, challenges, risk, keys), by |-> "rules",
                            rare |-> FALSE]
              \/ \E d \in Decisions \ {""} : verdict = [says |-> d, by |-> "model", rare |-> FALSE]
            BY <2>2 DEF Verdicts
        <3>2. CASE verdict = [says |-> "APPROVE", by |-> "demo", rare |-> FALSE]
            BY <3>2
        <3>3. CASE verdict = [says |-> Rules(findings, challenges, risk, keys), by |-> "rules",
                              rare |-> FALSE]
            BY <3>3, <2>1
        <3>4. CASE \E d \in Decisions \ {""} :
                        verdict = [says |-> d, by |-> "model", rare |-> FALSE]
            <4>1. PICK d \in Decisions \ {""} : verdict = [says |-> d, by |-> "model", rare |-> FALSE]
                BY <3>4
            <4>2. d \in {"APPROVE", "REJECT", "REVIEW_REQUIRED"}
                BY DEF Decisions
            <4> QED BY <4>1, <4>2
        <3> QED BY <3>1, <3>2, <3>3, <3>4
    <2>3. CASE verdict \in Misfits
        <3>1. \/ \E d \in {"APPROVE", "REVIEW_REQUIRED"} :
                    verdict = [says |-> d, by |-> "nothing", rare |-> TRUE]
              \/ \E d \in {"APPROVE", "REJECT"} : verdict = [says |-> d, by |-> "model", rare |-> TRUE]
            BY <2>3 DEF Misfits
        <3>2. CASE \E d \in {"APPROVE", "REVIEW_REQUIRED"} :
                    verdict = [says |-> d, by |-> "nothing", rare |-> TRUE]
            BY <3>2
        <3>3. CASE \E d \in {"APPROVE", "REJECT"} :
                    verdict = [says |-> d, by |-> "model", rare |-> TRUE]
            BY <3>3
        <3> QED BY <3>1, <3>2, <3>3
    <2> QED BY <2>2, <2>3
<1>3. UNCHANGED <<findings, challenges, fid, keys, risk, human, docker, refused, silent, engine,
                  outer, pass>>
    BY DEF Judge, Quiet
<1>4. node = "judge" /\ node' \in {"cleanup", "gate"}
    BY <1>1 DEF Judge
<1>5. deviations' \in Nat
    BY <1>1, <1>2, DeviateTyped DEF Inv
<1>6. TypeOK'
    <2>1. decision' \in Decisions /\ node' \in Nodes
        BY <1>1, <1>2, <1>4 DEF Nodes, Decisions
    <2>2. judgedBy' \in {"nobody", "demo", "model", "rules", "nothing"}
        BY <1>1, <1>2
    <2> QED BY <2>1, <2>2, <1>3, <1>5 DEF Inv, TypeOK, outer
<1>7. Phases' /\ Undecided' /\ Counted' /\ Raised' /\ Successes'
    BY <1>3, <1>4 DEF Inv, Phases, Undecided, Counted, Raised, outer, Successes, Agents,
                      AfterDeployer, AfterTester, AfterRuntime
<1>8. ApprovedMeansPassed'
    <2> SUFFICES ASSUME decision' = "APPROVE", judgedBy' = "rules"
                 PROVE  keys.deployed /\ keys.tests /\ keys.passed = 4 /\ keys.health = "good"
        BY <1>3 DEF ApprovedMeansPassed
    <2>1. ~HasHigh(findings)
        BY <1>1, <1>2, RulesApprove
    <2>2. Deployed(keys) /\ Judged(keys) /\ keys.health = "good" /\ Enough(keys.passed)
        BY <1>4, <2>1 DEF Inv, Successes, AfterDeployer, AfterTester, AfterRuntime
    <2>3. keys.passed \in 0..4
        BY DEF Inv, TypeOK, Keys
    <2>4. keys.passed = 4
        BY <2>2, <2>3 DEF Enough
    <2> QED BY <2>2, <2>4 DEF Deployed, Judged
<1>9. ChallengesHitTheirFinding' /\ ResultIsRecorded'
    BY <1>3 DEF Inv, ChallengesHitTheirFinding, ResultIsRecorded, outer
<1>10. Noticed'
    <2>1. silent' # {} => HasHigh(findings) /\ HasHigh(findings')
        BY <1>3 DEF Inv, Noticed
    <2>2. decision' = "APPROVE" /\ judgedBy' = "rules" => ~HasHigh(findings)
        BY <1>1, <1>2, RulesApprove
    <2> QED BY <2>1, <2>2 DEF Noticed, ApprovedOnThisPass
<1> QED BY <1>6, <1>7, <1>8, <1>9, <1>10 DEF Inv

LEMMA AutoApproveStep == Inv /\ AutoApprove => Inv'
<1> SUFFICES ASSUME Inv, AutoApprove PROVE Inv'
    OBVIOUS
<1>1. /\ UNCHANGED <<findings, challenges, fid, keys, risk, decision, docker, refused, judgedBy,
                     silent, deviations, engine, outer, pass>>
      /\ node' = "cleanup" /\ human' = "APPROVE"
    BY DEF AutoApprove, Quiet
<1>2. TypeOK'
    BY <1>1 DEF Inv, TypeOK, outer, Nodes
<1>3. Phases' /\ Undecided' /\ Counted' /\ Raised' /\ Successes'
    BY <1>1 DEF Inv, Phases, Undecided, Counted, Raised, outer, Successes, Agents,
                AfterDeployer, AfterTester, AfterRuntime
<1>4. Noticed' /\ ApprovedMeansPassed' /\ ChallengesHitTheirFinding' /\ ResultIsRecorded'
    BY <1>1 DEF Inv, Noticed, ApprovedOnThisPass, ApprovedMeansPassed, ChallengesHitTheirFinding,
                ResultIsRecorded, outer
<1> QED BY <1>2, <1>3, <1>4 DEF Inv

LEMMA CleanupStep == Inv /\ Cleanup => Inv'
<1> SUFFICES ASSUME Inv, Cleanup PROVE Inv'
    OBVIOUS
<1>1. /\ UNCHANGED <<challenges, risk, decision, human, refused, judgedBy, engine, outer, pass>>
      /\ node = "cleanup" /\ node' = "end" /\ docker' \subseteq Host
    BY DEF Cleanup, Untagged, Quiet, Inv, TypeOK
<1>2. Successes' /\ node' \in Nodes /\ node' \notin Agents
    BY <1>1 DEF Successes, Nodes, Agents, AfterDeployer, AfterTester, AfterRuntime
<1>3. CASE UNCHANGED <<findings, fid, keys, silent, deviations>>
    <2>1. TypeOK'
        BY <1>1, <1>2, <1>3 DEF Inv, TypeOK, outer
    <2>2. Phases' /\ Undecided' /\ Counted' /\ Raised'
        BY <1>1, <1>2, <1>3 DEF Inv, Phases, Undecided, Counted, Raised, outer
    <2>3. Noticed' /\ ApprovedMeansPassed' /\ ChallengesHitTheirFinding' /\ ResultIsRecorded'
        BY <1>1, <1>3 DEF Inv, Noticed, ApprovedOnThisPass, ApprovedMeansPassed,
                          ChallengesHitTheirFinding, ResultIsRecorded, outer
    <2> QED BY <1>2, <2>1, <2>2, <2>3 DEF Inv
<1>4. CASE Deviate(TRUE) /\ \E found \in {None, Medium, High} : Merge(Plain(found, keys))
    <2>1. PICK found \in {None, Medium, High} : Merge(Plain(found, keys))
        BY <1>4
    <2>2. found \in Seq(Reported) /\ keys \in Keys
        BY Constants DEF Inv, TypeOK
    <2>3. Sound(Plain(found, keys)) /\ keys' = keys
        <3>1. Sound(Plain(found, keys)) /\ Plain(found, keys).keys = keys
            BY <2>2, PlainSound
        <3> QED BY <3>1, <2>1, Merged DEF Inv
    <2>4. ApprovedMeansPassed' /\ ApprovedOnThisPass'
        <3>1. silent' = silent
            BY <1>1, <2>1, <2>3, Merged DEF Inv, Witnesses
        <3> QED BY <1>1, <2>3, <3>1 DEF Inv, Noticed, ApprovedMeansPassed, ApprovedOnThisPass
    <2>5. deviations' \in Nat
        BY <1>4, DeviateTyped DEF Inv
    <2>6. refused' \in BOOLEAN
        BY <1>1 DEF Inv, TypeOK
    <2> QED BY <1>1, <1>2, <2>1, <2>3, <2>4, <2>5, <2>6, MergeStep
<1> QED BY <1>3, <1>4 DEF Cleanup

LEMMA AbortStep == Inv /\ Abort => Inv'
<1> SUFFICES ASSUME Inv, Abort PROVE Inv'
    OBVIOUS
<1>1. /\ UNCHANGED <<engine, node, state, docker, stored, disputes, refused, judgedBy, silent,
                     pass, deviations>>
      /\ status' = "FAILED" /\ thread' = "done" /\ returned' = Len(findings)
      /\ node \in {"end", "gate"}
    BY DEF Abort, InvokeReturned
<1>2. Len(findings) \in Nat
    BY DEF Inv, TypeOK
<1>3. TypeOK'
    BY <1>1, <1>2 DEF Inv, TypeOK, state
<1>4. Phases' /\ Undecided' /\ Counted' /\ Raised' /\ Successes'
    BY <1>1 DEF Inv, Phases, Undecided, Counted, Raised, state, Successes, Agents
<1>5. Noticed' /\ ApprovedMeansPassed' /\ ChallengesHitTheirFinding' /\ ResultIsRecorded'
    BY <1>1 DEF Inv, Noticed, ApprovedOnThisPass, ApprovedMeansPassed, ChallengesHitTheirFinding,
                ResultIsRecorded, state
<1> QED BY <1>3, <1>4, <1>5 DEF Inv

(* id_map names a finding, and in a numbered list it names the one the      *)
(* challenge was raised against.                                            *)
LEMMA IdMapFinds ==
    ASSUME Inv, NEW c \in challenges
    PROVE  IdMap(c.id) \in DOMAIN findings /\ (pass = 1 => IdMap(c.id) = c.of)
<1> DEFINE Latest(i) == /\ findings[i].id = c.id
                        /\ \A j \in DOMAIN findings : findings[j].id = c.id => j <= i
<1>1. /\ findings \in Seq(Entry)
      /\ c.of \in DOMAIN findings /\ findings[c.of].id = c.id /\ findings[c.of].latency
    BY DEF Inv, TypeOK, Raised
<1>2. \E i \in DOMAIN findings : Latest(i)
    BY <1>1, LastOne
<1>3. IdMap(c.id) \in DOMAIN findings /\ Latest(IdMap(c.id))
    BY <1>2 DEF IdMap
<1>4. ASSUME pass = 1 PROVE IdMap(c.id) = c.of
    <2>1. Numbered(findings, fid)
        BY <1>4 DEF Inv, Counted
    <2>2. c.of <= IdMap(c.id)
        BY <1>1, <1>3
    <2>3. ~(c.of < IdMap(c.id))
        <3>1. SUFFICES ASSUME c.of < IdMap(c.id) PROVE FALSE
            OBVIOUS
        <3>2. findings[c.of].id < findings[IdMap(c.id)].id
            BY <3>1, <2>1, <1>1, <1>3 DEF Numbered
        <3>3. findings[c.of] \in Entry
            BY <1>1
        <3>4. findings[c.of].id \in Nat
            BY <3>3 DEF Entry
        <3> QED BY <3>2, <3>4, <1>1, <1>3
    <2>4. c.of \in Nat /\ IdMap(c.id) \in Nat
        BY <1>1, <1>3
    <2> QED BY <2>2, <2>3, <2>4
<1> QED BY <1>3, <1>4

LEMMA PersistStep == Inv /\ Persist => Inv'
<1> SUFFICES ASSUME Inv, Persist PROVE Inv'
    OBVIOUS
<1>1. PICK fails \in BOOLEAN, good \in 0..Len(findings), filed \in SUBSET challenges :
            Deviate(fails) /\ Store(fails, good, filed)
    BY DEF Persist
<1>2. /\ UNCHANGED <<engine, node, state, docker, refused, judgedBy, silent, pass>>
      /\ thread' = "done" /\ returned' = Len(findings)
      /\ thread = "graph" /\ node \in {"end", "gate"}
    BY DEF Persist, InvokeReturned
<1>3. Len(findings) \in Nat /\ DOMAIN findings = 1..Len(findings)
    BY DEF Inv, TypeOK
<1>4. status = "RUNNING"
    BY <1>2 DEF Inv, Phases
<1> DEFINE rows == {[row |-> IdMap(c.id), of |-> c.of] : c \in filed}
<1>5. /\ ~fails => good = Len(findings) /\ filed = challenges
      /\ stored' = 1..good
      /\ disputes' = rows
      /\ status' = IF fails THEN status
                   ELSE IF decision \in {"APPROVE", "REJECT"} THEN "COMPLETED"
                   ELSE "WAITING_HUMAN_APPROVAL"
    BY <1>1 DEF Store
<1>6. \A c \in challenges : /\ IdMap(c.id) \in DOMAIN findings
                            /\ pass = 1 => IdMap(c.id) = c.of
    BY IdMapFinds
<1>7. rows \subseteq [row : Nat, of : Nat] /\ (pass = 1 => \A d \in rows : d.row = d.of)
    <2>1. \A c \in filed : c.of \in Nat /\ IdMap(c.id) \in Nat
        BY <1>3, <1>6 DEF Inv, TypeOK, Challenge
    <2> QED BY <2>1, <1>6
<1>8. {d.of : d \in rows} = {c.of : c \in filed}
    <2>1. \A d \in rows : \E c \in filed : d.of = c.of
        OBVIOUS
    <2>2. \A c \in filed : \E d \in rows : d.of = c.of
        <3> SUFFICES ASSUME NEW c \in filed PROVE \E d \in rows : d.of = c.of
            OBVIOUS
        <3>1. [row |-> IdMap(c.id), of |-> c.of] \in rows
            OBVIOUS
        <3>2. [row |-> IdMap(c.id), of |-> c.of].of = c.of
            OBVIOUS
        <3> HIDE DEF rows
        <3> QED BY <3>1, <3>2
    <2> HIDE DEF rows
    <2> QED BY <2>1, <2>2
<1> HIDE DEF rows
<1>9. TypeOK'
    <2>1. deviations' \in Nat
        BY <1>1, DeviateTyped DEF Inv
    <2>2. stored' \subseteq Nat
        <3>1. stored' = 1..good
            BY <1>5
        <3> QED BY <3>1
    <2>3. disputes' \subseteq [row : Nat, of : Nat]
        BY <1>5, <1>7
    <2>4. status' \in {"RUNNING", "FAILED", "COMPLETED", "WAITING_HUMAN_APPROVAL"}
        BY <1>4, <1>5
    <2> QED BY <2>1, <2>2, <2>3, <2>4, <1>2, <1>3 DEF Inv, TypeOK, state
<1>10. Phases' /\ Undecided' /\ Counted' /\ Raised' /\ Successes'
    BY <1>2 DEF Inv, Phases, Undecided, Counted, Raised, state, Successes, Agents
<1>11. ApprovedMeansPassed' /\ Noticed'
    BY <1>2 DEF Inv, ApprovedMeansPassed, Noticed, ApprovedOnThisPass, state
<1>12. ChallengesHitTheirFinding'
    BY <1>2, <1>5, <1>7 DEF ChallengesHitTheirFinding
<1>13. ResultIsRecorded'
    <2>1. CASE fails
        BY <2>1, <1>4, <1>5 DEF ResultIsRecorded
    <2>2. CASE ~fails
        <3>1. stored' = 1..returned' /\ disputes' = rows /\ challenges' = filed
            BY <2>2, <1>2, <1>5 DEF state
        <3> QED BY <3>1, <1>8 DEF ResultIsRecorded
    <2> QED BY <2>1, <2>2
<1> QED BY <1>9, <1>10, <1>11, <1>12, <1>13 DEF Inv

LEMMA PersonStep == Inv /\ Person => Inv'
<1> SUFFICES ASSUME Inv, Person PROVE Inv'
    OBVIOUS
<1>1. /\ UNCHANGED <<engine, findings, challenges, fid, keys, risk, decision, docker, thread,
                     stored, disputes, returned, refused, judgedBy, silent, pass, deviations>>
      /\ human' \in {"APPROVE", "REJECT"} /\ status' = "COMPLETED" /\ node' = "cleanup"
      /\ status = "WAITING_HUMAN_APPROVAL" /\ thread = "done"
    BY DEF Person
<1>2. TypeOK'
    BY <1>1 DEF Inv, TypeOK, Nodes
<1>3. Phases' /\ Undecided' /\ Counted' /\ Raised' /\ Successes'
    BY <1>1 DEF Inv, Phases, Undecided, Counted, Raised, Successes, Agents,
                AfterDeployer, AfterTester, AfterRuntime
<1>4. Noticed' /\ ApprovedMeansPassed' /\ ChallengesHitTheirFinding' /\ ResultIsRecorded'
    BY <1>1 DEF Inv, Noticed, ApprovedOnThisPass, ApprovedMeansPassed, ChallengesHitTheirFinding,
                ResultIsRecorded
<1> QED BY <1>2, <1>3, <1>4 DEF Inv

LEMMA AgainStep == Inv /\ Again => Inv'
<1> SUFFICES ASSUME Inv, Again PROVE Inv'
    OBVIOUS
<1>1. /\ pass' = pass + 1 /\ thread' = "graph" /\ status' = "RUNNING"
      /\ node' = "repo_validator" /\ fid' = 1 /\ risk' = "LOW" /\ decision' = ""
      /\ human' = "none" /\ stored' = {} /\ disputes' = {} /\ returned' = 0
      /\ refused' = FALSE /\ judgedBy' = "nobody" /\ silent' = {}
      /\ UNCHANGED <<engine, docker, deviations>>
    BY DEF Again
<1>2. \/ UNCHANGED <<findings, challenges, keys>>
      \/ findings' = <<>> /\ challenges' = {} /\ keys' = NoKeys
    BY DEF Again
<1>3. NoKeys \in Keys
    BY DEF NoKeys, Keys
<1>4. findings' \in Seq(Entry) /\ challenges' \subseteq Challenge /\ keys' \in Keys
    <2>1. CASE UNCHANGED <<findings, challenges, keys>>
        BY <2>1 DEF Inv, TypeOK
    <2>2. CASE findings' = <<>> /\ challenges' = {} /\ keys' = NoKeys
        BY <2>2, <1>3
    <2> QED BY <2>1, <2>2, <1>2
<1>5. pass' \in Nat /\ pass' > 1
    <2>1. pass \in Nat /\ pass >= 1
        BY DEF Inv, TypeOK, Phases
    <2>2. pass' = pass + 1
        BY <1>1
    <2> QED BY <2>1, <2>2
<1>6. TypeOK'
    BY <1>1, <1>4, <1>5 DEF Inv, TypeOK, Nodes, Agents, Decisions
<1>7. Phases' /\ Undecided' /\ Counted'
    <2>1. pass' >= 1 /\ pass' # 1
        BY <1>5
    <2> QED BY <2>1, <1>1 DEF Phases, Undecided, Counted
<1>8. Raised'
    BY <1>2 DEF Inv, Raised
<1>9. Successes'
    BY <1>1 DEF Successes, AfterDeployer, AfterTester, AfterRuntime
<1>10. Noticed' /\ ApprovedMeansPassed' /\ ChallengesHitTheirFinding' /\ ResultIsRecorded'
    BY <1>1 DEF Noticed, ApprovedOnThisPass, ApprovedMeansPassed, ChallengesHitTheirFinding,
                ResultIsRecorded
<1> QED BY <1>6, <1>7, <1>8, <1>9, <1>10 DEF Inv

LEMMA StutterStep == Inv /\ UNCHANGED vars => Inv'
<1> SUFFICES ASSUME Inv, UNCHANGED vars PROVE Inv'
    OBVIOUS
<1>1. TypeOK'
    BY DEF Inv, TypeOK, vars, state, outer
<1>2. Phases' /\ Undecided' /\ Counted' /\ Raised' /\ Successes'
    BY DEF Inv, Phases, Undecided, Counted, Raised, Successes, vars, state, outer
<1>3. Noticed' /\ ApprovedMeansPassed' /\ ChallengesHitTheirFinding' /\ ResultIsRecorded'
    BY DEF Inv, Noticed, ApprovedOnThisPass, ApprovedMeansPassed, ChallengesHitTheirFinding,
           ResultIsRecorded, vars, state, outer
<1> QED BY <1>1, <1>2, <1>3 DEF Inv

-----------------------------------------------------------------------------
(* Inv holds of every reachable state, for any number of deviating agents   *)
(* and passes.                                                              *)
THEOREM Invariance == Spec => []Inv
<1>1. Inv /\ [Next]_vars => Inv'
    <2> SUFFICES ASSUME Inv, [Next]_vars PROVE Inv'
        OBVIOUS
    <2>1. CASE RepoValidator
        BY <2>1, RepoValidatorStep
    <2>2. CASE \/ Planner \/ RunBackend \/ RunFrontend \/ RunSecurity \/ RunSre
               \/ RunApiValidator \/ RunSecurityRuntime \/ RunCorrelator
        BY <2>2, AsideTurns
    <2>3. CASE RunBuilder
        BY <2>3, BuilderStep
    <2>4. CASE RunDeployer
        BY <2>4, DeployerStep
    <2>5. CASE RunTester
        BY <2>5, TesterStep
    <2>6. CASE RunRuntimeAnalyzer
        BY <2>6, RuntimeStep
    <2>7. CASE RunLogInspector
        BY <2>7, LogInspectorStep
    <2>8. CASE Challenger
        BY <2>8, ChallengerStep
    <2>9. CASE QaLead
        BY <2>9, QaLeadStep
    <2>10. CASE Judge
        BY <2>10, JudgeStep
    <2>11. CASE AutoApprove
        BY <2>11, AutoApproveStep
    <2>12. CASE Cleanup
        BY <2>12, CleanupStep
    <2>13. CASE Abort
        BY <2>13, AbortStep
    <2>14. CASE Persist
        BY <2>14, PersistStep
    <2>15. CASE Person
        BY <2>15, PersonStep
    <2>16. CASE Again
        BY <2>16, AgainStep
    <2>17. CASE Finished \/ UNCHANGED vars
        BY <2>17, StutterStep DEF Finished
    <2> QED BY <2>1, <2>2, <2>3, <2>4, <2>5, <2>6, <2>7, <2>8, <2>9, <2>10, <2>11, <2>12,
               <2>13, <2>14, <2>15, <2>16, <2>17 DEF Next
<1> QED BY <1>1, InitInv, PTL DEF Spec

(* Every channel of the graph state and every row stays in its type; a      *)
(* challenge is always stored against some finding.                         *)
THEOREM TypeCorrect == Spec => []TypeOK
<1>1. Inv => TypeOK
    BY DEF Inv
<1> QED BY <1>1, Invariance, PTL

(* A rule-based approval is never given to a pull request that was not      *)
(* deployed, tested and found healthy.                                      *)
THEOREM ApprovedMeansPassedHolds == Spec => []ApprovedMeansPassed
<1>1. Inv => ApprovedMeansPassed
    BY DEF Inv
<1> QED BY <1>1, Invariance, PTL

(* However many passes there are, an approval by the rules is never given   *)
(* in a pass in which one of the agents it rests on crashed, whose keys in  *)
(* the state are then those of a former pass (_rule_based_decision).        *)
THEOREM ApprovedOnThisPassHolds == Spec => []ApprovedOnThisPass
<1>1. Inv => ApprovedOnThisPass
    BY DEF Inv, Noticed
<1> QED BY <1>1, Invariance, PTL

(* In a first pass each challenge is stored against its own finding.        *)
THEOREM ChallengesHitTheirFindingHolds == Spec => []ChallengesHitTheirFinding
<1>1. Inv => ChallengesHitTheirFinding
    BY DEF Inv
<1> QED BY <1>1, Invariance, PTL

(* A row that shows a result has all of it. *)
THEOREM ResultIsRecordedHolds == Spec => []ResultIsRecorded
<1>1. Inv => ResultIsRecorded
    BY DEF Inv
<1> QED BY <1>1, Invariance, PTL
=============================================================================
