------------------------------- MODULE Cli_proof -------------------------------
(***************************************************************************)
(* Theorems about Cli and Document, for any snapshots, limits and number   *)
(* of runs: what is written agrees with what the providers returned, with  *)
(* the exit code and with what the cache keeps.                            *)
(***************************************************************************)
EXTENDS Cli, FiniteSetTheorems, WellFoundedInduction, TLAPS

(***************************************************************************)
(* The bisection.  An induction by the least counterexample, since the     *)
(* induction theorems of the library cannot be instantiated.               *)
(***************************************************************************)
LEMMA Least ==
  ASSUME NEW T \in SUBSET Nat, T # {}
  PROVE  \E n \in T : \A m \in T : n <= m
<1> DEFINE R == {pair \in Nat \X Nat : pair[1] < pair[2]}
<1>1. IsWellFoundedOn(R, Nat)
  BY NatLessThanWellFounded DEF OpToRel
<1>2. \A m, n \in Nat : m < n => <<m, n>> \in R
  OBVIOUS
<1> HIDE DEF R
<1>3. PICK n \in T : \A m \in T : ~ (<<m, n>> \in R)
  BY <1>1, WFMin
<1>4. n \in Nat /\ \A m \in T : m \in Nat /\ ~(m < n)
  BY <1>2, <1>3
<1>5. \A m \in T : n <= m
  BY <1>4
<1>. QED BY <1>5

(* One turn of the loop, and what it finds.                                *)
Narrow(limit, best, span) ==
  LET low == span[1]
      high == span[2]
      middle == (low + high) \div 2
      above == best[<<middle + 1, high>>]
  IN IF low > high THEN -1
     ELSE IF middle > limit THEN best[<<low, middle - 1>>]
     ELSE IF above = -1 THEN middle ELSE above

Searches(limit, best) == best = [span \in Spans |-> Narrow(limit, best, span)]

Found(limit) ==
  [span \in Spans |->
     IF span[1] > span[2] \/ limit < span[1] THEN -1 ELSE IF limit < span[2] THEN limit ELSE span[2]]

(* A span and its halves. *)
LEMMA Halves ==
  ASSUME NEW low \in 0 .. MaxTooltip + 1, NEW high \in -1 .. MaxTooltip, low <= high
  PROVE  LET middle == (low + high) \div 2
         IN  /\ middle \in low .. high
             /\ <<middle + 1, high>> \in Spans /\ <<low, middle - 1>> \in Spans
<1> DEFINE middle == (low + high) \div 2
<1>1. middle \in low .. high
  BY LimitsAssumption
<1> HIDE DEF middle
<1>2. middle + 1 \in 0 .. MaxTooltip + 1 /\ middle - 1 \in -1 .. MaxTooltip
  BY <1>1, LimitsAssumption
<1>. QED BY <1>1, <1>2 DEF Spans, middle

LEMMA FoundSearches ==
  ASSUME NEW limit \in -1 .. MaxTooltip
  PROVE  Searches(limit, Found(limit))
<1>1. ASSUME NEW low \in 0 .. MaxTooltip + 1, NEW high \in -1 .. MaxTooltip
      PROVE  Found(limit)[<<low, high>>] = Narrow(limit, Found(limit), <<low, high>>)
  <2> DEFINE middle == (low + high) \div 2
             f == Found(limit)
  <2>1. \A a \in 0 .. MaxTooltip + 1, b \in -1 .. MaxTooltip :
          f[<<a, b>>] = IF a > b \/ limit < a THEN -1 ELSE IF limit < b THEN limit ELSE b
    BY DEF Found, Spans
  <2>2. CASE low > high
    BY <2>1, <2>2 DEF Narrow
  <2>3. CASE low <= high
    <3>1. middle \in low .. high /\ middle + 1 \in 0 .. MaxTooltip + 1 /\ middle - 1 \in -1 .. MaxTooltip
      BY <2>3, Halves DEF Spans
    <3>2. Narrow(limit, f, <<low, high>>) =
            IF middle > limit THEN f[<<low, middle - 1>>]
            ELSE IF f[<<middle + 1, high>>] = -1 THEN middle ELSE f[<<middle + 1, high>>]
      BY <2>3 DEF Narrow
    <3> HIDE DEF middle, f
    <3>3. /\ f[<<low, high>>] = IF limit < low THEN -1 ELSE IF limit < high THEN limit ELSE high
          /\ f[<<low, middle - 1>>] =
               IF low > middle - 1 \/ limit < low THEN -1 ELSE IF limit < middle - 1 THEN limit ELSE middle - 1
          /\ f[<<middle + 1, high>>] =
               IF middle + 1 > high \/ limit < middle + 1 THEN -1 ELSE IF limit < high THEN limit ELSE high
      BY <2>1, <2>3, <3>1
    <3>4. f[<<low, high>>] = Narrow(limit, f, <<low, high>>)
      BY <2>3, <3>1, <3>2, <3>3, LimitsAssumption
    <3>. QED BY <3>4 DEF f
  <2>. QED BY <2>2, <2>3, LimitsAssumption
<1>2. \A span \in Spans : Found(limit)[span] = Narrow(limit, Found(limit), span)
  BY <1>1 DEF Spans
<1>3. Found(limit) = [span \in Spans |-> Found(limit)[span]]
  BY DEF Found
<1>. QED BY <1>2, <1>3 DEF Searches

(* There is one such function only. *)
LEMMA SearchIsFound ==
  ASSUME NEW limit \in -1 .. MaxTooltip, NEW best, Searches(limit, best)
  PROVE  \A span \in Spans : best[span] = Found(limit)[span]
<1> DEFINE f == Found(limit)
           Size(span) == IF span[1] > span[2] THEN 0 ELSE span[2] - span[1] + 1
           Bad == {n \in Nat : \E span \in Spans : Size(span) = n /\ best[span] # f[span]}
<1>1. \A span \in Spans : best[span] = Narrow(limit, best, span)
  BY DEF Searches
<1>2. \A span \in Spans : f[span] = Narrow(limit, f, span)
  BY FoundSearches DEF Searches
<1>3. \A span \in Spans : Size(span) \in Nat
  BY LimitsAssumption DEF Spans
<1>4. SUFFICES ASSUME Bad # {} PROVE FALSE
  BY <1>3
<1>5. PICK n \in Bad : \A m \in Bad : n <= m
  <2> Bad \in SUBSET Nat
    OBVIOUS
  <2> HIDE DEF Bad
  <2>. QED BY <1>4, Least
<1>6. PICK low \in 0 .. MaxTooltip + 1, high \in -1 .. MaxTooltip :
        Size(<<low, high>>) = n /\ best[<<low, high>>] # f[<<low, high>>]
  BY <1>5 DEF Spans
<1>7. \A span \in Spans : Size(span) < n => best[span] = f[span]
  BY <1>3, <1>5
<1>8. CASE low > high
  BY <1>1, <1>2, <1>6, <1>8 DEF Narrow, Spans
<1>9. CASE low <= high
  <2> DEFINE middle == (low + high) \div 2
  <2>1. middle \in low .. high /\ <<middle + 1, high>> \in Spans /\ <<low, middle - 1>> \in Spans
    BY <1>9, Halves
  <2>2. \A g : Narrow(limit, g, <<low, high>>) =
            IF middle > limit THEN g[<<low, middle - 1>>]
            ELSE IF g[<<middle + 1, high>>] = -1 THEN middle ELSE g[<<middle + 1, high>>]
    BY <1>9 DEF Narrow
  <2> HIDE DEF middle
  <2>3. Size(<<middle + 1, high>>) < n /\ Size(<<low, middle - 1>>) < n
    BY <1>6, <1>9, <2>1, LimitsAssumption
  <2>4. /\ best[<<middle + 1, high>>] = f[<<middle + 1, high>>]
        /\ best[<<low, middle - 1>>] = f[<<low, middle - 1>>]
    BY <1>7, <2>1, <2>3
  <2>5. Narrow(limit, best, <<low, high>>) = Narrow(limit, f, <<low, high>>)
    BY <2>2, <2>4
  <2>. QED BY <1>1, <1>2, <1>6, <2>5 DEF Spans
<1>. QED BY <1>8, <1>9, LimitsAssumption

(* The tooltips are cut no shorter than the size limit asks for: the       *)
(* bisection of project_bytes finds the largest limit that fits, and the   *)
(* validation of the cache, which searches again, finds the same.          *)
THEOREM BisectionIsExact ==
  ASSUME NEW limit \in -1 .. MaxTooltip
  PROVE  Bisect(limit) = limit
<1> DEFINE best == CHOOSE best : Searches(limit, best)
<1>1. Bisect(limit) = best[<<0, MaxTooltip>>]
  BY Zenon DEF Bisect, Searches, Narrow
<1>2. Searches(limit, best)
  BY FoundSearches, Zenon
<1> HIDE DEF best
<1>3. <<0, MaxTooltip>> \in Spans
  BY LimitsAssumption DEF Spans
<1>4. best[<<0, MaxTooltip>>] = Found(limit)[<<0, MaxTooltip>>]
  BY <1>2, <1>3, SearchIsFound
<1>5. Found(limit)[<<0, MaxTooltip>>] =
        IF 0 > MaxTooltip \/ limit < 0 THEN -1 ELSE IF limit < MaxTooltip THEN limit ELSE MaxTooltip
  BY <1>3 DEF Found
<1>. QED BY <1>1, <1>4, <1>5, LimitsAssumption

(***************************************************************************)
(* Views, items and documents.                                             *)
(***************************************************************************)
LEMMA FitsIs ==
  ASSUME NEW limit \in -1 .. MaxTooltip
  PROVE  Fits(limit) = limit
BY BisectionIsExact DEF Fits

Outcomes == {"snapshot", "undetected", "not_run", "execution_error"}

(* Views of an attempt, with the overlay of a misconfigured provider.      *)
Shown(p) == Said(p) \cup {SafeErrorView("provider_error", "none")}

LEMMA ShownIs ==
  ASSUME NEW p \in Providers, NEW v \in Shown(p)
  PROVE  /\ v.outcome \in Outcomes
         /\ v.outcome = "snapshot" => v \in Snapshots[p] /\ v.why = "none"
         /\ v.outcome = "undetected" => v = Undetected
         /\ v.outcome = "not_run" => v = NotRun(v.why) /\ v.why \in Reasons
         /\ v.outcome = "execution_error" =>
              \E code, evidence :
                v = SafeErrorView(code, evidence) /\ code \notin Timing \cup {"disabled"}
<1>1. CASE v \in Snapshots[p]
  <2>1. v = Snapshot(v.state, v.windows)
    BY <1>1, SnapshotsAssumption
  <2>2. v.outcome = "snapshot" /\ v.why = "none"
    BY <2>1 DEF Snapshot, View
  <2>. QED BY <1>1, <2>2 DEF Outcomes
<1>2. CASE v = Undetected
  BY <1>2 DEF Undetected, View, Outcomes
<1>3. CASE \E reason \in Reasons : v = NotRun(reason)
  BY <1>3 DEF NotRun, View, Outcomes
<1>4. CASE v \in Failures(p) \cup {SafeErrorView("provider_error", "none")}
  <2>1. PICK code, evidence :
          v = SafeErrorView(code, evidence) /\ code \notin Timing \cup {"disabled"}
    BY <1>4 DEF Failures, Unexplained, Timing
  <2>2. v.outcome = "execution_error"
    BY <2>1 DEF SafeErrorView, View
  <2>. QED BY <2>1, <2>2 DEF Outcomes
<1>. QED BY <1>1, <1>2, <1>3, <1>4 DEF Shown, Said, Answers

(* An item tells of the outcome what the view does. *)
LEMMA ItemIs ==
  ASSUME NEW p \in Providers, NEW v \in Shown(p)
  PROVE  /\ Item(p, v).outcome = v.outcome
         /\ v.outcome \in {"undetected", "not_run"} => Item(p, v) = v
         /\ v.outcome = "snapshot" => Item(p, v).why = "none"
         /\ Item(p, v).why = "disabled" => v.why = "disabled"
<1>1. CASE v.outcome = "snapshot"
  <2>1. v = Snapshot(v.state, v.windows) /\ v.why = "none"
    BY <1>1, ShownIs, SnapshotsAssumption
  <2>2. PICK ws : Item(p, v) = [v EXCEPT !.windows = ws]
    BY <1>1 DEF Item
  <2>3. Item(p, v).outcome = v.outcome /\ Item(p, v).why = v.why
    BY <2>1, <2>2 DEF Snapshot, View
  <2>. QED BY <1>1, <2>1, <2>3
<1>2. CASE v.outcome = "execution_error"
  <2>1. Item(p, v) = SafeErrorView(PublicCode(v.why, v.evidence), "none")
    BY <1>2 DEF Item
  <2>2. PublicCode(v.why, v.evidence) # "disabled"
    BY DEF PublicCode
  <2>. QED BY <1>2, <2>1, <2>2 DEF SafeErrorView, View
<1>3. CASE v.outcome \in {"undetected", "not_run"}
  BY <1>3, ShownIs DEF Item, Undetected, View
<1>. QED BY <1>1, <1>2, <1>3, ShownIs DEF Outcomes

(* A document is the projection of its views, or the internal error. *)
LEMMA ProjectIs ==
  ASSUME NEW vs, NEW code, NEW limit \in -1 .. MaxTooltip
  PROVE  LET doc == Project(vs, code, limit)
         IN  \/ doc = Failure("internal_error")
             \/ /\ doc.state = Classify(vs, code)[1] /\ doc.error = Classify(vs, code)[2]
                /\ \A p \in Providers : /\ doc.providers[p] = Item(p, vs[p])
                                        /\ Cardinality(doc.providers[p].windows) <= MaxWindows
                /\ doc.cut = limit
BY FitsIs DEF Project

Codes == {"invocation_invalid", "configuration_invalid", "internal_error", "guard_acquisition_failed",
          "guard_wait_timeout", "deadline_exhausted"}

LEMMA FailureIs ==
  ASSUME NEW code \in Codes
  PROVE  /\ Failure(code).state = "execution_error" /\ Failure(code).cut = MaxTooltip
         /\ Failure(code).error # NoError /\ Failure(code).error.code = code
         /\ \A p \in Providers : /\ Failure(code).providers[p].outcome = "not_run"
                                 /\ Failure(code).providers[p].why # "disabled"
BY DEF Failure, Codes, NoError, Error, FailurePhase, FailureReason, NotRun, View

DocErrors == {"none", "guard_wait_timeout", "guard_acquisition_failed", "deadline_exhausted",
              "cleanup_failed"}

(* What the state, the error and the exit code say of the providers.       *)
LEMMA ClassifyIs ==
  ASSUME NEW vs, \A p \in Providers : vs[p].outcome \in Outcomes, NEW code \in DocErrors
  PROVE  LET state == Classify(vs, code)[1]
             error == Classify(vs, code)[2]
         IN  /\ state \in {"complete", "partial", "not_run", "execution_error"}
             /\ code # "none" => error # NoError /\ error.code = code /\ ExitCode(vs, code) = 2
             /\ code = "none" =>
                  \/ /\ error = NoError /\ state # "execution_error" /\ ExitCode(vs, code) = 0
                     /\ state = "complete" <=> \A p \in Providers : vs[p].outcome \in Usable
                     /\ state = "not_run" <=> \A p \in Providers : vs[p].outcome = "not_run"
                  \/ /\ error # NoError /\ error.code = "provider_failed" /\ ExitCode(vs, code) = 1
                     /\ \A p \in Providers : vs[p].outcome \notin Usable
<1> DEFINE outcomes == {vs[p].outcome : p \in Providers}
<1>1. CASE code # "none"
  BY <1>1 DEF Classify, ExitCode, NoError, Error, DocErrors, Timing
<1>2. CASE code = "none"
  <2>1. Classify(vs, code) =
          IF outcomes \subseteq Usable THEN <<"complete", NoError>>
          ELSE IF outcomes \cap Usable # {} THEN <<"partial", NoError>>
          ELSE IF outcomes = {"not_run"} THEN <<"not_run", NoError>>
          ELSE <<"execution_error", Error("provider_failed", "provider")>>
    <3>1. CASE outcomes \subseteq Usable
      BY <1>2, <3>1 DEF Classify, Usable
    <3>2. CASE ~(outcomes \subseteq Usable) /\ outcomes \cap Usable # {}
      BY <1>2, <3>2 DEF Classify
    <3>3. CASE ~(outcomes \subseteq Usable) /\ outcomes \cap Usable = {}
      BY <1>2, <3>3 DEF Classify
    <3>. QED BY <3>1, <3>2, <3>3
  <2>2. ExitCode(vs, code) =
          IF \A p \in Providers : vs[p].outcome # "execution_error" THEN 0
          ELSE IF \E p \in Providers : vs[p].outcome \in Usable THEN 0 ELSE 1
    BY <1>2 DEF ExitCode
  <2>3. /\ outcomes \subseteq Usable <=> \A p \in Providers : vs[p].outcome \in Usable
        /\ outcomes \cap Usable # {} <=> \E p \in Providers : vs[p].outcome \in Usable
        /\ outcomes = {"not_run"} <=> \A p \in Providers : vs[p].outcome = "not_run"
    BY DEF Providers
  <2>4. Error("provider_failed", "provider") # NoError /\ Error("provider_failed", "provider").code = "provider_failed"
    BY DEF Error, NoError
  <2> HIDE DEF outcomes
  <2>5. CASE \A p \in Providers : vs[p].outcome \in Usable
    BY <1>2, <2>1, <2>2, <2>3, <2>5 DEF Usable, Providers
  <2>6. CASE (\E p \in Providers : vs[p].outcome \in Usable) /\ ~\A p \in Providers : vs[p].outcome \in Usable
    BY <1>2, <2>1, <2>2, <2>3, <2>6 DEF Usable, Outcomes, Providers
  <2>7. CASE ~(\E p \in Providers : vs[p].outcome \in Usable)
    BY <1>2, <2>1, <2>2, <2>3, <2>4, <2>7 DEF Usable, Outcomes, Providers
  <2>. QED BY <2>5, <2>6, <2>7
<1>. QED BY <1>1, <1>2

(***************************************************************************)
(* Projection and validation agree.                                        *)
(***************************************************************************)
(* All that AcceptedWindow asks for but its patterns. *)
Sound(w) ==
  /\ w.availability = "known" <=> w.values # {}
  /\ ~w.trusted => w.availability = "unavailable"

LEMMA PublicIs ==
  ASSUME NEW w \in Windows
  PROVE  /\ PublicWindow(w).kind = w.kind /\ Identity(PublicWindow(w)) = Identity(w)
         /\ Sound(PublicWindow(w))
<1>1. CASE w.trusted
  BY <1>1 DEF PublicWindow, Windows, Sound
<1>2. CASE ~w.trusted
  <2> DEFINE v == [w EXCEPT !.availability = "unavailable", !.values = {}, !.labels = {}]
  <2>1. v.kind = w.kind /\ v.scope = w.scope /\ v.period = w.period
    BY DEF Windows
  <2>2. v.availability = "unavailable" /\ v.values = {}
    BY DEF Windows
  <2>3. PublicWindow(w) = v
    BY <1>2 DEF PublicWindow
  <2> HIDE DEF v
  <2>. QED BY <2>1, <2>2, <2>3 DEF Identity, Sound
<1>. QED BY <1>1, <1>2

LEMMA SlotIs ==
  ASSUME NEW ws \in SUBSET Windows, IsFiniteSet(ws), NEW period
  PROVE  \E s : /\ Slot(ws, period) = {s}
                /\ s.kind = "commercial_quota" /\ s.period = period /\ Sound(s)
<1> DEFINE matches == {w \in ws : w.kind = "commercial_quota" /\ w.period = period}
<1>1. ASSUME NEW scope
      PROVE  /\ Placeholder(period, scope).kind = "commercial_quota"
             /\ Placeholder(period, scope).period = period
             /\ Sound(Placeholder(period, scope))
  BY DEF Placeholder, Sound
<1>2. CASE Cardinality(matches) # 1
  <2>1. Slot(ws, period) = {Placeholder(period, "account")}
    BY <1>2 DEF Slot
  <2>. QED BY <1>1, <2>1
<1>3. CASE Cardinality(matches) = 1
  <2>1. IsFiniteSet(matches)
    BY FS_Subset
  <2>2. PICK w : matches = {w}
    <3> HIDE DEF matches
    <3>. QED BY <1>3, <2>1, FS_Singleton
  <2>3. w.kind = "commercial_quota" /\ w.period = period
    BY <2>2
  <2> DEFINE s == IF w.trusted /\ w.availability = "known" THEN w ELSE Placeholder(period, w.scope)
  <2>4. Slot(ws, period) = {s}
    BY <1>3, <2>2 DEF Slot
  <2>5. s.kind = "commercial_quota" /\ s.period = period /\ Sound(s)
    <3>1. w \in Windows
      BY <2>2
    <3>. QED BY <1>1, <2>3, <3>1 DEF Sound, Windows
  <2>. QED BY <2>4, <2>5
<1>. QED BY <1>2, <1>3

LEMMA ThreeOf ==
  ASSUME NEW a, NEW b, NEW c, a # b, a # c, b # c
  PROVE  Cardinality({a, b, c}) = 3
<1>1. IsFiniteSet({a}) /\ Cardinality({a}) = 1
  BY FS_Singleton
<1>2. IsFiniteSet({a} \cup {b}) /\ Cardinality({a} \cup {b}) = Cardinality({a}) + 1
  BY <1>1, b \notin {a}, FS_AddElement, Zenon
<1>3. Cardinality(({a} \cup {b}) \cup {c}) = Cardinality({a} \cup {b}) + 1
  BY <1>2, c \notin {a} \cup {b}, FS_AddElement, Zenon
<1>4. {a, b, c} = ({a} \cup {b}) \cup {c}
  OBVIOUS
<1>. QED BY <1>1, <1>2, <1>3, <1>4

(* The windows of a snapshot, when they are made public as they are.       *)
LEMMA PublicWindows ==
  ASSUME NEW ws \in SUBSET Windows, \A v, w \in ws : Identity(v) = Identity(w) => v = w,
         NEW some \in SUBSET ws
  PROVE  LET public == {PublicWindow(w) : w \in some}
         IN  /\ \A v, w \in public : Identity(v) = Identity(w) => v = w
             /\ \A w \in public : Sound(w) /\ \E v \in some : w.kind = v.kind
BY PublicIs

LEMMA OpenCodeAccepted ==
  ASSUME NEW view, view.windows \in SUBSET Windows, IsFiniteSet(view.windows),
         ValidSnapshot(view.state, view.windows)
  PROVE  LET ws == OpenCodeWindows(view)
             commercial == {w \in ws : w.kind = "commercial_quota"}
         IN  /\ \A v, w \in ws : Identity(v) = Identity(w) => v = w
             /\ \A w \in ws : Sound(w)
             /\ view.state = "rate_limited" => \A w \in ws : w.kind = "technical_rate_limit"
             /\ view.state \in {"available", "partial"} =>
                  /\ {w.period : w \in commercial} = FixedPeriods
                  /\ Cardinality(commercial) = Cardinality(FixedPeriods)
<1> DEFINE ws == OpenCodeWindows(view)
           commercial == {w \in ws : w.kind = "commercial_quota"}
<1>0. \A v, w \in view.windows : Identity(v) = Identity(w) => v = w
  BY DEF ValidSnapshot
<1>1. CASE view.state = "rate_limited"
  <2> DEFINE some == {v \in view.windows : v.kind = "technical_rate_limit"}
  <2>1. ws = {PublicWindow(w) : w \in some}
    BY <1>1 DEF OpenCodeWindows
  <2>2. some \in SUBSET view.windows /\ \A v \in some : v.kind = "technical_rate_limit"
    OBVIOUS
  <2> HIDE DEF some, ws
  <2>3. /\ \A v, w \in ws : Identity(v) = Identity(w) => v = w
        /\ \A w \in ws : Sound(w) /\ \E v \in some : w.kind = v.kind
    BY <1>0, <2>1, <2>2, PublicWindows
  <2>. QED BY <1>1, <2>2, <2>3 DEF ws
<1>2. CASE view.state \in {"available", "partial"}
  <2> DEFINE some == {v \in view.windows : v.kind # "commercial_quota"}
             plain == {PublicWindow(w) : w \in some}
  <2>1. ws = plain \cup UNION {Slot(view.windows, period) : period \in FixedPeriods}
    BY <1>2 DEF OpenCodeWindows
  <2>2. some \in SUBSET view.windows /\ \A v \in some : v.kind # "commercial_quota"
    OBVIOUS
  <2>3. PICK five : /\ Slot(view.windows, "five_hour") = {five} /\ five.kind = "commercial_quota"
                    /\ five.period = "five_hour" /\ Sound(five)
    BY SlotIs
  <2>4. PICK month : /\ Slot(view.windows, "monthly") = {month} /\ month.kind = "commercial_quota"
                     /\ month.period = "monthly" /\ Sound(month)
    BY SlotIs
  <2>5. PICK week : /\ Slot(view.windows, "weekly") = {week} /\ week.kind = "commercial_quota"
                    /\ week.period = "weekly" /\ Sound(week)
    BY SlotIs
  <2> HIDE DEF some
  <2>6. /\ \A v, w \in plain : Identity(v) = Identity(w) => v = w
        /\ \A w \in plain : Sound(w) /\ \E v \in some : w.kind = v.kind
    BY <1>0, <2>2, PublicWindows
  <2>7. \A w \in plain : w.kind # "commercial_quota"
    BY <2>2, <2>6
  <2> HIDE DEF plain
  <2>8. ws = plain \cup {five, month, week}
    BY <2>1, <2>3, <2>4, <2>5 DEF FixedPeriods
  <2> HIDE DEF ws
  <2>9. \A v, w \in ws : Identity(v) = Identity(w) => v = w
    <3>1. \A v, w : Identity(v) = Identity(w) => v.kind = w.kind /\ v.period = w.period
      BY DEF Identity
    <3>. QED BY <2>3, <2>4, <2>5, <2>6, <2>7, <2>8, <3>1
  <2>10. \A w \in ws : Sound(w)
    BY <2>3, <2>4, <2>5, <2>6, <2>8
  <2>11. commercial = {five, month, week}
    BY <2>3, <2>4, <2>5, <2>7, <2>8
  <2>12. five # month /\ five # week /\ month # week
    BY <2>3, <2>4, <2>5
  <2>13. Cardinality({five, month, week}) = 3
    BY <2>12, ThreeOf
  <2>14. Cardinality({"five_hour", "monthly", "weekly"}) = 3
    BY ThreeOf
  <2>15. {w.period : w \in commercial} = FixedPeriods
    BY <2>3, <2>4, <2>5, <2>11 DEF FixedPeriods
  <2>. QED BY <1>2, <2>9, <2>10, <2>11, <2>13, <2>14, <2>15 DEF FixedPeriods, ws
<1>3. CASE view.state \notin {"rate_limited", "available", "partial"}
  <2>1. ws = {PublicWindow(w) : w \in view.windows}
    BY <1>3 DEF OpenCodeWindows
  <2> HIDE DEF ws
  <2>2. /\ \A v, w \in ws : Identity(v) = Identity(w) => v = w
        /\ \A w \in ws : Sound(w)
    BY <1>0, <2>1, PublicWindows
  <2>. QED BY <1>3, <2>2 DEF ws
<1>. QED BY <1>1, <1>2, <1>3

(* What a provider says is accepted as it is shown, unless it is an error, *)
(* when the patterns accept it.                                            *)
LEMMA ItemAccepted ==
  ASSUME NEW p \in Providers, NEW v \in Shown(p), v.outcome # "execution_error",
         Cardinality(Item(p, v).windows) <= MaxWindows
  PROVE  AcceptedItem(p, Item(p, v)) <=> \A w \in Item(p, v).windows : ~Refused(w)
<1>1. CASE v.outcome = "snapshot"
  <2>1. /\ v = Snapshot(v.state, v.windows) /\ v.state \in States /\ v.windows \in SUBSET Windows
        /\ IsFiniteSet(v.windows) /\ ValidSnapshot(v.state, v.windows)
    BY <1>1, ShownIs, SnapshotsAssumption
  <2> DEFINE ws == IF p = "opencode_go" THEN OpenCodeWindows(v) ELSE {PublicWindow(w) : w \in v.windows}
             item == [v EXCEPT !.windows = ws]
  <2>2. Item(p, v) = item
    BY <1>1 DEF Item
  <2> HIDE DEF ws
  <2>3. /\ item.outcome = "snapshot" /\ item.why = "none" /\ item.state = v.state
        /\ item.windows = ws
    BY <2>1 DEF Snapshot, View
  <2> HIDE DEF item
  <2>4. /\ \A x, y \in ws : Identity(x) = Identity(y) => x = y
        /\ \A w \in ws : Sound(w)
        /\ v.state = "rate_limited" => \A w \in ws : w.kind = "technical_rate_limit"
    <3>1. CASE p = "opencode_go"
      BY <2>1, <3>1, OpenCodeAccepted DEF ws
    <3>2. CASE p # "opencode_go"
      <4>1. ws = {PublicWindow(w) : w \in v.windows}
        BY <3>2 DEF ws
      <4>2. /\ \A x, y \in v.windows : Identity(x) = Identity(y) => x = y
            /\ v.state = "rate_limited" => \A w \in v.windows : w.kind = "technical_rate_limit"
        BY <2>1 DEF ValidSnapshot
      <4>3. /\ \A x, y \in ws : Identity(x) = Identity(y) => x = y
            /\ \A w \in ws : Sound(w) /\ \E x \in v.windows : w.kind = x.kind
        BY <2>1, <4>1, <4>2, PublicWindows
      <4>. QED BY <4>2, <4>3
    <3>. QED BY <3>1, <3>2
  <2>5. p = "opencode_go" /\ v.state \in {"available", "partial"} =>
          LET commercial == {w \in ws : w.kind = "commercial_quota"} IN
          /\ {w.period : w \in commercial} = FixedPeriods
          /\ Cardinality(commercial) = Cardinality(FixedPeriods)
    BY <2>1, OpenCodeAccepted DEF ws
  <2>6. ValidSnapshot(item.state, item.windows)
    BY <2>2, <2>3, <2>4 DEF ValidSnapshot
  <2>7. \A w \in ws : AcceptedWindow(w) <=> ~Refused(w)
    BY <2>4 DEF AcceptedWindow, Sound
  <2>8. AcceptedWindows(p, item) <=> \A w \in ws : ~Refused(w)
    BY <2>3, <2>5, <2>6, <2>7 DEF AcceptedWindows
  <2>9. AcceptedItem(p, item) <=> AcceptedWindows(p, item)
    BY <2>3 DEF AcceptedItem
  <2>. QED BY <2>2, <2>3, <2>8, <2>9
<1>2. CASE v.outcome \in {"undetected", "not_run"}
  <2>1. Item(p, v) = v /\ (v = Undetected \/ v = NotRun(v.why))
    BY <1>2, ShownIs, ItemIs
  <2>2. v.windows = {}
    BY <2>1 DEF Undetected, NotRun, View
  <2>3. AcceptedItem(p, v)
    <3>1. CASE v.outcome = "undetected"
      BY <2>1, <3>1 DEF AcceptedItem, NotRun, View
    <3>2. CASE v.outcome = "not_run"
      BY <2>1, <3>2 DEF AcceptedItem, Undetected, View
    <3>. QED BY <1>2, <3>1, <3>2
  <2>. QED BY <2>1, <2>2, <2>3
<1>. QED BY <1>1, <1>2, ShownIs DEF Outcomes

(***************************************************************************)
(* The steps of a run.                                                     *)
(***************************************************************************)
LEMMA SaidHas ==
  ASSUME NEW p \in Providers
  PROVE  /\ Said(p) \subseteq Views /\ Answers(p) \subseteq Said(p) /\ Said(p) \subseteq Shown(p)
         /\ \A reason \in Reasons : NotRun(reason) \in Said(p)
         /\ SafeErrorView("configuration_invalid", "none") \in Said(p)
<1>1. SafeErrorView("configuration_invalid", "none") \in Failures(p)
  BY DEF Failures, Unexplained
<1>. QED BY <1>1 DEF Said, Views, Answers, Shown

LEMMA ViewsTyped ==
  ASSUME NEW vs, vs = [p \in Providers |-> vs[p]], \A p \in Providers : vs[p] \in Said(p)
  PROVE  vs \in [Providers -> Views]
BY SaidHas

LEMMA ConfigIs ==
  ASSUME NEW c \in Configs
  PROVE  c.on \subseteq Providers /\ c.bad \subseteq Providers /\ c.on \cap c.bad = {}
<1>1. PICK sections \in [Providers -> {"off", "on", "invalid"}], key \in BOOLEAN :
        c = LocalConfig(sections, key)
  BY DEF Configs
<1>. QED BY <1>1 DEF LocalConfig

(* A run starts from nothing. *)
LEMMA FreshIs ==
  ASSUME NEW c, c.on \subseteq Providers, c.bad \subseteq Providers, c.on \cap c.bad = {}, Fresh(c)
  PROVE  /\ cfg' = c /\ docError' = "none" /\ room' = MaxTooltip /\ claimed' = FALSE /\ raised' = FALSE
         /\ views' \in [Providers -> Views] /\ \A p \in Providers : views'[p] \in Said(p)
         /\ \A p \in c.bad : views'[p] = SafeErrorView("configuration_invalid", "none")
         /\ \A p \in Providers \ c.bad : views'[p] = NotRun("disabled")
         /\ returned' \in [Providers -> {NoView} \cup Views]
         /\ \A p \in Providers : returned'[p] = NoView
<1> USE DEF Fresh
<1>1. \A p \in Providers : views'[p] \in Said(p)
  BY SaidHas DEF Reasons
<1>2. views' = [p \in Providers |-> views'[p]]
  OBVIOUS
<1>. QED BY <1>1, <1>2, ViewsTyped

LEMMA NoConfigIs == NoConfig.on = {} /\ NoConfig.bad = {}
BY DEF NoConfig

LEMMA TypedStep == Typed /\ [Next]_vars => Typed'
<1> SUFFICES ASSUME Typed, [Next]_vars PROVE Typed'
  OBVIOUS
<1> USE DEF Typed, work
<1>0. ASSUME NEW c, c.on \subseteq Providers, c.bad \subseteq Providers, c.on \cap c.bad = {}, Fresh(c),
             pc' \in {"start", "cache", "attempt"}
      PROVE  Typed'
  <2>1. /\ cfg' = c /\ docError' = "none" /\ room' = MaxTooltip
        /\ views' \in [Providers -> Views] /\ \A p \in Providers : views'[p] \in Said(p)
        /\ returned' \in [Providers -> {NoView} \cup Views]
    BY <1>0, FreshIs
  <2>2. room' \in -1 .. MaxTooltip
    BY <2>1, LimitsAssumption
  <2>. QED BY <1>0, <2>1, <2>2
<1>1. CASE Reject
  <2>1. Fresh(NoConfig) /\ pc' = "start"
    BY <1>1 DEF Reject, Write
  <2>. QED BY <1>0, <2>1, NoConfigIs
<1>2. ASSUME NEW c \in Configs, Load(c) PROVE Typed'
  <2>1. Fresh(c) /\ pc' \in {"cache", "attempt"}
    BY <1>2 DEF Load
  <2>. QED BY <1>0, <2>1, ConfigIs
<1>3. CASE DeadlinePasses \/ Replay \/ Coordinate \/ Claim \/ ReportAbort \/ WriteLive \/ Publish
  BY <1>3 DEF DeadlinePasses, Replay, Coordinate, Claim, ReportAbort, WriteLive, Publish, Write
<1>4. CASE StartAttempt
  BY <1>4 DEF StartAttempt, KeepViews
<1>5. ASSUME NEW vs, views' = vs, vs = [p \in Providers |-> vs[p]],
             \A p \in Providers : vs[p] \in Said(p)
      PROVE  views' \in [Providers -> Views] /\ \A p \in Providers : views'[p] \in Said(p)
  BY <1>5, ViewsTyped
<1>6. \A reason \in Reasons : \A p \in Providers : NotRun(reason) \in Said(p)
  BY SaidHas
<1>7. ASSUME Abort PROVE /\ views' \in [Providers -> Views] /\ \A p \in Providers : views'[p] \in Said(p)
                         /\ docError' = docError
  <2> DEFINE vs == [p \in Providers |-> IF p \in cfg.bad THEN views[p] ELSE NotRun("document_aborted")]
  <2>1. \A p \in Providers : vs[p] \in Said(p)
    BY <1>6 DEF Reasons
  <2>. QED BY <1>5, <1>7, <2>1 DEF Abort
<1>8. CASE AcquireGuard
  <2>1. pc' \in {"cleanup", "codex", "opencode"} /\ UNCHANGED <<cfg, room, returned>>
    BY <1>8 DEF AcquireGuard, Settle, Abort
  <2>2. ASSUME NEW reason \in {"guard_wait_timeout", "document_aborted"}, NEW code,
               Settle([p \in Providers |-> NotRun(reason)], code)
        PROVE  views' \in [Providers -> Views] /\ \A p \in Providers : views'[p] \in Said(p)
    BY <1>5, <1>6, <2>2 DEF Settle, Reasons
  <2>3. CASE Settle([p \in Providers |-> IF p \in cfg.bad THEN views[p]
                                         ELSE NotRun("deadline_exhausted")], "deadline_exhausted")
    BY <1>5, <1>6, <2>1, <2>3 DEF Settle, Reasons
  <2>4. CASE Settle([p \in Providers |-> NotRun("guard_wait_timeout")], "guard_wait_timeout")
    BY <2>1, <2>2, <2>4 DEF Settle
  <2>5. CASE Settle([p \in Providers |-> NotRun("document_aborted")], "guard_acquisition_failed")
    BY <2>1, <2>2, <2>5 DEF Settle
  <2>6. CASE Abort
    BY <1>7, <2>1, <2>6
  <2>7. CASE KeepViews
    BY <2>1, <2>7 DEF KeepViews
  <2>. QED BY <1>8, <2>3, <2>4, <2>5, <2>6, <2>7 DEF AcquireGuard
<1>9. ASSUME NEW p \in Providers, NEW next, Return(p, next)
      PROVE  /\ views' \in [Providers -> Views] /\ \A q \in Providers : views'[q] \in Said(q)
             /\ returned' \in [Providers -> {NoView} \cup Views] /\ docError' = docError
  <2>1. PICK view \in Answers(p) \cup {NotRun("deadline_exhausted")} :
          views' = [views EXCEPT ![p] = view] /\ returned' = [returned EXCEPT ![p] = view]
    BY <1>9 DEF Return
  <2>2. view \in Said(p) /\ view \in Views
    BY SaidHas DEF Reasons
  <2>. QED BY <1>9, <2>1, <2>2 DEF Return
<1>10. CASE RunCodex
  <2>1. pc' \in {"cleanup", "opencode"} /\ UNCHANGED <<cfg, room>>
    BY <1>10 DEF RunCodex, Return, Abort
  <2>. QED BY <1>7, <1>9, <1>10, <2>1 DEF RunCodex, Providers
<1>11. CASE RunOpenCode
  <2>1. pc' = "cleanup" /\ UNCHANGED <<cfg, room>>
    BY <1>11 DEF RunOpenCode, Return, Abort, Settle
  <2>2. CASE Settle([views EXCEPT !["opencode_go"] = NotRun("deadline_exhausted")], "deadline_exhausted")
             /\ UNCHANGED returned
    <3> DEFINE vs == [views EXCEPT !["opencode_go"] = NotRun("deadline_exhausted")]
    <3>1. vs = [p \in Providers |-> vs[p]] /\ \A p \in Providers : vs[p] \in Said(p)
      BY <1>6 DEF Reasons
    <3>. QED BY <1>5, <2>1, <2>2, <3>1 DEF Settle
  <2>. QED BY <1>7, <1>9, <1>11, <2>1, <2>2 DEF RunOpenCode, Providers
<1>12. CASE Cleanup
  BY <1>12 DEF Cleanup
<1>13. CASE Decide
  <2>1. room' \in -1 .. MaxTooltip
    BY <1>13, RoomsAssumption, LimitsAssumption DEF Decide
  <2>. QED BY <1>13, <2>1 DEF Decide
<1>14. CASE UNCHANGED vars
  BY <1>14 DEF vars
<1>. QED BY <1>1, <1>2, <1>3, <1>4, <1>8, <1>10, <1>11, <1>12, <1>13, <1>14 DEF Next

LEMMA UnderwayStep == Typed /\ Underway /\ [Next]_vars => Underway'
<1> SUFFICES ASSUME Typed, Underway, [Next]_vars PROVE Underway'
  OBVIOUS
<1> USE DEF Underway, Early, work, Ready
<1>0. ASSUME UNCHANGED cfg PROVE Ready' = Ready
  BY <1>0
<1>1. CASE Reject
  <2>1. Fresh(NoConfig) /\ pc' = "start"
    BY <1>1 DEF Reject, Write
  <2>. QED BY <2>1 DEF Fresh
<1>2. ASSUME NEW c \in Configs, Load(c) PROVE Underway'
  <2>1. Fresh(c) /\ pc' = (IF c.bad = {} /\ Ready' # {} THEN "cache" ELSE "attempt")
    BY <1>2 DEF Load
  <2>2. cfg' = c /\ docError' = "none" /\ room' = MaxTooltip /\ claimed' = FALSE /\ raised' = FALSE
    BY <2>1 DEF Fresh
  <2>. QED BY <2>1, <2>2
<1>3. CASE DeadlinePasses \/ Replay \/ Coordinate \/ Claim \/ ReportAbort \/ WriteLive \/ Publish
  BY <1>3 DEF DeadlinePasses, Replay, Coordinate, Claim, ReportAbort, WriteLive, Publish, Write
<1>4. CASE StartAttempt
  BY <1>4 DEF StartAttempt, KeepViews
<1>5. CASE AcquireGuard
  <2>1. UNCHANGED <<cfg, claimed, room>> /\ pc = "guard"
    BY <1>5 DEF AcquireGuard
  <2>2. CASE pc' = "cleanup"
    BY <2>1, <2>2
  <2>3. CASE pc' # "cleanup"
    <3>1. pc' = (IF "codex" \in Ready THEN "codex" ELSE "opencode") /\ UNCHANGED <<docError, raised>>
      BY <1>5, <2>3 DEF AcquireGuard, Settle, Abort, KeepViews
    <3>2. pc' = "codex" => "codex" \in Ready
      BY <3>1
    <3>3. pc' = "opencode" => "opencode_go" \in Ready
      BY <2>1, <3>1 DEF Typed, Providers
    <3>4. pc' \in {"codex", "opencode"}
      BY <3>1
    <3> HIDE DEF Ready
    <3>. QED BY <1>0, <2>1, <3>1, <3>2, <3>3, <3>4
  <2>. QED BY <2>2, <2>3
<1>6. CASE RunCodex
  <2>1. UNCHANGED <<cfg, claimed, room>> /\ pc = "codex"
    BY <1>6 DEF RunCodex
  <2>2. CASE pc' = "cleanup"
    BY <2>1, <2>2
  <2>3. CASE pc' # "cleanup"
    BY <1>6, <2>1, <2>3 DEF RunCodex, Return, Abort
  <2>. QED BY <2>2, <2>3
<1>7. CASE RunOpenCode
  <2>1. UNCHANGED <<cfg, claimed, room>> /\ pc = "opencode" /\ pc' = "cleanup"
    BY <1>7 DEF RunOpenCode, Return, Abort, Settle
  <2>. QED BY <2>1
<1>8. CASE Cleanup
  BY <1>8 DEF Cleanup
<1>9. CASE Decide
  BY <1>9 DEF Decide
<1>10. CASE UNCHANGED vars
  BY <1>10 DEF vars
<1>. QED BY <1>1, <1>2, <1>3, <1>4, <1>5, <1>6, <1>7, <1>8, <1>9, <1>10 DEF Next

(* What a provider answers when it is called. *)
LEMMA AnswerIs ==
  ASSUME NEW p \in Providers, NEW view \in Answers(p) \cup {NotRun("deadline_exhausted")}
  PROVE  view.why \notin {"disabled", "guard_wait_timeout", "document_aborted"}
<1>1. CASE view \in Snapshots[p]
  BY <1>1, SnapshotsAssumption DEF Snapshot, View
<1>2. CASE view \in Failures(p)
  BY <1>2 DEF Failures, Unexplained, SafeErrorView, View
<1>3. CASE view \in {Undetected, NotRun("deadline_exhausted")}
  BY <1>3 DEF Undetected, NotRun, View
<1>. QED BY <1>1, <1>2, <1>3 DEF Answers

LEMMA NotRunIs ==
  ASSUME NEW reason
  PROVE  NotRun(reason).why = reason /\ NotRun(reason).outcome \notin Usable
BY DEF NotRun, View, Usable

LEMMA ToldStep == Typed /\ Underway /\ Told /\ [Next]_vars => Told'
<1> SUFFICES ASSUME Typed, Underway, Told, [Next]_vars PROVE Told'
  OBVIOUS
<1> USE DEF Told, Early, work, Called
<1>a. UNCHANGED cfg => Ready' = Ready
  BY DEF Ready
<1>b. Ready \subseteq Providers /\ Ready \cap cfg.bad = {}
  BY DEF Ready, Typed
<1>0. ASSUME NEW c, c.on \subseteq Providers, c.bad \subseteq Providers, c.on \cap c.bad = {}, Fresh(c),
             pc' \in {"start", "cache", "attempt"}
      PROVE  Told'
  <2>1. /\ cfg' = c /\ docError' = "none"
        /\ \A p \in c.bad : views'[p] = SafeErrorView("configuration_invalid", "none")
        /\ \A p \in Providers \ c.bad : views'[p] = NotRun("disabled")
        /\ \A p \in Providers : returned'[p] = NoView
    BY <1>0, FreshIs
  <2>2. /\ SafeErrorView("configuration_invalid", "none").outcome \notin Usable
        /\ SafeErrorView("configuration_invalid", "none").why = "configuration_invalid"
    BY DEF SafeErrorView, View, Usable
  <2>. QED BY <1>0, <2>1, <2>2, NotRunIs
<1>1. CASE Reject
  <2>1. Fresh(NoConfig) /\ pc' = "start"
    BY <1>1 DEF Reject, Write
  <2>. QED BY <1>0, <2>1, NoConfigIs
<1>2. ASSUME NEW c \in Configs, Load(c) PROVE Told'
  <2>1. Fresh(c) /\ pc' \in {"cache", "attempt"}
    BY <1>2 DEF Load
  <2>. QED BY <1>0, <2>1, ConfigIs
<1>3. CASE DeadlinePasses \/ Replay \/ Coordinate \/ Claim \/ ReportAbort \/ WriteLive \/ Publish
  BY <1>a, <1>3 DEF DeadlinePasses, Replay, Coordinate, Claim, ReportAbort, WriteLive, Publish, Write
<1>4. CASE StartAttempt
  BY <1>a, <1>4 DEF StartAttempt, KeepViews
<1>5. ASSUME Abort, UNCHANGED <<cfg, returned>>
      PROVE  Told'
  <2>1. /\ \A p \in cfg.bad : views'[p] = views[p]
        /\ \A p \in Providers \ cfg.bad : views'[p] = NotRun("document_aborted")
        /\ raised' /\ UNCHANGED docError /\ pc' = "cleanup"
    BY <1>5 DEF Abort, Typed
  <2>. QED BY <1>a, <1>b, <1>5, <2>1, NotRunIs DEF Typed
<1>6. CASE AcquireGuard
  <2>1. /\ UNCHANGED <<cfg, returned>> /\ pc = "guard"
        /\ \A p \in Providers : returned[p] = NoView
    BY <1>6 DEF AcquireGuard
  <2>2. ASSUME NEW reason \in {"guard_wait_timeout", "document_aborted"}, NEW code, code # "none",
               Settle([p \in Providers |-> NotRun(reason)], code)
        PROVE  Told'
    BY <1>a, <1>b, <2>1, <2>2, NotRunIs DEF Settle, Typed
  <2>3. CASE Settle([p \in Providers |-> IF p \in cfg.bad THEN views[p]
                                         ELSE NotRun("deadline_exhausted")], "deadline_exhausted")
    <3>1. /\ \A p \in cfg.bad : views'[p] = views[p]
          /\ \A p \in Providers \ cfg.bad : views'[p] = NotRun("deadline_exhausted")
          /\ docError' = "deadline_exhausted" /\ pc' = "cleanup"
      BY <2>3 DEF Settle, Typed
    <3>. QED BY <1>a, <1>b, <2>1, <3>1, NotRunIs DEF Typed
  <2>4. CASE KeepViews /\ pc' = IF "codex" \in Ready THEN "codex" ELSE "opencode"
    BY <1>a, <1>b, <2>1, <2>4 DEF KeepViews
  <2>. QED BY <1>5, <1>6, <2>1, <2>2, <2>3, <2>4 DEF AcquireGuard
<1>7. CASE RunCodex
  <2>1. pc = "codex" /\ UNCHANGED cfg /\ "codex" \in Ready /\ docError = "none" /\ ~raised
        /\ returned["opencode_go"] = NoView
    BY <1>7 DEF RunCodex, Underway, Providers
  <2>2. CASE Return("codex", IF "opencode_go" \in Ready THEN "opencode" ELSE "cleanup")
    <3>1. PICK view \in Answers("codex") \cup {NotRun("deadline_exhausted")} :
            views' = [views EXCEPT !["codex"] = view] /\ returned' = [returned EXCEPT !["codex"] = view]
      BY <2>2 DEF Return
    <3>2. view.why \notin {"disabled", "guard_wait_timeout", "document_aborted"}
      BY AnswerIs DEF Providers
    <3>3. /\ views'["codex"] = view /\ returned'["codex"] = view
          /\ views'["opencode_go"] = views["opencode_go"]
          /\ returned'["opencode_go"] = returned["opencode_go"]
      BY <3>1 DEF Typed, Providers
    <3>4. /\ UNCHANGED <<docError, raised>>
          /\ pc' = IF "opencode_go" \in Ready THEN "opencode" ELSE "cleanup"
      BY <2>2 DEF Return
    <3>5. Ready' = Ready /\ Providers = {"codex", "opencode_go"} /\ "codex" \notin cfg.bad
      BY <1>a, <1>b, <2>1 DEF Providers
    <3>6. Called("opencode_go")' => "opencode_go" \notin Ready
      BY <3>4
    <3>7. /\ \A p \in Providers : views'[p].outcome \in Usable => p \in Ready'
          /\ \A p \in cfg'.bad : views'[p].why # "disabled"
      BY <2>1, <3>2, <3>3, <3>5 DEF Typed
    <3>8. /\ \A p \in Ready' : Called(p)' => views'[p].why # "disabled"
          /\ docError' = "none" =>
               \A p \in Providers : /\ views'[p].why # "guard_wait_timeout"
                                    /\ raised' \/ views'[p].why # "document_aborted"
      <4> HIDE DEF Called
      <4>. QED BY <1>b, <2>1, <3>2, <3>3, <3>4, <3>5, <3>6
    <3>9. /\ \A p \in Providers : returned'[p] # NoView => p \in Ready' /\ (raised' \/ views'[p] = returned'[p])
          /\ \A p \in Providers : pc' \in Early /\ ~Called(p)' => returned'[p] = NoView
      BY <2>1, <3>3, <3>4, <3>5
    <3>. QED BY <3>7, <3>8, <3>9
  <2>. QED BY <1>5, <1>7, <2>1, <2>2 DEF RunCodex
<1>8. CASE RunOpenCode
  <2>1. pc = "opencode" /\ UNCHANGED cfg /\ "opencode_go" \in Ready /\ docError = "none" /\ ~raised
        /\ returned["opencode_go"] = NoView
    BY <1>8 DEF RunOpenCode, Underway, Providers
  <2>2. CASE Return("opencode_go", "cleanup")
    <3>1. PICK view \in Answers("opencode_go") \cup {NotRun("deadline_exhausted")} :
            /\ views' = [views EXCEPT !["opencode_go"] = view]
            /\ returned' = [returned EXCEPT !["opencode_go"] = view]
      BY <2>2 DEF Return
    <3>2. view.why \notin {"disabled", "guard_wait_timeout", "document_aborted"}
      BY AnswerIs DEF Providers
    <3>3. /\ views'["opencode_go"] = view /\ returned'["opencode_go"] = view
          /\ views'["codex"] = views["codex"] /\ returned'["codex"] = returned["codex"]
      BY <3>1 DEF Typed, Providers
    <3>4. UNCHANGED <<docError, raised>> /\ pc' = "cleanup"
      BY <2>2 DEF Return
    <3>5. Ready' = Ready /\ Providers = {"codex", "opencode_go"} /\ "opencode_go" \notin cfg.bad
      BY <1>a, <1>b, <2>1 DEF Providers
    <3>6. "codex" \in Ready => views["codex"].why # "disabled"
      BY <2>1
    <3>7. /\ \A p \in Providers : views'[p].outcome \in Usable => p \in Ready'
          /\ \A p \in cfg'.bad : views'[p].why # "disabled"
      BY <2>1, <3>2, <3>3, <3>5 DEF Typed
    <3>8. /\ \A p \in Ready' : Called(p)' => views'[p].why # "disabled"
          /\ docError' = "none" =>
               \A p \in Providers : /\ views'[p].why # "guard_wait_timeout"
                                    /\ raised' \/ views'[p].why # "document_aborted"
      <4> HIDE DEF Called
      <4>. QED BY <1>b, <2>1, <3>2, <3>3, <3>4, <3>5, <3>6
    <3>9. /\ \A p \in Providers : returned'[p] # NoView => p \in Ready' /\ (raised' \/ views'[p] = returned'[p])
          /\ \A p \in Providers : pc' \in Early /\ ~Called(p)' => returned'[p] = NoView
      BY <2>1, <3>3, <3>4, <3>5
    <3>. QED BY <3>7, <3>8, <3>9
  <2>3. CASE /\ Settle([views EXCEPT !["opencode_go"] = NotRun("deadline_exhausted")], "deadline_exhausted")
             /\ UNCHANGED returned
    <3>1. /\ views'["opencode_go"] = NotRun("deadline_exhausted") /\ views'["codex"] = views["codex"]
          /\ UNCHANGED returned /\ pc' = "cleanup" /\ docError' = "deadline_exhausted"
      BY <2>3 DEF Settle, Typed, Providers
    <3>2. /\ Ready' = Ready /\ Providers = {"codex", "opencode_go"} /\ "opencode_go" \notin cfg.bad
          /\ UNCHANGED raised
      BY <1>a, <1>b, <2>1, <2>3 DEF Providers, Settle
    <3>3. "codex" \in Ready => views["codex"].why # "disabled"
      BY <2>1
    <3>4. /\ \A p \in Providers : views'[p].outcome \in Usable => p \in Ready'
          /\ \A p \in cfg'.bad : views'[p].why # "disabled"
      BY <2>1, <3>1, <3>2, NotRunIs DEF Typed
    <3>5. \A p \in Ready' : views'[p].why # "disabled"
      BY <1>b, <3>1, <3>2, <3>3, NotRunIs
    <3>6. \A p \in Providers : returned'[p] # NoView => p \in Ready' /\ (raised' \/ views'[p] = returned'[p])
      BY <2>1, <3>1, <3>2
    <3>. QED BY <3>1, <3>4, <3>5, <3>6
  <2>. QED BY <1>5, <1>8, <2>1, <2>2, <2>3 DEF RunOpenCode
<1>9. CASE Cleanup
  BY <1>a, <1>9 DEF Cleanup
<1>10. CASE Decide
  <2>1. pc = "decide" /\ pc' \in {"publish", "project"} /\ UNCHANGED <<cfg, views, docError, raised, returned>>
    BY <1>10 DEF Decide
  <2>. QED BY <1>a, <2>1
<1>11. CASE UNCHANGED vars
  BY <1>a, <1>11 DEF vars
<1>. QED BY <1>1, <1>2, <1>3, <1>4, <1>6, <1>7, <1>8, <1>9, <1>10, <1>11 DEF Next

LEMMA PreparedStep == Typed /\ Underway /\ Prepared /\ [Next]_vars => Prepared'
<1> SUFFICES ASSUME Typed, Underway, Prepared, [Next]_vars, pc' = "publish" PROVE Prepared'
  BY DEF Prepared
<1> USE DEF Prepared, work
<1>0. UNCHANGED <<views, docError>> => Cacheable' = Cacheable
  BY DEF Cacheable
<1>1. CASE Decide
  BY <1>0, <1>1 DEF Decide
<1>2. CASE DeadlinePasses
  BY <1>0, <1>2 DEF DeadlinePasses
<1>3. CASE UNCHANGED vars
  BY <1>0, <1>3 DEF vars
<1>4. ASSUME NEW c \in Configs, Load(c) PROVE FALSE
  BY <1>4 DEF Load
<1>5. CASE Reject \/ Replay \/ Coordinate \/ Claim \/ ReportAbort \/ WriteLive \/ Publish
  BY <1>5 DEF Reject, Replay, Coordinate, Claim, ReportAbort, WriteLive, Publish, Write
<1>6. CASE StartAttempt \/ AcquireGuard \/ RunCodex \/ RunOpenCode \/ Cleanup
  BY <1>6 DEF StartAttempt, AcquireGuard, RunCodex, RunOpenCode, Cleanup, Settle, Abort, Return
<1>. QED BY <1>1, <1>2, <1>3, <1>4, <1>5, <1>6 DEF Next

(* The bytes that are published are the projection of the views of a run   *)
(* that had no error.                                                      *)
LEMMA PublishedIs ==
  ASSUME Typed, Told, Prepared, pc = "publish", payload # NoDoc, payload.error = NoError
  PROVE  /\ docError = "none" /\ payload.state \in {"complete", "partial", "not_run", "execution_error"}
         /\ payload.cut = room /\ ~NobodyUsable(payload)
         /\ \A p \in Providers :
              /\ payload.providers[p] = Item(p, views[p])
              /\ payload.providers[p].outcome # "execution_error"
              /\ payload.providers[p].outcome \in Usable => p \in Ready
              /\ payload.providers[p].why = "disabled" => p \notin Ready \cup cfg.bad
              /\ payload.providers[p].outcome # "not_run" => payload.providers[p].why = "none"
<1>1. Cacheable /\ payload = Project(views, docError, room)
  BY DEF Prepared
<1>2. /\ docError = "none" /\ \A p \in Providers : views[p].outcome # "execution_error"
      /\ \E p \in Providers : views[p].outcome \in Usable
  BY <1>1 DEF Cacheable
<1>3. \A p \in Providers : views[p] \in Shown(p) /\ views[p].outcome \in Outcomes
  BY SaidHas, ShownIs DEF Typed
<1>4. payload # Failure("internal_error")
  BY FailureIs DEF Codes
<1>5. /\ payload.state = Classify(views, docError)[1] /\ payload.cut = room
      /\ \A p \in Providers : payload.providers[p] = Item(p, views[p])
  BY <1>1, <1>4, ProjectIs DEF Typed
<1>6. payload.state \in {"complete", "partial", "not_run", "execution_error"}
  BY <1>2, <1>3, <1>5, ClassifyIs DEF DocErrors
<1>7. ASSUME NEW p \in Providers
      PROVE  /\ Item(p, views[p]).outcome = views[p].outcome
             /\ Item(p, views[p]).why = "disabled" => views[p].why = "disabled"
             /\ Item(p, views[p]).outcome \in {"snapshot", "undetected"} => Item(p, views[p]).why = "none"
  <2>1. Undetected.why = "none"
    BY DEF Undetected, View
  <2>. QED BY <1>3, <2>1, ItemIs, ShownIs
<1>8. \A p \in Ready \cup cfg.bad : views[p].why # "disabled"
  BY DEF Told, Called
<1>9. \A p \in Providers : views[p].outcome \in Usable => p \in Ready
  BY DEF Told
<1>10. ~NobodyUsable(payload)
  BY <1>2, <1>5, <1>7 DEF NobodyUsable
<1>. QED BY <1>2, <1>3, <1>5, <1>6, <1>7, <1>8, <1>9, <1>10 DEF Outcomes

LEMMA ReadyIs == ReadyFor(Fingerprint(cfg)) = Ready
BY DEF ReadyFor, Fingerprint, Ready

LEMMA NoConfigAllowed == NoConfig \in Configs
<1> DEFINE off == [p \in Providers |-> "off"]
<1>1. off \in [Providers -> {"off", "on", "invalid"}]
  OBVIOUS
<1>2. {p \in Providers : off[p] = "on"} = {} /\ {p \in Providers : off[p] = "invalid"} = {}
  OBVIOUS
<1> HIDE DEF off
<1>3. LocalConfig(off, FALSE) = NoConfig
  BY <1>2 DEF LocalConfig, NoConfig
<1>4. \E sections \in [Providers -> {"off", "on", "invalid"}], key \in BOOLEAN :
        NoConfig = LocalConfig(sections, key)
  BY <1>1, <1>3, Zenon
<1>. QED BY ONLY <1>4, SMT DEF Configs

LEMMA StoredStep == Typed /\ Told /\ Prepared /\ Stored /\ [Next]_vars => Stored'
<1> SUFFICES ASSUME Typed, Told, Prepared, Stored, [Next]_vars PROVE Stored'
  OBVIOUS
<1> USE DEF Stored, work
<1>0. ASSUME cfg' \in Configs, UNCHANGED cache PROVE Stored'
  BY <1>0
<1>1. CASE Reject
  <2>1. cfg' = NoConfig /\ UNCHANGED cache
    BY <1>1 DEF Reject, Fresh
  <2>. QED BY <1>0, <2>1, NoConfigAllowed
<1>2. ASSUME NEW c \in Configs, Load(c) PROVE Stored'
  <2>1. cfg' = c /\ UNCHANGED cache
    BY <1>2 DEF Load, Fresh
  <2>. QED BY <1>0, <2>1
<1>3. CASE DeadlinePasses \/ Replay \/ Coordinate \/ Claim \/ ReportAbort \/ WriteLive
  BY <1>0, <1>3 DEF DeadlinePasses, Replay, Coordinate, Claim, ReportAbort, WriteLive
<1>4. CASE StartAttempt \/ AcquireGuard \/ RunCodex \/ RunOpenCode \/ Cleanup \/ Decide
  BY <1>0, <1>4 DEF StartAttempt, AcquireGuard, RunCodex, RunOpenCode, Cleanup, Decide
<1>5. CASE Publish
  <2>1. CASE UNCHANGED cache
    BY <1>0, <1>5, <2>1 DEF Publish
  <2>2. CASE /\ pc = "publish" /\ payload # NoDoc /\ Publishable(payload, room)
             /\ cache' = [cache EXCEPT ![Fingerprint(cfg)] = [doc |-> payload, room |-> room]]
             /\ UNCHANGED cfg
    <3>1. payload.error = NoError
      BY <2>2 DEF Publishable
    <3>2. /\ payload.state \in {"complete", "partial", "not_run", "execution_error"}
          /\ ~NobodyUsable(payload)
          /\ \A p \in Providers :
              /\ payload.providers[p].outcome # "execution_error"
              /\ payload.providers[p].outcome \in Usable => p \in Ready
              /\ payload.providers[p].why = "disabled" => p \notin Ready
              /\ payload.providers[p].outcome # "not_run" => payload.providers[p].why = "none"
      BY <2>2, <3>1, PublishedIs
    <3>3. payload.state \notin {"not_run", "execution_error"}
      BY <2>2, <3>1 DEF Publishable, Accepted, Usable
    <3>4. \A p \in Providers : payload.providers[p].why \notin Timing
      BY <2>2, <3>2 DEF Publishable, Timing
    <3>5. Fit(payload, Fingerprint(cfg))
      BY <3>1, <3>2, <3>3, <3>4, ReadyIs DEF Fit
    <3>6. /\ DOMAIN cache' = DOMAIN cache
          /\ \A f \in DOMAIN cache : f # Fingerprint(cfg) => cache'[f] = cache[f]
          /\ Fingerprint(cfg) \in DOMAIN cache => cache'[Fingerprint(cfg)].doc = payload
      BY <2>2
    <3>. QED BY <2>2, <3>5, <3>6
  <2>. QED BY <1>5, <2>1, <2>2 DEF Publish
<1>6. CASE UNCHANGED vars
  BY <1>0, <1>6 DEF vars
<1>. QED BY <1>1, <1>2, <1>3, <1>4, <1>5, <1>6 DEF Next

(***************************************************************************)
(* What a run writes.                                                      *)
(***************************************************************************)
(* What is said of the output once it is written; the second part of       *)
(* CacheServesThisRun, ReturnedIsShown and ExitTellsDocument without their *)
(* guards.                                                                 *)
ServesThisRun ==
  \A p \in Providers :
    /\ out.doc.providers[p].outcome \in Usable => p \in Ready
    /\ out.doc.providers[p].why = "disabled" => p \notin Ready \cup cfg.bad
ShowsReturned ==
  \/ out.doc = Failure("internal_error")
  \/ raised
  \/ /\ \A p \in Providers : returned[p] # NoView => out.doc.providers[p] = Item(p, returned[p])
     /\ out.doc.cut = room \/ out.doc = Cached.doc
TellsDocument ==
  \/ out.doc = Failure("internal_error")
  \/ out.exit # 2 /\ NobodyUsable(out.doc) /\ LateSomebody(out.doc)
  \/ /\ (out.exit = 0) = (out.doc.error = NoError)
     /\ (out.exit = 1) = (out.doc.error.code = "provider_failed")
     /\ (out.diag = "none") = (out.exit = 0)
     /\ out.exit = 0 /\ NobodyUsable(out.doc)
          => \A p \in Providers : out.doc.providers[p] = NotRun("disabled")
     /\ out.exit = 1 => NobodyUsable(out.doc)

Answered == pc = "start" /\ out.doc # NoDoc => ServesThisRun /\ ShowsReturned /\ TellsDocument

(* A refusal says what it is, and nothing of the providers. *)
Refusal(doc, code) ==
  /\ doc.error # NoError /\ doc.error.code = code /\ doc.cut = MaxTooltip
  /\ \A p \in Providers : doc.providers[p].outcome = "not_run" /\ doc.providers[p].why # "disabled"

LEMMA FailureRefuses ==
  ASSUME NEW code \in Codes
  PROVE  Refusal(Failure(code), code)
BY FailureIs DEF Refusal

LEMMA NotRunRefuses ==
  ASSUME NEW code \in {"guard_wait_timeout", "deadline_exhausted"}
  PROVE  NotRunDocument(code) = Failure("internal_error") \/ Refusal(NotRunDocument(code), code)
<1> DEFINE vs == [p \in Providers |-> NotRun(code)]
           doc == Project(vs, code, MaxTooltip)
<1>1. \A p \in Providers : vs[p] = NotRun(code) /\ vs[p] \in Shown(p)
  BY SaidHas DEF Reasons
<1>2. NotRun(code).outcome = "not_run" /\ NotRun(code).why = code
  BY DEF NotRun, View
<1>3. /\ \A p \in Providers : vs[p].outcome \in Outcomes
      /\ code \in DocErrors /\ code # "none" /\ MaxTooltip \in -1 .. MaxTooltip
  BY <1>1, <1>2, LimitsAssumption DEF DocErrors, Outcomes
<1>4. \A p \in Providers : Item(p, vs[p]) = NotRun(code)
  BY <1>1, <1>2, ItemIs
<1> HIDE DEF vs
<1>5. Classify(vs, code)[2] # NoError /\ Classify(vs, code)[2].code = code
  BY <1>3, ClassifyIs
<1>6. \/ doc = Failure("internal_error")
      \/ /\ doc.error = Classify(vs, code)[2] /\ doc.cut = MaxTooltip
         /\ \A p \in Providers : doc.providers[p] = Item(p, vs[p])
  BY <1>3, ProjectIs
<1>7. NotRunDocument(code) = doc
  BY DEF NotRunDocument, vs
<1> HIDE DEF doc
<1>. QED BY <1>2, <1>4, <1>5, <1>6, <1>7 DEF Refusal

(* Whoever is refused has got an answer that is true. *)
LEMMA RefusalAnswers ==
  ASSUME NEW code \in Codes, Refusal(out'.doc, code) \/ out'.doc = Failure("internal_error"),
         out'.exit = 2, out'.diag # "none",
         raised' \/ (room' = MaxTooltip /\ \A p \in Providers : returned'[p] = NoView)
  PROVE  Answered'
<1>1. Refusal(out'.doc, code) \/ Refusal(out'.doc, "internal_error")
  BY FailureRefuses DEF Codes
<1>2. ServesThisRun'
  BY <1>1 DEF ServesThisRun, Refusal, Usable
<1>3. ShowsReturned'
  BY DEF ShowsReturned, Refusal
<1>4. TellsDocument'
  BY DEF TellsDocument, Refusal, Codes
<1>. QED BY <1>2, <1>3, <1>4 DEF Answered

LEMMA CoordinateAnswers == Typed /\ Underway /\ Told /\ Coordinate => Answered'
<1> SUFFICES ASSUME Typed, Underway, Told, Coordinate PROVE Answered'
  OBVIOUS
<1>1. room' = MaxTooltip /\ \A p \in Providers : returned'[p] = NoView
  BY DEF Coordinate, Underway, Told, Early, Called, work
<1>2. CASE Write(NotRunDocument("guard_wait_timeout"), 2, "guard_wait_timeout")
  BY <1>1, <1>2, NotRunRefuses, RefusalAnswers DEF Write, Codes
<1>3. CASE Write(NotRunDocument("deadline_exhausted"), 2, "runtime_error")
  BY <1>1, <1>3, NotRunRefuses, RefusalAnswers DEF Write, Codes
<1>4. ASSUME NEW code \in {"guard_acquisition_failed", "internal_error"},
             Write(Failure(code), 2, "runtime_error")
      PROVE  Answered'
  BY <1>1, <1>4, FailureRefuses, RefusalAnswers DEF Write, Codes
<1>. QED BY <1>2, <1>3, <1>4 DEF Coordinate

LEMMA RejectAnswers == Reject => Answered'
<1> SUFFICES ASSUME Reject PROVE Answered'
  OBVIOUS
<1>1. room' = MaxTooltip /\ \A p \in Providers : returned'[p] = NoView
  BY FreshIs, NoConfigIs DEF Reject
<1>2. CASE Write(NoDoc, 2, "unsupported_platform")
  BY <1>2 DEF Write, Answered
<1>3. ASSUME NEW code \in {"invocation_invalid", "deadline_exhausted", "configuration_invalid"},
             NEW diag, diag # "none", Write(Failure(code), 2, diag)
      PROVE  Answered'
  BY <1>1, <1>3, FailureRefuses, RefusalAnswers DEF Write, Codes
<1>. QED BY <1>2, <1>3 DEF Reject

LEMMA AbortAnswers == ReportAbort => Answered'
<1> SUFFICES ASSUME ReportAbort PROVE Answered'
  OBVIOUS
<1>1. raised'
  BY DEF ReportAbort, work
<1>2. CASE Write(NotRunDocument("deadline_exhausted"), 2, "runtime_error")
  BY <1>1, <1>2, NotRunRefuses, RefusalAnswers DEF Write, Codes
<1>3. CASE Write(Failure("internal_error"), 2, "runtime_error")
  BY <1>1, <1>3, RefusalAnswers DEF Write, Codes
<1>. QED BY <1>2, <1>3 DEF ReportAbort

LEMMA ReplayAnswers == Typed /\ Underway /\ Told /\ Stored /\ Replay => Answered'
<1> SUFFICES ASSUME Typed, Underway, Told, Stored, Replay PROVE Answered'
  OBVIOUS
<1> DEFINE doc == Cached.doc
<1>1. /\ pc = "cache" /\ doc # NoDoc /\ UNCHANGED <<cfg, cache, raised, room, returned>>
      /\ out'.doc = doc /\ out'.exit = 0 /\ out'.diag = "none"
  BY DEF Replay, Write, work
<1>2. Fingerprint(cfg) \in DOMAIN cache
  BY DEF Stored
<1>3. Fit(doc, Fingerprint(cfg))
  BY <1>1, <1>2 DEF Stored, Cached
<1>4. cfg.bad = {} /\ \A p \in Providers : returned[p] = NoView
  BY <1>1 DEF Underway, Told, Early, Called
<1>5. Ready' = Ready /\ Cached' = Cached
  BY <1>1 DEF Ready, Cached
<1> HIDE DEF doc
<1>6. ServesThisRun'
  BY <1>1, <1>3, <1>4, <1>5, ReadyIs DEF Fit, ServesThisRun
<1>7. ShowsReturned'
  BY <1>1, <1>4, <1>5 DEF ShowsReturned, doc
<1>8. TellsDocument'
  BY <1>1, <1>3 DEF TellsDocument, Fit, NoError, NobodyUsable
<1>. QED BY <1>6, <1>7, <1>8 DEF Answered

LEMMA PublishAnswers == Typed /\ Underway /\ Told /\ Prepared /\ Publish => Answered'
<1> SUFFICES ASSUME Typed, Underway, Told, Prepared, Publish, pc' = "start" PROVE Answered'
  BY DEF Answered
<1>1. /\ pc = "publish" /\ payload # NoDoc /\ payload.error = NoError
      /\ UNCHANGED <<cfg, raised, room, returned>>
      /\ out'.doc = payload /\ out'.exit = 0 /\ out'.diag = "none"
  BY DEF Publish, Publishable, Write, work
<1>2. /\ payload.cut = room /\ ~NobodyUsable(payload)
      /\ \A p \in Providers :
           /\ payload.providers[p] = Item(p, views[p])
           /\ payload.providers[p].outcome \in Usable => p \in Ready
           /\ payload.providers[p].why = "disabled" => p \notin Ready \cup cfg.bad
  BY <1>1, PublishedIs
<1>3. ServesThisRun'
  BY <1>1, <1>2 DEF ServesThisRun, Ready
<1>4. \A p \in Providers : returned[p] # NoView => raised \/ views[p] = returned[p]
  BY DEF Told
<1>5. ShowsReturned'
  BY <1>1, <1>2, <1>4 DEF ShowsReturned
<1>6. TellsDocument'
  BY <1>1, <1>2 DEF TellsDocument, NoError, NobodyUsable
<1>. QED BY <1>3, <1>5, <1>6 DEF Answered

LEMMA LiveAnswers == Typed /\ Underway /\ Told /\ WriteLive => Answered'
<1> SUFFICES ASSUME Typed, Underway, Told, WriteLive PROVE Answered'
  OBVIOUS
<1> DEFINE doc == Project(Overlaid, docError, room)
           code == ExitCode(Overlaid, docError)
<1>1. /\ pc = "project" /\ UNCHANGED <<cfg, raised, room, returned>>
      /\ out'.doc = doc /\ out'.exit = code /\ out'.diag = Diagnostic(code, docError)
  BY DEF WriteLive, Write, Live, work
<1>2. \A p \in Providers : /\ p \in cfg.bad => Overlaid[p] = SafeErrorView("provider_error", "none")
                           /\ p \notin cfg.bad => Overlaid[p] = views[p]
                           /\ Overlaid[p] \in Shown(p)
  BY SaidHas DEF Overlaid, Shown, Typed
<1>3. \A p \in Providers : Overlaid[p].outcome \in Outcomes
  BY <1>2, ShownIs
<1>4. docError \in DocErrors /\ room \in -1 .. MaxTooltip /\ ~raised
  BY <1>1 DEF Typed, DocErrors, Underway
<1>5. \/ doc = Failure("internal_error")
      \/ /\ doc.error = Classify(Overlaid, docError)[2] /\ doc.cut = room
         /\ \A p \in Providers : doc.providers[p] = Item(p, Overlaid[p])
  BY <1>4, ProjectIs
<1> HIDE DEF doc
<1>6. CASE doc = Failure("internal_error")
  <2>1. ServesThisRun'
    BY <1>1, <1>6, FailureRefuses DEF ServesThisRun, Refusal, Codes, Usable
  <2>. QED BY <1>1, <1>6, <2>1 DEF Answered, ShowsReturned, TellsDocument
<1>7. CASE doc # Failure("internal_error")
  <2>1. /\ SafeErrorView("provider_error", "none").outcome \notin Usable
        /\ SafeErrorView("provider_error", "none").why # "disabled"
    BY DEF SafeErrorView, View, Usable
  <2>2. ASSUME NEW p \in Providers
        PROVE  /\ doc.providers[p].outcome \in Usable => p \in Ready
               /\ doc.providers[p].why = "disabled" => p \notin Ready \cup cfg.bad
    <3>1. /\ doc.providers[p].outcome = Overlaid[p].outcome
          /\ doc.providers[p].why = "disabled" => Overlaid[p].why = "disabled"
      BY <1>2, <1>5, <1>7, ItemIs
    <3>2. /\ views[p].outcome \in Usable => p \in Ready
          /\ views[p].why = "disabled" => p \notin Ready
      BY <1>1 DEF Told, Called
    <3>. QED BY <1>2, <2>1, <3>1, <3>2
  <2>3. ServesThisRun'
    BY <1>1, <2>2 DEF ServesThisRun, Ready
  <2>4. \A p \in Providers : returned[p] # NoView => views[p] = returned[p] /\ p \notin cfg.bad
    BY <1>4 DEF Told, Ready, Typed
  <2>5. ShowsReturned'
    BY <1>1, <1>2, <1>5, <1>7, <2>4 DEF ShowsReturned
  <2>6. /\ (code = 0) = (doc.error = NoError)
        /\ (code = 1) = (doc.error.code = "provider_failed")
    <3>1. CASE docError # "none"
      <4>1. doc.error # NoError /\ doc.error.code = docError /\ code = 2
        BY <1>3, <1>4, <1>5, <1>7, <3>1, ClassifyIs
      <4>. QED BY <1>4, <4>1 DEF DocErrors
    <3>2. CASE docError = "none"
      <4>1. \/ doc.error = NoError /\ code = 0
            \/ doc.error # NoError /\ doc.error.code = "provider_failed" /\ code = 1
        BY <1>3, <1>4, <1>5, <1>7, <3>2, ClassifyIs
      <4>. QED BY <4>1 DEF NoError
    <3>. QED BY <3>1, <3>2
  <2>7. (Diagnostic(code, docError) = "none") = (code = 0)
    BY DEF Diagnostic, ExitCode
  <2>8. NobodyUsable(doc) <=> \A p \in Providers : Overlaid[p].outcome \notin Usable
    BY <1>2, <1>5, <1>7, ItemIs DEF NobodyUsable
  <2>9. code = 1 => NobodyUsable(doc)
    BY <2>8 DEF ExitCode
  <2>10. ASSUME code = 0, NobodyUsable(doc), ~LateSomebody(doc)
         PROVE  \A p \in Providers : doc.providers[p] = NotRun("disabled")
    <3>1. docError = "none" /\ \A p \in Providers : Overlaid[p].outcome = "not_run"
      BY <1>3, <2>8, <2>10 DEF ExitCode, Outcomes, Usable
    <3>2. ASSUME NEW p \in Providers
          PROVE  doc.providers[p] = NotRun("disabled")
      <4>1. doc.providers[p] = Overlaid[p] /\ Overlaid[p] = NotRun(Overlaid[p].why)
            /\ Overlaid[p].why \in Reasons
        BY <1>2, <1>5, <1>7, <3>1, ItemIs, ShownIs
      <4>2. Overlaid[p] = views[p]
        BY <1>2, <2>1, <3>1 DEF SafeErrorView, View
      <4>3. views[p].why \notin {"guard_wait_timeout", "document_aborted"}
        BY <1>4, <3>1 DEF Told
      <4>4. doc.providers[p].why # "deadline_exhausted"
        BY <2>10 DEF LateSomebody
      <4>. QED BY <4>1, <4>2, <4>3, <4>4 DEF Reasons
    <3>. QED BY <3>2
  <2>11. TellsDocument'
    BY <1>1, <2>6, <2>7, <2>9, <2>10 DEF TellsDocument, NobodyUsable, LateSomebody
  <2>. QED BY <2>3, <2>5, <2>11 DEF Answered
<1>. QED BY <1>6, <1>7

LEMMA AnsweredStep ==
  Typed /\ Underway /\ Told /\ Prepared /\ Stored /\ Answered /\ [Next]_vars => Answered'
<1> SUFFICES ASSUME Typed, Underway, Told, Prepared, Stored, Answered, [Next]_vars
             PROVE  Answered'
  OBVIOUS
<1>1. ASSUME NEW c \in Configs, Load(c) PROVE Answered'
  BY <1>1 DEF Load, Answered
<1>2. CASE DeadlinePasses \/ Claim \/ StartAttempt \/ AcquireGuard \/ RunCodex \/ RunOpenCode \/ Cleanup
           \/ Decide
  <2>1. pc' # "start"
    BY <1>2 DEF DeadlinePasses, Claim, StartAttempt, AcquireGuard, RunCodex, RunOpenCode, Cleanup, Decide,
                Settle, Abort, Return
  <2>. QED BY <2>1 DEF Answered
<1>3. CASE UNCHANGED vars
  BY <1>3 DEF vars, Answered, ServesThisRun, ShowsReturned, TellsDocument, Ready, Cached
<1>. QED BY <1>1, <1>2, <1>3, RejectAnswers, ReplayAnswers, CoordinateAnswers, AbortAnswers,
            PublishAnswers, LiveAnswers DEF Next

LEMMA RunsInvIs ==
  RunsInv <=> Typed /\ Underway /\ Told /\ Prepared /\ Stored /\ Answered
<1>1. Stored => \A f \in DOMAIN cache : cache[f].doc # NoDoc =>
        /\ cache[f].doc.state \in {"complete", "partial"} /\ cache[f].doc.error = NoError
        /\ \A p \in Providers : /\ cache[f].doc.providers[p].outcome # "execution_error"
                                /\ cache[f].doc.providers[p].why \notin Timing
  BY DEF Stored, Fit
<1>2. Stored => (CacheServesThisRun <=> (pc = "start" /\ out.doc # NoDoc => ServesThisRun))
  BY <1>1 DEF CacheServesThisRun, ServesThisRun
<1>3. ReturnedIsShown <=> (pc = "start" /\ out.doc # NoDoc => ShowsReturned)
  BY DEF ReturnedIsShown, ShowsReturned
<1>4. ExitTellsDocument <=> (pc = "start" /\ out.doc # NoDoc => TellsDocument)
  BY DEF ExitTellsDocument, TellsDocument
<1>. QED BY <1>2, <1>3, <1>4 DEF RunsInv, Answered

LEMMA RunsInit == Init => RunsInv
<1> SUFFICES ASSUME Init PROVE RunsInv
  OBVIOUS
<1> USE DEF Init
<1>1. \A p \in Providers : views[p] = NotRun("disabled") /\ views[p] \in Said(p)
  BY SaidHas DEF Reasons
<1>2. views \in [Providers -> Views] /\ returned \in [Providers -> {NoView} \cup Views]
  BY <1>1, SaidHas
<1>3. room \in -1 .. MaxTooltip
  BY LimitsAssumption
<1>4. Typed
  BY <1>1, <1>2, <1>3, NoConfigIs DEF Typed
<1>5. Underway
  BY DEF Underway, Early
<1>6. Ready = {} /\ cfg.bad = {}
  BY NoConfigIs DEF Ready
<1>7. Told
  BY <1>1, <1>6, NotRunIs DEF Told, Early, Called
<1>8. Prepared
  BY DEF Prepared
<1>9. Stored
  BY NoConfigAllowed DEF Stored, NoCache
<1>10. Answered
  BY DEF Answered, Nothing
<1>. QED BY <1>4, <1>5, <1>7, <1>8, <1>9, <1>10, RunsInvIs

LEMMA RunsStep == RunsInv /\ [Next]_vars => RunsInv'
<1> SUFFICES ASSUME RunsInv, [Next]_vars PROVE RunsInv'
  OBVIOUS
<1>1. Typed /\ Underway /\ Told /\ Prepared /\ Stored /\ Answered
  BY RunsInvIs
<1>2. Typed' /\ Underway' /\ Told' /\ Prepared' /\ Stored' /\ Answered'
  BY <1>1, TypedStep, UnderwayStep, ToldStep, PreparedStep, StoredStep, AnsweredStep
<1>3. (Typed /\ Underway /\ Told /\ Prepared /\ Stored /\ Answered => RunsInv)'
  BY RunsInvIs, PTL
<1>. QED BY <1>2, <1>3

(* The invariant of the runs holds. *)
THEOREM Invariance == Spec => []RunsInv
BY RunsInit, RunsStep, PTL DEF Spec

(* What the cache holds is fit to be shown, and what is shown is of the    *)
(* providers this run would call.                                          *)
THEOREM CachedIsServed == Spec => []CacheServesThisRun
<1>1. RunsInv => CacheServesThisRun
  BY DEF RunsInv
<1>. QED BY <1>1, Invariance, PTL

(* A provider that has answered is heard, and its tooltip is cut no        *)
(* shorter than it has to be.                                              *)
THEOREM AnswersAreShown == Spec => []ReturnedIsShown
<1>1. RunsInv => ReturnedIsShown
  BY DEF RunsInv
<1>. QED BY <1>1, Invariance, PTL

(* The exit code and the diagnostic agree with the document. *)
THEOREM ExitIsTold == Spec => []ExitTellsDocument
<1>1. RunsInv => ExitTellsDocument
  BY DEF RunsInv
<1>. QED BY <1>1, Invariance, PTL

(* What is published is what would have been written without the cache:    *)
(* nobody is misconfigured when there is a claim, so there is no overlay,  *)
(* and nobody failed.                                                      *)
THEOREM CacheMakesNoDifference == Spec => []SameEitherWay
<1>1. ASSUME RunsInv, pc = "publish", payload # NoDoc
      PROVE  Live = [doc |-> payload, exit |-> 0, diag |-> "none"]
  <2>1. cfg.bad = {} /\ views = [p \in Providers |-> views[p]]
    BY <1>1 DEF RunsInv, Underway, Typed
  <2>2. Overlaid = views
    BY <2>1 DEF Overlaid
  <2>3. Cacheable /\ payload = Project(views, docError, room)
    BY <1>1 DEF RunsInv, Prepared
  <2>4. ExitCode(views, docError) = 0 /\ docError = "none"
    BY <2>3 DEF Cacheable, ExitCode
  <2>5. Diagnostic(0, docError) = "none"
    BY <2>4 DEF Diagnostic
  <2>. QED BY <2>2, <2>3, <2>4, <2>5 DEF Live
<1>2. RunsInv => SameEitherWay
  BY <1>1 DEF SameEitherWay
<1>. QED BY <1>2, Invariance, PTL

(* Whatever the providers said, what the projection made of it is accepted *)
(* by the validation of the cache exactly when its patterns find nothing   *)
(* in the windows that are shown.                                          *)
THEOREM ProjectionIsAccepted == Spec => []ProjectedIsAccepted
<1>1. ASSUME RunsInv, Clean
      PROVE  Publishable(payload, room) <=> \A w \in ShownWindows(payload) : ~Refused(w)
  <2>0. /\ pc = "publish" /\ payload # NoDoc /\ payload # Failure("internal_error")
        /\ \A p \in Providers : views[p] # NotRun("deadline_exhausted")
    BY <1>1 DEF Clean
  <2>1. Cacheable /\ payload = Project(views, docError, room)
    BY <1>1, <2>0 DEF RunsInv, Prepared
  <2>2. /\ docError = "none" /\ \E p \in Providers : views[p].outcome \in Usable
        /\ \A p \in Providers : views[p].outcome # "execution_error"
    BY <2>1 DEF Cacheable
  <2>3. \A p \in Providers : views[p] \in Shown(p) /\ views[p].outcome \in Outcomes
    BY <1>1, SaidHas, ShownIs DEF RunsInv, Typed
  <2>4. room \in -1 .. MaxTooltip
    BY <1>1 DEF RunsInv, Typed
  <2>5. /\ payload.state = Classify(views, docError)[1] /\ payload.error = Classify(views, docError)[2]
        /\ payload.cut = room
        /\ \A p \in Providers : /\ payload.providers[p] = Item(p, views[p])
                                /\ Cardinality(payload.providers[p].windows) <= MaxWindows
    BY <2>0, <2>1, <2>4, ProjectIs
  <2>6. (\A p \in Providers : AcceptedItem(p, payload.providers[p]))
          <=> \A w \in ShownWindows(payload) : ~Refused(w)
    <3>1. \A p \in Providers : AcceptedItem(p, payload.providers[p])
            <=> \A w \in payload.providers[p].windows : ~Refused(w)
      BY <2>2, <2>3, <2>5, ItemAccepted
    <3>2. \A w : w \in ShownWindows(payload) <=> \E p \in Providers : w \in payload.providers[p].windows
      BY DEF ShownWindows
    <3>. QED BY <3>1, <3>2
  <2>7. \A p \in Providers : payload.providers[p].outcome = views[p].outcome
    BY <2>3, <2>5, ItemIs
  <2>8. /\ payload.error = NoError /\ payload.state # "execution_error"
        /\ payload.state = "complete" <=> \A p \in Providers : views[p].outcome \in Usable
        /\ payload.state = "not_run" <=> \A p \in Providers : views[p].outcome = "not_run"
    BY <2>2, <2>3, <2>5, ClassifyIs DEF DocErrors
  <2>9. AcceptedCut(payload, room)
    BY <2>4, <2>5, BisectionIsExact DEF AcceptedCut
  <2> DEFINE outcomes == {payload.providers[p].outcome : p \in Providers}
  <2>10. /\ outcomes \subseteq Usable <=> \A p \in Providers : views[p].outcome \in Usable
         /\ outcomes \cap Usable # {}
         /\ payload.state = "not_run" => outcomes = {"not_run"}
    BY <2>2, <2>7, <2>8 DEF Providers
  <2>11. \A p \in Providers : payload.providers[p].outcome = "not_run"
                              => payload.providers[p].why \notin Timing
    <3>1. ASSUME NEW p \in Providers, views[p].outcome = "not_run"
          PROVE  payload.providers[p] = NotRun(views[p].why) /\ views[p].why \notin Timing
      BY <1>1, <2>0, <2>2, <2>3, <2>5, <3>1, ItemIs, ShownIs DEF RunsInv, Told, Timing
    <3>. QED BY <2>5, <2>7, <3>1, NotRunIs
  <2> HIDE DEF outcomes
  <2>12. payload.state = "partial" => ~(outcomes \subseteq Usable)
    BY <2>8, <2>10
  <2>13. payload.state = "complete" => outcomes \subseteq Usable
    BY <2>8, <2>10
  <2>. QED BY <2>6, <2>8, <2>9, <2>10, <2>11, <2>12, <2>13 DEF Publishable, Accepted, outcomes
<1>2. RunsInv => ProjectedIsAccepted
  BY <1>1 DEF ProjectedIsAccepted
<1>. QED BY <1>2, Invariance, PTL

===============================================================================
