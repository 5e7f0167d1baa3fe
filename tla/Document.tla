------------------------------ MODULE Document ------------------------------
(***************************************************************************)
(* From what the providers said to the public JSON document, and back: the *)
(* views of src/yasb_limitora/model.py, their projection by projection.py, *)
(* the exit code of cli.py, and the validation of a cached document by     *)
(* cache.py.  Operators only; Cli.tla is the process that uses them.       *)
(*                                                                         *)
(* A view says how one provider fared:                                     *)
(*   outcome  "snapshot", "undetected", "not_run" or "execution_error"     *)
(*   why      not_run_reason, or the code of the error, or "none"          *)
(*   state, windows   of the snapshot                                      *)
(*   evidence   what is known of the failure of OpenCode (last_record)     *)
(* Timestamps are left out.  Of the quantities and texts of a window there *)
(* is left what tells them apart for the patterns of the cache.  What is   *)
(* left of the tooltips is the limit they were cut at, because it decides  *)
(* whether a document fits, and the validation of the cache computes it    *)
(* again.                                                                  *)
(***************************************************************************)
EXTENDS Integers, FiniteSets

CONSTANTS
  MaxWindows,   \* MAX_QUOTA_WINDOWS
  MaxTooltip,   \* _MAX_TOOLTIP_SCALARS
  Unsafe        \* texts that _UNSAFE_VALUE of the cache is found in

Providers == {"codex", "opencode_go"}
FixedPeriods == {"five_hour", "monthly", "weekly"}

ASSUME LimitsAssumption == MaxWindows \in Nat /\ MaxTooltip \in Nat
ASSUME UnsafeAssumption == ({"account"} \cup FixedPeriods) \cap Unsafe = {}

Usable == {"snapshot", "undetected"}
Timing == {"deadline_exhausted", "guard_wait_timeout"}

(* Views. *)
View(outcome, why, evidence, state, windows) ==
  [outcome |-> outcome, why |-> why, evidence |-> evidence, state |-> state, windows |-> windows]

NotRun(reason) == View("not_run", reason, "none", "none", {})
SafeErrorView(code, evidence) == View("execution_error", code, evidence, "none", {})
Undetected == View("undetected", "none", "none", "none", {})
Snapshot(state, windows) == View("snapshot", "none", "none", state, windows)

(* How the adapters of limitora_api.py fail, in _read and before it.       *)
Unexplained == {"configuration_invalid", "internal_error", "unknown_provider_state",
                "invalid_provider_data"}

Failures(p) ==
  IF p = "codex"
  THEN {SafeErrorView(code, "none") : code \in Unexplained \cup {"timeout", "provider_error"}}
  ELSE {SafeErrorView(code, "none") : code \in Unexplained}
       \cup {SafeErrorView("timeout", "timeout")}
       \cup {SafeErrorView("provider_error", e) :
               e \in {"credential_invalid", "rate_limited", "unavailable"}}

Identity(w) == <<w.kind, w.scope, w.period>>

(* The windows and the states of a snapshot.  A window is trusted when its *)
(* source is the provider's own.  Its labels are its plan and its unit;    *)
(* values says which kinds of quantities it has, those between 0 and 1     *)
(* being a kind of their own.  The constructor of QuotaWindowView lets     *)
(* only a known window have quantities, and wants one of it.               *)
Windows ==
  {w \in [kind : {"commercial_quota", "technical_rate_limit", "other"},
          scope : STRING, period : STRING, labels : SUBSET STRING, trusted : BOOLEAN,
          availability : {"known", "unlimited", "disabled", "unavailable", "unknown",
                          "not_authorized", "not_applicable", "invalid", "error"},
          values : SUBSET {"plain", "below_one"}] :
     w.availability = "known" <=> w.values # {}}
States == {"available", "partial", "unavailable", "unauthorized", "rate_limited", "transient_error",
           "invalid_data"}

(* What the constructor of ProviderSnapshotView lets through. *)
ValidSnapshot(state, windows) ==
  /\ Cardinality(windows) <= MaxWindows
  /\ \A v, w \in windows : Identity(v) = Identity(w) => v = w
  /\ state = "rate_limited" => \A w \in windows : w.kind = "technical_rate_limit"

-----------------------------------------------------------------------------
(* Windows.  One whose source is not the provider's own loses its          *)
(* quantities and its plan.                                                *)
PublicWindow(w) ==
  IF w.trusted THEN w ELSE [w EXCEPT !.availability = "unavailable", !.values = {}, !.labels = {}]

Placeholder(period, scope) ==
  [kind |-> "commercial_quota", scope |-> scope, period |-> period, labels |-> {},
   trusted |-> FALSE, availability |-> "unavailable", values |-> {}]

(* The slot of a fixed period is filled only by a single, known and        *)
(* trusted window.                                                         *)
\* Mutant: the first of several windows of a period fills its slot.
Slot_anyMatch(windows, period) ==
  LET matches == {w \in windows : w.kind = "commercial_quota" /\ w.period = period} IN
  IF matches = {} THEN {Placeholder(period, "account")}
  ELSE {PublicWindow(w) : w \in matches}

Slot(windows, period) ==
  LET matches == {w \in windows : w.kind = "commercial_quota" /\ w.period = period} IN
  IF Cardinality(matches) # 1 THEN {Placeholder(period, "account")}
  ELSE {IF w.trusted /\ w.availability = "known" THEN w ELSE Placeholder(period, w.scope)
          : w \in matches}

OpenCodeWindows(view) ==
  CASE view.state = "rate_limited" ->
         {PublicWindow(w) : w \in {v \in view.windows : v.kind = "technical_rate_limit"}}
    [] view.state \in {"available", "partial"} ->
         {PublicWindow(w) : w \in {v \in view.windows : v.kind # "commercial_quota"}}
           \cup UNION {Slot(view.windows, period) : period \in FixedPeriods}
    [] OTHER -> {PublicWindow(w) : w \in view.windows}

(* _error: the public code of a provider's error, from the evidence if     *)
(* there is any.                                                           *)
PublicCode(code, evidence) ==
  CASE evidence = "credential_invalid" -> evidence
    [] evidence \in {"timeout", "rate_limited", "unavailable"} ->
         [timeout |-> "provider_timeout", rate_limited |-> "provider_rate_limited",
          unavailable |-> "provider_unavailable"][evidence]
    [] evidence = "none" /\ code = "timeout" -> "provider_timeout"
    [] evidence = "none" /\ code \in {"invalid_provider_data", "unknown_provider_state",
                                      "guard_wait_timeout", "deadline_exhausted"} -> code
    [] OTHER -> "provider_failed"

(* _provider *)
Item(p, view) ==
  CASE view.outcome = "snapshot" ->
         [view EXCEPT !.windows = IF p = "opencode_go" THEN OpenCodeWindows(view)
                                  ELSE {PublicWindow(w) : w \in view.windows}]
    [] view.outcome = "execution_error" -> SafeErrorView(PublicCode(view.why, view.evidence), "none")
    [] OTHER -> view

-----------------------------------------------------------------------------
(* Documents. *)
NoError == [code |-> "none", phase |-> "none"]
Error(code, phase) == [code |-> code, phase |-> phase]

(* project_failure_bytes *)
FailurePhase ==
  [invocation_invalid |-> "configuration", configuration_invalid |-> "configuration",
   internal_error |-> "document", guard_acquisition_failed |-> "guard_wait",
   guard_wait_timeout |-> "guard_wait", deadline_exhausted |-> "document"]

FailureReason ==
  [invocation_invalid |-> "invocation_invalid", configuration_invalid |-> "invalid_configuration",
   internal_error |-> "document_aborted", guard_acquisition_failed |-> "document_aborted",
   guard_wait_timeout |-> "guard_wait_timeout", deadline_exhausted |-> "deadline_exhausted"]

Failure(code) ==
  [state |-> "execution_error", error |-> Error(code, FailurePhase[code]),
   providers |-> [p \in Providers |-> NotRun(FailureReason[code])], cut |-> MaxTooltip]

(* The state and the error of a document (_project_document). *)
\* Mutant: a failed cleanup leaves the class of the document as it is.
Classify_cleanup(views, docError) ==
  LET outcomes == {views[p].outcome : p \in Providers} IN
  CASE docError = "guard_wait_timeout" -> <<"not_run", Error(docError, "guard_wait")>>
    [] docError = "deadline_exhausted" -> <<"not_run", Error(docError, "document")>>
    [] docError \notin Timing \cup {"cleanup_failed", "none"} ->
         <<"execution_error", Error(docError, "guard_wait")>>
    [] docError \in {"none", "cleanup_failed"} /\ outcomes \subseteq Usable -> <<"complete", NoError>>
    [] docError \in {"none", "cleanup_failed"} /\ outcomes \cap Usable # {} /\ ~(outcomes \subseteq Usable) ->
         <<"partial", NoError>>
    [] docError \in {"none", "cleanup_failed"} /\ outcomes = {"not_run"} -> <<"not_run", NoError>>
    [] OTHER -> <<"execution_error", Error("provider_failed", "provider")>>

Classify(views, docError) ==
  LET outcomes == {views[p].outcome : p \in Providers} IN
  CASE docError = "cleanup_failed" -> <<"execution_error", Error("cleanup_failed", "cleanup")>>
    [] docError = "guard_wait_timeout" -> <<"not_run", Error(docError, "guard_wait")>>
    [] docError = "deadline_exhausted" -> <<"not_run", Error(docError, "document")>>
    [] docError \notin Timing \cup {"cleanup_failed", "none"} ->
         <<"execution_error", Error(docError, "guard_wait")>>
    [] docError = "none" /\ outcomes \subseteq Usable -> <<"complete", NoError>>
    [] docError = "none" /\ outcomes \cap Usable # {} /\ ~(outcomes \subseteq Usable) ->
         <<"partial", NoError>>
    [] docError = "none" /\ outcomes = {"not_run"} -> <<"not_run", NoError>>
    [] OTHER -> <<"execution_error", Error("provider_failed", "provider")>>

(* project_bytes cuts the tooltips at the largest limit at which the       *)
(* document fits, by bisection; room is that limit, -1 when there is none. *)
(* -1 is the answer for "none of them" too.                                *)
Spans == (0 .. MaxTooltip + 1) \X (-1 .. MaxTooltip)

Bisect(room) ==
  LET best[span \in Spans] ==
        LET low == span[1]
            high == span[2]
            middle == (low + high) \div 2
            above == best[<<middle + 1, high>>]
        IN IF low > high THEN -1
           ELSE IF middle > room THEN best[<<low, middle - 1>>]
           ELSE IF above = -1 THEN middle ELSE above
  IN best[<<0, MaxTooltip>>]

Fits(room) == IF room = MaxTooltip THEN MaxTooltip ELSE Bisect(room)

(* A document with too many windows, or that does not fit at all, turns    *)
(* into a failure - silently, for whoever asked for its bytes.             *)
Project(views, docError, room) ==
  LET items == [p \in Providers |-> Item(p, views[p])]
      class == Classify(views, docError)
  IN IF /\ \A p \in Providers : Cardinality(items[p].windows) <= MaxWindows
        /\ Fits(room) # -1
     THEN [state |-> class[1], error |-> class[2], providers |-> items, cut |-> Fits(room)]
     ELSE Failure("internal_error")

(* _exit_code and the diagnostic of main. *)
\* Mutant: every provider has to be of use.
ExitCode_all(views, docError) ==
  IF docError # "none" THEN 2
  ELSE IF \A p \in Providers : views[p].outcome \in Usable THEN 0 ELSE 1

ExitCode(views, docError) ==
  IF docError # "none" THEN 2
  ELSE IF \A p \in Providers : views[p].outcome # "execution_error" THEN 0
  ELSE IF \E p \in Providers : views[p].outcome \in Usable THEN 0
  ELSE 1

Diagnostic(code, docError) ==
  IF docError = "guard_wait_timeout" THEN docError
  ELSE IF code # 0 THEN "runtime_error" ELSE "none"

-----------------------------------------------------------------------------
(* What the cache accepts. *)

(* What the patterns refuse in a window: _DECIMAL has no 0 before a point, *)
(* and _safe_text wants no path, and no word of _UNSAFE_VALUE, in a text.  *)
Texts(w) == {w.scope, w.period} \cup w.labels
Refused(w) == "below_one" \in w.values \/ Texts(w) \cap Unsafe # {}

(* _window: quantities only where they are known, and none without a       *)
(* source.                                                                 *)
AcceptedWindow(w) ==
  /\ ~Refused(w)
  /\ w.availability = "known" <=> w.values # {}
  /\ ~w.trusted => w.availability = "unavailable"

(* The windows of a snapshot, with the three slots of OpenCode. *)
AcceptedWindows(p, item) ==
  /\ ValidSnapshot(item.state, item.windows)
  /\ \A w \in item.windows : AcceptedWindow(w)
  /\ p = "opencode_go" /\ item.state \in {"available", "partial"} =>
       LET commercial == {w \in item.windows : w.kind = "commercial_quota"} IN
       /\ {w.period : w \in commercial} = FixedPeriods
       /\ Cardinality(commercial) = Cardinality(FixedPeriods)

(* The texts of the item itself are made of those of its windows, and      *)
(* pass when they do.                                                      *)
AcceptedItem(p, item) ==
  CASE item.outcome = "snapshot" -> AcceptedWindows(p, item) /\ item.why = "none"
    [] item.outcome = "undetected" -> item = Undetected
    [] item.outcome = "not_run" -> item = NotRun(item.why)
    [] OTHER -> FALSE

(* _presentation_matches: the tooltips are cut where they have to be. *)
AcceptedCut(doc, room) == doc.cut = Bisect(room)

(* _validate_document *)
Accepted(doc, room) ==
  LET outcomes == {doc.providers[p].outcome : p \in Providers} IN
  /\ \A p \in Providers : AcceptedItem(p, doc.providers[p])
  /\ outcomes \cap Usable # {}
  /\ AcceptedCut(doc, room)
  /\ doc.error = NoError => doc.state # "execution_error"
  /\ doc.error # NoError =>
       doc.error = Error("cleanup_failed", "cleanup") /\ doc.state = "execution_error"
  /\ doc.state = "complete" => outcomes \subseteq Usable
  /\ doc.state = "not_run" => outcomes = {"not_run"}
  /\ doc.state = "partial" => ~(outcomes \subseteq Usable)

(* _publish_unlocked: only a document without an error, and without a      *)
(* provider that was not run for lack of time, is kept.                    *)
Publishable(doc, room) ==
  /\ Accepted(doc, room)
  /\ doc.error = NoError
  /\ \A p \in Providers : doc.providers[p].outcome = "not_run"
                          => doc.providers[p].why \notin Timing

=============================================================================
