--------------------------------- MODULE Cli ---------------------------------
(***************************************************************************)
(* One run of yasb-limitora after the other: main of cli.py, the order of  *)
(* the providers in a refresh attempt (RefreshAttempt.run and              *)
(* ExecutionOrchestrator.run_refresh_attempt of worker.py), and the cache  *)
(* they share.  What the coordination of the cache may answer is chosen    *)
(* freely here; RefreshCoordinator.tla says how it comes about.  So is     *)
(* what a provider answers; ProviderAttempt.tla and CodexHelper.tla say    *)
(* how.  The deadline may pass between any two steps.                      *)
(***************************************************************************)
EXTENDS Document

CONSTANTS
  MaxRuns,     \* bound: runs of the program
  Snapshots,   \* the snapshots a provider may report
  Rooms        \* tooltip limits at which a document may just fit

ASSUME SnapshotsAssumption ==
  \A p \in Providers : \A view \in Snapshots[p] :
    /\ view = Snapshot(view.state, view.windows)
    /\ view.state \in States /\ view.windows \subseteq Windows /\ IsFiniteSet(view.windows)
    /\ ValidSnapshot(view.state, view.windows)
ASSUME RoomsAssumption == Rooms \subseteq -1 .. MaxTooltip

VARIABLES
  pc,          \* where main is, "start" between two runs
  runs,        \* bound: runs so far
  cfg,         \* LocalConfig: providers enabled, those that are misconfigured, and the key
  late,        \* usable_ns() <= 0 from now on
  views,       \* the views of the attempt
  docError,    \* code of the document error of the attempt
  claimed,     \* the attempt runs under a claim of the cache coordinator
  raised,      \* unexpected_error
  room,        \* largest tooltip limit at which the document of this run fits
  payload,     \* cached_public_bytes of the attempt, or NoDoc
  cache,       \* the cache files, by fingerprint: the document and its room
  out,         \* what the run wrote: document, exit code, diagnostic
  returned     \* history: what each provider that was called returned

work == <<views, docError, raised, room, payload, returned>>
vars == <<pc, runs, cfg, late, views, docError, claimed, raised, room, payload, cache, out,
          returned>>

NoDoc == [state |-> "none"]
NoView == View("none", "none", "none", "none", {})
NoConfig == [on |-> {}, bad |-> {}, key |-> FALSE]
NoCache == [doc |-> NoDoc, room |-> 0]
Nothing == [doc |-> NoDoc, exit |-> 0, diag |-> "none"]

(* LocalConfig.from_mapping: a section that is not valid misconfigures its *)
(* own provider only.                                                      *)
LocalConfig(sections, key) ==
  [on |-> {p \in Providers : sections[p] = "on"},
   bad |-> {p \in Providers : sections[p] = "invalid"}, key |-> key]

Configs ==
  {LocalConfig(sections, key) : sections \in [Providers -> {"off", "on", "invalid"}], key \in BOOLEAN}

(* config_fingerprint, which names the cache file: the effective           *)
(* configuration with the account, and its key, that it is used for.       *)
\* Mutant: the key of the account is not part of the fingerprint.
Fingerprint_noKey(c) == <<c.on, FALSE>>

Fingerprint(c) == <<c.on, c.key>>

(* The providers that will be called; an enabled Codex has its runner.     *)
Ready == cfg.on \ (IF cfg.key THEN {} ELSE {"opencode_go"})

(* What a provider answers (read_opencode_go and read_codex). *)
Answers(p) == Snapshots[p] \cup Failures(p) \cup {Undetected}

Init ==
  /\ pc = "start" /\ runs = 0
  /\ cfg = NoConfig
  /\ late = FALSE /\ claimed = FALSE /\ raised = FALSE
  /\ views = [p \in Providers |-> NotRun("disabled")] /\ docError = "none"
  /\ room = MaxTooltip /\ payload = NoDoc
  /\ cache = [f \in {Fingerprint(c) : c \in Configs} |-> NoCache]
  /\ out = Nothing
  /\ returned = [p \in Providers |-> NoView]

-----------------------------------------------------------------------------
Write(doc, exit, diag) ==
  /\ out' = [doc |-> doc, exit |-> exit, diag |-> diag]
  /\ pc' = "start"

(* What a run starts from. *)
Fresh(c) ==
  /\ runs < MaxRuns /\ runs' = runs + 1
  /\ cfg' = c
  /\ late' = FALSE /\ claimed' = FALSE /\ raised' = FALSE
  /\ views' = [p \in Providers |-> IF p \in c.bad THEN SafeErrorView("configuration_invalid", "none")
                                   ELSE NotRun("disabled")]
  /\ docError' = "none" /\ room' = MaxTooltip /\ payload' = NoDoc
  /\ returned' = [p \in Providers |-> NoView]

(* A run that does not get past its platform, its arguments or its         *)
(* configuration.  The configuration is read under a deadline of its own.  *)
Reject ==
  /\ pc = "start" /\ Fresh(NoConfig)
  /\ \/ Write(NoDoc, 2, "unsupported_platform")
     \/ Write(Failure("invocation_invalid"), 2, "invocation_invalid")
     \/ Write(Failure("deadline_exhausted"), 2, "runtime_error")
     \/ Write(Failure("configuration_invalid"), 2, "configuration_invalid")
  /\ UNCHANGED cache

(* The configuration is loaded.  The cache is asked only when every part   *)
(* of it is valid and a provider will be called (_cache_eligible).         *)
Load(c) ==
  /\ pc = "start" /\ Fresh(c)
  /\ out' = Nothing
  /\ pc' = IF c.bad = {} /\ Ready' # {} THEN "cache" ELSE "attempt"
  /\ UNCHANGED cache

DeadlinePasses ==
  /\ pc \in {"cache", "attempt", "guard", "codex", "opencode", "cleanup", "publish"} /\ ~late
  /\ late' = TRUE
  /\ UNCHANGED <<pc, runs, cfg, claimed, work, cache, out>>

Cached == cache[Fingerprint(cfg)]

(* get_or_refresh finds a fresh document that passes the validation, and   *)
(* main writes its bytes as they are.                                      *)
Replay ==
  /\ pc = "cache"
  /\ Cached.doc # NoDoc /\ Accepted(Cached.doc, Cached.room)
  /\ Write(Cached.doc, 0, "none")
  /\ UNCHANGED <<runs, cfg, late, claimed, work, cache>>

(* project_not_run_bytes *)
NotRunDocument(code) == Project([p \in Providers |-> NotRun(code)], code, MaxTooltip)

(* It gives up on the guard, on the cache or on the deadline; or it raises *)
(* something, which _cache_failure takes for a missed deadline when the    *)
(* deadline has passed.                                                    *)
Coordinate ==
  /\ pc = "cache"
  /\ \/ Write(NotRunDocument("guard_wait_timeout"), 2, "guard_wait_timeout")
     \/ late /\ Write(NotRunDocument("deadline_exhausted"), 2, "runtime_error")
     \/ Write(Failure("guard_acquisition_failed"), 2, "runtime_error")
     \/ Write(Failure("internal_error"), 2, "runtime_error")
  /\ UNCHANGED <<runs, cfg, late, claimed, work, cache>>

(* It lets this run produce the document; or the coordinator could not     *)
(* even be made, and the attempt runs without it.                          *)
Claim ==
  /\ pc = "cache"
  /\ claimed' \in BOOLEAN
  /\ claimed' => ~late
  /\ pc' = "attempt"
  /\ UNCHANGED <<runs, cfg, late, work, cache, out>>

-----------------------------------------------------------------------------
(* The attempt. *)
KeepViews == UNCHANGED <<views, docError, raised>>

Settle(newViews, code) ==
  /\ views' = newViews /\ docError' = code
  /\ pc' = "cleanup"
  /\ UNCHANGED raised

(* Nothing to call: the document is there, without guard or cleanup.       *)
StartAttempt ==
  /\ pc = "attempt"
  /\ pc' = IF Ready = {} THEN "decide" ELSE "guard"
  /\ KeepViews
  /\ UNCHANGED <<runs, cfg, late, claimed, room, payload, returned, cache, out>>

(* An exception nobody expected aborts the document.                       *)
Abort ==
  /\ views' = [p \in Providers |-> IF p \in cfg.bad THEN views[p] ELSE NotRun("document_aborted")]
  /\ raised' = TRUE
  /\ pc' = "cleanup"
  /\ UNCHANGED docError

(* The guard, and the look at the deadline after it. *)
AcquireGuard ==
  /\ pc = "guard"
  /\ \/ Settle([p \in Providers |-> NotRun("guard_wait_timeout")], "guard_wait_timeout")
     \/ Settle([p \in Providers |-> NotRun("document_aborted")], "guard_acquisition_failed")
     \/ Abort
     \/ /\ late
        /\ Settle([p \in Providers |-> IF p \in cfg.bad THEN views[p]
                                       ELSE NotRun("deadline_exhausted")], "deadline_exhausted")
     \/ /\ ~late
        /\ pc' = IF "codex" \in Ready THEN "codex" ELSE "opencode"
        /\ KeepViews
  /\ UNCHANGED <<runs, cfg, late, claimed, room, payload, returned, cache, out>>

(* A provider returns its view; one whose own look at the deadline comes   *)
(* too late was not run.                                                   *)
Return(p, next) ==
  /\ \E view \in Answers(p) \cup (IF late THEN {NotRun("deadline_exhausted")} ELSE {}) :
       /\ views' = [views EXCEPT ![p] = view]
       /\ returned' = [returned EXCEPT ![p] = view]
  /\ pc' = next
  /\ UNCHANGED <<docError, raised>>

RunCodex ==
  /\ pc = "codex"
  /\ \/ Return("codex", IF "opencode_go" \in Ready THEN "opencode" ELSE "cleanup")
     \/ Abort /\ UNCHANGED returned
  /\ UNCHANGED <<runs, cfg, late, claimed, room, payload, cache, out>>

(* OpenCode is not started once the deadline has passed: the document is   *)
(* a deadline failure, whatever Codex has said.                            *)
RunOpenCode ==
  /\ pc = "opencode"
  /\ \/ late /\ Settle([views EXCEPT !["opencode_go"] = NotRun("deadline_exhausted")],
                       "deadline_exhausted")
             /\ UNCHANGED returned
     \/ Return("opencode_go", "cleanup")
     \/ Abort /\ UNCHANGED returned
  /\ UNCHANGED <<runs, cfg, late, claimed, room, payload, cache, out>>

(* The resources of the attempt are taken down and its guard is given      *)
(* back; when that fails the views stay and the document is in error.      *)
\* Mutant: a failed cleanup aborts the document.
Cleanup_aborts ==
  /\ pc = "cleanup"
  /\ \/ UNCHANGED <<views, docError>>
     \/ /\ docError' = "cleanup_failed"
        /\ views' = [p \in Providers |-> NotRun("document_aborted")]
  /\ pc' = "decide"
  /\ UNCHANGED <<runs, cfg, late, claimed, raised, room, payload, returned, cache, out>>

Cleanup ==
  /\ pc = "cleanup"
  /\ \/ UNCHANGED <<views, docError>>
     \/ docError' = "cleanup_failed" /\ UNCHANGED views
  /\ pc' = "decide"
  /\ UNCHANGED <<runs, cfg, late, claimed, raised, room, payload, returned, cache, out>>

-----------------------------------------------------------------------------
(* run_refresh_attempt: the bytes for the cache are made only of documents *)
(* without an error and without a provider in error, with one that is of   *)
(* use.                                                                    *)
Cacheable ==
  /\ docError = "none"
  /\ \E p \in Providers : views[p].outcome \in Usable
  /\ \A p \in Providers : views[p].outcome # "execution_error"

Decide ==
  /\ pc = "decide" /\ ~raised
  /\ room' \in (IF \E p \in Providers : views[p].outcome = "snapshot" THEN Rooms
                ELSE {MaxTooltip})
  /\ payload' = IF claimed /\ Cacheable THEN Project(views, docError, room') ELSE NoDoc
  /\ pc' = IF claimed THEN "publish" ELSE "project"
  /\ UNCHANGED <<runs, cfg, late, views, docError, claimed, raised, returned, cache, out>>

(* The unexpected exception comes out of the coordinator, or of the        *)
(* orchestrator.                                                           *)
ReportAbort ==
  /\ pc = "decide" /\ raised
  /\ IF claimed /\ late
     THEN Write(NotRunDocument("deadline_exhausted"), 2, "runtime_error")
     ELSE Write(Failure("internal_error"), 2, "runtime_error")
  /\ UNCHANGED <<runs, cfg, late, claimed, work, cache>>

(* The coordinator publishes the bytes, and main writes those.  It may     *)
(* have put them into the cache and still not say so, or do neither.       *)
Publish ==
  /\ pc = "publish"
  /\ \/ /\ payload # NoDoc /\ Publishable(payload, room) /\ ~late
        /\ cache' = [cache EXCEPT ![Fingerprint(cfg)] = [doc |-> payload, room |-> room]]
        /\ Write(payload, 0, "none") \/ (pc' = "project" /\ UNCHANGED out)
     \/ pc' = "project" /\ UNCHANGED <<cache, out>>
  /\ UNCHANGED <<runs, cfg, late, claimed, work>>

(* _provider_error_overlay *)
Overlaid ==
  [p \in Providers |-> IF p \in cfg.bad THEN SafeErrorView("provider_error", "none") ELSE views[p]]

Live ==
  LET code == ExitCode(Overlaid, docError)
  IN [doc |-> Project(Overlaid, docError, room), exit |-> code,
      diag |-> Diagnostic(code, docError)]

WriteLive ==
  /\ pc = "project"
  /\ Write(Live.doc, Live.exit, Live.diag)
  /\ UNCHANGED <<runs, cfg, late, claimed, work, cache>>

Next ==
  \/ Reject
  \/ \E c \in Configs : Load(c)
  \/ DeadlinePasses
  \/ Replay \/ Coordinate \/ Claim
  \/ StartAttempt \/ AcquireGuard \/ RunCodex \/ RunOpenCode \/ Cleanup
  \/ Decide \/ ReportAbort \/ Publish \/ WriteLive

Spec == Init /\ [][Next]_vars

-----------------------------------------------------------------------------
(* What is in the cache is fit to be shown again in place of a new try: it *)
(* has no error and nobody in it ran out of time, and what it shows is of  *)
(* providers that a run with this configuration and this key would call.   *)
CacheServesThisRun ==
  /\ \A f \in DOMAIN cache :
       LET doc == cache[f].doc IN
       doc # NoDoc =>
         /\ doc.state \in {"complete", "partial"} /\ doc.error = NoError
         /\ \A p \in Providers : /\ doc.providers[p].outcome # "execution_error"
                                 /\ doc.providers[p].why \notin Timing
  /\ pc = "start" /\ out.doc # NoDoc =>
       \A p \in Providers :
         /\ out.doc.providers[p].outcome \in Usable => p \in Ready
         /\ out.doc.providers[p].why = "disabled" => p \notin Ready \cup cfg.bad

(* It makes no difference to the reader whether the cache worked: bytes    *)
(* that may be published are what the run would have written without the   *)
(* cache, with the same exit code and no diagnostic.                       *)
SameEitherWay ==
  pc = "publish" /\ payload # NoDoc /\ Publishable(payload, room)
    => Live = [doc |-> payload, exit |-> 0, diag |-> "none"]

(* The projection and the validation of the cache disagree about nothing   *)
(* but quantities and texts: a document that comes out of a run in which   *)
(* no provider ran out of time is accepted when, and only when, the        *)
(* patterns of the cache refuse nothing in the windows it shows - with     *)
(* whatever windows and placeholders the projection has put there.         *)
ShownWindows(doc) == UNION {doc.providers[p].windows : p \in Providers}
Clean ==
  /\ pc = "publish" /\ payload # NoDoc /\ payload # Failure("internal_error")
  /\ \A p \in Providers : views[p] # NotRun("deadline_exhausted")

ProjectedIsAccepted ==
  Clean => (Publishable(payload, room) <=> \A w \in ShownWindows(payload) : ~Refused(w))

(* What a provider has returned is what the document says of it, through   *)
(* a missed deadline, a failed cleanup or a cache that does not work, and  *)
(* the tooltips are cut no shorter than the size limit asks for; the only  *)
(* way to lose it is that the whole document is lost.                      *)
ReturnedIsShown ==
  pc = "start" /\ out.doc # NoDoc =>
    \/ out.doc = Failure("internal_error")
    \/ raised
    \/ /\ \A p \in Providers : returned[p] # NoView => out.doc.providers[p] = Item(p, returned[p])
       /\ out.doc.cut = room \/ out.doc = Cached.doc

(* The exit code tells what happened, through what was cached, aborted,    *)
(* misconfigured or not cleaned up: 0 for a document without an error,     *)
(* which then has somebody of use or nobody to call; 1 for the failure of  *)
(* the providers, with nobody of use; 2 for any other error.  Excepted are *)
(* the two cases in which the code is at odds with json-output.md: a       *)
(* document that could not be projected has the exit code of the views,    *)
(* not 2 (12.3, line 883); and where a provider looked too late and nobody *)
(* is of use, the document has no error, or that of the other provider,    *)
(* and not "deadline_exhausted" (4.2, lines 312-323).                      *)
NobodyUsable(doc) == \A p \in Providers : doc.providers[p].outcome \notin Usable
LateSomebody(doc) == \E p \in Providers : doc.providers[p].why = "deadline_exhausted"

ExitTellsDocument ==
  pc = "start" /\ out.doc # NoDoc =>
    \/ out.doc = Failure("internal_error")
    \/ out.exit # 2 /\ NobodyUsable(out.doc) /\ LateSomebody(out.doc)
    \/ /\ (out.exit = 0) = (out.doc.error = NoError)
       /\ (out.exit = 1) = (out.doc.error.code = "provider_failed")
       /\ (out.diag = "none") = (out.exit = 0)
       /\ out.exit = 0 /\ NobodyUsable(out.doc)
            => \A p \in Providers : out.doc.providers[p] = NotRun("disabled")
       /\ out.exit = 1 => NobodyUsable(out.doc)

(***************************************************************************)
(* Why they hold.  The steps of an attempt only add to what is known: what *)
(* a provider has returned stays (Told), the deadline, the guard and the   *)
(* cleanup decide the error of the document and leave the views of the     *)
(* providers alone (Underway), and a document that is kept is the          *)
(* projection of the views of a run with the same fingerprint (Prepared,   *)
(* Stored).                                                                *)
(***************************************************************************)
Reasons == {"disabled", "deadline_exhausted", "guard_wait_timeout", "document_aborted"}
Said(p) == Answers(p) \cup {NotRun(reason) : reason \in Reasons}
Views == UNION {Said(p) : p \in Providers}

Typed ==
  /\ pc \in {"start", "cache", "attempt", "guard", "codex", "opencode", "cleanup", "decide",
             "publish", "project"}
  /\ cfg.on \subseteq Providers /\ cfg.bad \subseteq Providers /\ cfg.on \cap cfg.bad = {}
  /\ views \in [Providers -> Views]
  /\ \A p \in Providers : views[p] \in Said(p)
  /\ docError \in {"none", "guard_wait_timeout", "guard_acquisition_failed", "deadline_exhausted",
                   "cleanup_failed"}
  /\ room \in -1 .. MaxTooltip
  /\ returned \in [Providers -> {NoView} \cup Views]

Early == {"cache", "attempt", "guard", "codex", "opencode"}

Underway ==
  /\ pc \in Early => docError = "none" /\ ~raised
  /\ pc \in {"publish", "project"} => ~raised
  /\ pc \in Early \cup {"cleanup", "decide"} => room = MaxTooltip
  /\ pc = "cache" \/ claimed => cfg.bad = {}
  /\ pc = "publish" => claimed
  /\ pc = "guard" => Ready # {}
  /\ pc = "codex" => "codex" \in Ready
  /\ pc = "opencode" => "opencode_go" \in Ready

(* A provider that is called is no longer "disabled" once its turn is over.*)
Called(p) ==
  \/ pc \in {"cleanup", "decide", "publish", "project"}
  \/ pc = "opencode" /\ p = "codex"

Told ==
  /\ \A p \in Providers : views[p].outcome \in Usable => p \in Ready
  /\ \A p \in cfg.bad : views[p].why # "disabled"
  /\ \A p \in Ready : Called(p) => views[p].why # "disabled"
  /\ docError = "none" => \A p \in Providers : /\ views[p].why # "guard_wait_timeout"
                                               /\ raised \/ views[p].why # "document_aborted"
  /\ \A p \in Providers : returned[p] # NoView => p \in Ready /\ (raised \/ views[p] = returned[p])
  /\ \A p \in Providers : pc \in Early /\ ~Called(p) => returned[p] = NoView

Prepared ==
  pc = "publish" => payload = IF Cacheable THEN Project(views, docError, room) ELSE NoDoc

(* What is fit to be kept for the runs with a fingerprint. *)
ReadyFor(fingerprint) == fingerprint[1] \ (IF fingerprint[2] THEN {} ELSE {"opencode_go"})
Fit(doc, fingerprint) ==
  /\ doc.state \in {"complete", "partial"} /\ doc.error = NoError /\ ~NobodyUsable(doc)
  /\ \A p \in Providers : /\ doc.providers[p].outcome # "execution_error"
                          /\ doc.providers[p].why \notin Timing
                          /\ doc.providers[p].outcome \in Usable => p \in ReadyFor(fingerprint)
                          /\ doc.providers[p].why = "disabled" => p \notin ReadyFor(fingerprint)

Stored ==
  /\ cfg \in Configs /\ DOMAIN cache = {Fingerprint(c) : c \in Configs}
  /\ \A f \in DOMAIN cache : cache[f].doc # NoDoc => Fit(cache[f].doc, f)

RunsInv ==
  /\ Typed /\ Underway /\ Told /\ Prepared /\ Stored
  /\ CacheServesThisRun /\ ReturnedIsShown /\ ExitTellsDocument

=============================================================================
