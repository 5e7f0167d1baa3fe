---------------------------- MODULE SetupAssist ----------------------------
(***************************************************************************)
(* A request to the setup assistant that changes files: _run_setup_assist  *)
(* and _execute of src/yasb_limitora/setup_assist.py run the operations of *)
(* the request one after the other, whatever becomes of them, and answer   *)
(* "complete" if all of them succeeded.  The operations are config-apply   *)
(* (ConfigApply.tla) and env-block-apply (EnvBlock.tla).  Several          *)
(* assistants may be at work, and each can be killed at any step.          *)
(***************************************************************************)
EXTENDS ConfigApply, Sequences

CONSTANTS
  Line,         \* lines of others in .env
  MaxApplies,   \* bound: applications of the block
  Requests      \* what the assistants may be asked for: a request for each, or <<>>

Operations == {"config-apply", "env-block-apply"}

(* _validate_request: no operation is asked for twice.                     *)
ASSUME RequestAssumption ==
  /\ Requests \subseteq [Writer -> Seq(Operations)]
  /\ \A requests \in Requests, w \in Writer :
       \A i, j \in DOMAIN requests[w] : requests[w][i] = requests[w][j] => i = j

VARIABLES
  home, env, saved, temps, litter, job, found, met, applies,   \* see EnvBlock
  asked,        \* the operations in the request of each assistant
  reply         \* what it has answered

Env == INSTANCE EnvBlock

onlyEnv == <<home, env, saved, temps, litter, job, found, met, applies>>
onlyConfig == <<disk, holder, history, pc, snap, backup, outcome, runs>>
assistVars == <<vars, onlyEnv, asked, reply>>

AssistInit ==
  /\ Init /\ Env!Init
  /\ asked \in Requests
  /\ reply = [w \in Writer |-> "none"]

(* What has come of an operation, "none" until it is over.                 *)
Result(w, operation) ==
  IF operation # "config-apply" THEN job[w].said
  ELSE IF pc[w] = "idle" THEN outcome[w] ELSE "none"

(* The first operation without a result is under way, or the next to begin. *)
Turn(w, operation) ==
  \E i \in DOMAIN asked[w] :
    /\ asked[w][i] = operation /\ Result(w, operation) = "none"
    /\ \A j \in 1 .. i - 1 : Result(w, asked[w][j]) # "none"

-----------------------------------------------------------------------------
ApplyConfig(w) ==
  /\ Turn(w, "config-apply")
  /\ Run(w) \/ ApplyStep(w)
  /\ UNCHANGED <<onlyEnv, asked, reply>>

ApplyEnvBlock(w) ==
  /\ Turn(w, "env-block-apply")
  /\ Env!Begin(w) \/ Env!ApplyStep(w)
  /\ UNCHANGED <<onlyConfig, asked, reply>>

Status(w) ==
  IF \A i \in DOMAIN asked[w] : Result(w, asked[w][i]) = "ok" THEN "complete" ELSE "partial"

(* result.json and the exit code.                                          *)
Answer(w) ==
  /\ asked[w] # <<>> /\ reply[w] = "none"
  /\ \A i \in DOMAIN asked[w] : Result(w, asked[w][i]) # "none"
  /\ reply' = [reply EXCEPT ![w] = Status(w)]
  /\ UNCHANGED <<vars, onlyEnv, asked>>

(* The process ends, with everything that it held; the request may be made *)
(* again.                                                                  *)
Leave(w) ==
  /\ asked[w] # <<>>
  /\ Exit(w) /\ Env!Gone(w)
  /\ UNCHANGED asked
  /\ reply' = [reply EXCEPT ![w] = "none"]

OthersEdit == Env!OthersEdit /\ UNCHANGED <<onlyConfig, asked, reply>>

AssistNext ==
  \/ \E w \in Writer : ApplyConfig(w) \/ ApplyEnvBlock(w) \/ Answer(w) \/ Leave(w)
  \/ OthersEdit

AssistSpec == AssistInit /\ [][AssistNext]_assistVars

-----------------------------------------------------------------------------
(* What an assistant answers of .env is true, and "complete" means that    *)
(* all it was asked for is there: its selection in config.json, if nobody  *)
(* was inside the lock beside it, and, if nobody else has changed .env,    *)
(* the block.                                                              *)
AnswersTrue ==
  /\ Env!AnswersTrue
  /\ \A w \in Writer : reply[w] = "complete" =>
       \A i \in DOMAIN asked[w] :
         IF asked[w][i] = "config-apply" THEN beside[w] \/ w \in config.fields
         ELSE met[w] \/ env.block = "new"

(* Behind it: what is asked for and answered as complete has succeeded.    *)
Complete ==
  /\ asked \in Requests
  /\ reply \in [Writer -> {"none", "complete", "partial"}]
  /\ \A w \in Writer :
       reply[w] = "complete" => \A i \in DOMAIN asked[w] : Result(w, asked[w][i]) = "ok"

(* No line of others that was read is lost in a step of an assistant.      *)
LinesKept == Env!LinesKept

=============================================================================
