------------------------------ MODULE UserPath ------------------------------
(***************************************************************************)
(* The user PATH and the state directory as the setup assist changes them: *)
(* append_user_path, remove_recorded_user_path, cleanup_literal_state and  *)
(* _remove_path_and_cleanup_state (_path_cleanup.py), called for one       *)
(* request of setup.exe by _execute (setup_assist.py).                     *)
(*                                                                         *)
(* Every read and every write of the registry is a step of its own.        *)
(* Nothing orders the assists of two running setups, or keeps anybody else *)
(* from editing PATH between two steps; a call can fail, and an assist can *)
(* be killed, at every step.                                               *)
(***************************************************************************)
EXTENDS Naturals, SequencesExt

CONSTANTS
  Assist,        \* setup-assist processes
  Route,         \* install directories an assist may be run from
  Foreign,       \* an element that is nobody's route
  Empty,         \* the element of an empty string
  Absent,        \* no Path value
  NotText,       \* a Path value that is not a string
  NoRecord,      \* no ownership record
  Garbage,       \* an ownership record that _owned cannot read
  MaxRequests,   \* bound: requests that are run
  MaxTroubles    \* bound: edits by others, calls that fail, assists that are killed

(***************************************************************************)
(* A Path value is its elements and its type; splitting a string at ";"    *)
(* gives one element at least.  A record names an element and the whole    *)
(* value it was appended to.                                               *)
(***************************************************************************)
Type == {"REG_SZ", "REG_EXPAND_SZ"}
Texts == [elems : Seq(Route \cup {Foreign, Empty}) \ {<<>>}, type : Type]
Records == [element : Route, path : Texts]
Text(elems, type) == [elems |-> elems, type |-> type]
Record(element, value) == [element |-> element, path |-> value]

ASSUME PathAssumption ==
  /\ {Foreign, Empty} \cap Route = {} /\ Foreign # Empty
  /\ Absent # NotText /\ {Absent, NotText} \cap Texts = {}
  /\ NoRecord # Garbage /\ {NoRecord, Garbage} \cap Records = {}
  /\ {MaxRequests, MaxTroubles} \subseteq Nat

VARIABLES
  path,      \* HKCU\Environment Path
  record,    \* yasb-limitora-path-element, in the uninstall key
  state,     \* the state directory: "whole", "part" or "gone"
  local,     \* the locals of each assist
  begun,     \* how things stood when its request began
  met,       \* since then: what others changed, and how many calls failed
  raced,     \* others changed PATH or the record since its last check
  requests, troubles

pathVars == <<path, record, state, local, begun, met, raced, requests, troubles>>
shared == <<path, record, state>>

\* _owned: whether a record can be read; and that its element ends its value.
Valid(rec) == rec \notin {NoRecord, Garbage}
AtEnd(rec) == Last(rec.path.elems) = rec.element

\* read_user_path: a value that is not a string reads like no value.
LivePath == IF path = NotText THEN Absent ELSE path

\* _safe_path: no value stands for the empty string.
Safe(value) == IF value = Absent THEN Text(<<Empty>>, "REG_EXPAND_SZ") ELSE value

\* value + ";" + element, and ";".join(parts[:-1])
Extended(value, element) == Text(Append(value.elems, element), value.type)
Shortened(value) ==
  Text(IF Len(value.elems) = 1 THEN <<Empty>> ELSE Front(value.elems), value.type)

Has(value, element) == value # Absent /\ element \in ToSet(value.elems)

(***************************************************************************)
(* The locals of one request.  "purpose" is what the compare-and-write     *)
(* under way is for, "retry" the second attempt of append_user_path, and   *)
(* "guided" a cleanup that the batch calls with its own record.            *)
(***************************************************************************)
Rest == [pc |-> "idle", op |-> "none", route |-> Empty, consent |-> FALSE,
         path |-> Absent, record |-> NoRecord, expect |-> Absent, want |-> Absent,
         purpose |-> "none", retry |-> FALSE, guided |-> FALSE,
         said |-> [path |-> "none", state |-> "none"]]

\* PATH as somebody else left it, or with the route of an earlier install.
PathInit ==
  /\ \/ /\ path \in {Absent} \cup {Text(<<Foreign>>, t) : t \in Type}
        /\ record = NoRecord
     \/ \E r \in Route, t \in Type :
          /\ path = Extended(Text(<<Foreign>>, t), r)
          /\ record = Record(r, path)
  /\ state \in {"whole", "gone"}
  /\ local = [p \in Assist |-> Rest]
  /\ begun = [p \in Assist |-> [path |-> path, record |-> record, state |-> state]]
  /\ met = [p \in Assist |-> [others |-> FALSE, failed |-> 0]]
  /\ raced = [p \in Assist |-> FALSE]
  /\ requests = 0 /\ troubles = 0

At(p, pc) == local[p].pc = pc
Move(p, pc) == [local[p] EXCEPT !.pc = pc]

\* A step of p: the other requests may find the shared values changed.
Disturbed == shared' # shared
Rewritten == <<path, record>>' # <<path, record>>
Met(q) == IF Disturbed THEN [met[q] EXCEPT !.others = TRUE] ELSE met[q]
Goto(p, locals) ==
  /\ local' = [local EXCEPT ![p] = locals]
  /\ met' = [q \in Assist |-> IF q = p THEN met[p] ELSE Met(q)]
  /\ raced' = [q \in Assist |-> IF q = p THEN raced[p] /\ At(p, "path-again")
                                ELSE raced[q] \/ Rewritten]
  /\ UNCHANGED <<begun, requests, troubles>>

Read(p, locals) == UNCHANGED shared /\ Goto(p, locals)

\* A call of p raises OSError, and has changed nothing.
Fault(p, locals) ==
  /\ troubles < MaxTroubles
  /\ troubles' = troubles + 1
  /\ UNCHANGED <<path, record>>
  /\ local' = [local EXCEPT ![p] = locals]
  /\ met' = [q \in Assist |-> IF q = p THEN [met[p] EXCEPT !.failed = @ + 1] ELSE Met(q)]
  /\ raced' = [raced EXCEPT ![p] = FALSE]
  /\ UNCHANGED <<begun, requests>>

\* The request ends, and reports on PATH and on the state.
End(p, onPath, onState) ==
  [Rest EXCEPT !.op = local[p].op, !.route = local[p].route,
               !.said = [path |-> onPath, state |-> onState]]

\* cleanup_literal_state on its own, or for the batch that left PATH alone.
EndState(p, onState) == End(p, IF local[p].guided THEN "unchanged" ELSE "none", onState)

\* An OSError that nobody catches: it is a refusal at the registry boundary of
\* path-add and path-remove, and leaves _execute from the other two.
Raised(p) ==
  IF local[p].op \in {"path-add", "path-remove"}
  THEN End(p, "path-access-failed", "none") ELSE End(p, "raised", "raised")

CompareAndWrite(p, purpose, expect, want) ==
  [local[p] EXCEPT !.pc = "compare", !.purpose = purpose, !.expect = expect, !.want = want]

(***************************************************************************)
(* setup.exe runs an assist for one operation, or for path-remove followed *)
(* by state-cleanup, which _execute runs as one batch.                     *)
(***************************************************************************)
Addition(route, consent) ==
  [Rest EXCEPT !.pc = "live", !.op = "path-add", !.route = route, !.consent = consent]
Removal(op) == [Rest EXCEPT !.pc = "owned", !.op = op]
Requests == {Addition(r, c) : r \in Route, c \in BOOLEAN}
              \cup {Removal(op) : op \in {"path-remove", "batch", "state-cleanup"}}

Begin(p) ==
  /\ At(p, "idle") /\ requests < MaxRequests
  /\ \E request \in Requests : local' = [local EXCEPT ![p] = request]
  /\ begun' = [begun EXCEPT ![p] = [path |-> path, record |-> record, state |-> state]]
  /\ met' = [met EXCEPT ![p] = [others |-> FALSE, failed |-> 0]]
  /\ raced' = [raced EXCEPT ![p] = FALSE]
  /\ requests' = requests + 1
  /\ UNCHANGED <<path, record, state, troubles>>

(***************************************************************************)
(* append_user_path                                                        *)
(***************************************************************************)
AddReadPath(p) ==
  /\ At(p, "live") /\ local[p].op = "path-add"
  /\ Read(p, IF Has(Safe(LivePath), local[p].route) THEN End(p, "unchanged", "none")
             ELSE [Move(p, "owned") EXCEPT !.path = LivePath])

\* What append_user_path does with the record it reads.
AddWith(p, rec) ==
  LET value == Safe(local[p].path)
      add(base) == CompareAndWrite(p, "add", local[p].path, Extended(base, local[p].route))
  IN CASE rec = NoRecord -> add(value)
       [] rec = Garbage -> End(p, "path-record-invalid", "none")
       [] OTHER ->
            IF local[p].path # rec.path \/ ~AtEnd(rec)
            THEN End(p, "path-ownership-changed", "none")
            ELSE IF ~local[p].consent
                 THEN End(p, "path-correction-consent-required", "none")
                 ELSE add(Shortened(value))

AddReadRecord(p) ==
  /\ At(p, "owned") /\ local[p].op = "path-add"
  /\ Read(p, AddWith(p, record))

Compare_unchecked(p) == At(p, "compare") /\ Read(p, Move(p, "write"))

\* compare_and_write_user_path: the value is read, and then written.
Compare(p) ==
  LET r == local[p]
      mismatch ==
        CASE r.purpose = "add" ->
               IF r.retry THEN End(p, "path-concurrency-unsafe", "none")
               ELSE [Rest EXCEPT !.pc = "live", !.op = r.op, !.route = r.route,
                                 !.consent = r.consent, !.retry = TRUE]
          [] r.purpose = "remove" -> End(p, "path-concurrency-unsafe", "none")
          [] r.purpose = "batch" -> End(p, "path-concurrency-unsafe", "path-remove-failed")
          [] r.purpose = "undo" -> End(p, "path-bookkeeping-rollback-failed", "none")
          [] r.purpose = "restore" -> End(p, "changed", "path-restore-failed")
  IN /\ At(p, "compare")
     /\ Read(p, IF LivePath = r.expect THEN Move(p, "write") ELSE mismatch)

Write(p) ==
  LET purpose == local[p].purpose
  IN /\ At(p, "write")
     /\ path' = local[p].want
     /\ UNCHANGED <<record, state>>
     /\ Goto(p, CASE purpose = "add" -> Move(p, "record")
                  [] purpose = "remove" -> Move(p, "clear")
                  [] purpose = "batch" -> Move(p, "notify")
                  [] purpose = "undo" -> End(p, "path-bookkeeping-failed", "none")
                  [] purpose = "restore" -> End(p, "state-delete-failed", "state-delete-failed"))

WriteRecord(p) ==
  /\ At(p, "record")
  /\ record' = Record(local[p].route, local[p].want)
  /\ UNCHANGED <<path, state>>
  /\ Goto(p, End(p, "changed", "none"))

\* The value before the append goes back; where there was none, an empty string.
UndoAdd(p) ==
  CompareAndWrite(p, "undo", local[p].want, Text(Safe(local[p].path).elems, local[p].want.type))
UndoRemove_swapped(p) == CompareAndWrite(p, "undo", local[p].path, local[p].want)
UndoRemove(p) == CompareAndWrite(p, "undo", local[p].want, local[p].path)

(***************************************************************************)
(* remove_recorded_user_path, cleanup_literal_state and the batch begin    *)
(* with the record.                                                        *)
(***************************************************************************)
ReadRecord(p) ==
  LET r == local[p]
      kept == [Move(p, "live") EXCEPT !.record = record]
  IN /\ At(p, "owned") /\ r.op # "path-add"
     /\ Read(p,
          IF r.guided /\ record # r.record THEN EndState(p, "path-ownership-changed")
          ELSE
          CASE ~Valid(record) ->
                 (CASE r.op = "path-remove" -> End(p, "unchanged", "none")
                    [] r.op = "batch" -> End(p, "unchanged", "state-record-missing")
                    [] OTHER -> End(p, "none", "state-record-missing"))
            [] Valid(record) /\ ~AtEnd(record) /\ r.op = "batch" ->
                 End(p, "path-ownership-changed", "path-remove-failed")
            [] Valid(record) /\ ~AtEnd(record) /\ r.op = "state-cleanup" ->
                 EndState(p, "path-ownership-changed")
            [] OTHER -> kept)

RemoveReadPath(p) ==
  LET rec == local[p].record
  IN /\ At(p, "live") /\ local[p].op = "path-remove"
     /\ Read(p,
          IF ~Has(LivePath, rec.element) /\ LivePath # rec.path
          THEN End(p, "unchanged", "none")
          ELSE IF LivePath # rec.path \/ ~AtEnd(rec)
               THEN End(p, "path-ownership-changed", "none")
               ELSE [CompareAndWrite(p, "remove", LivePath, Shortened(LivePath))
                       EXCEPT !.path = LivePath])

BatchReadPath(p) ==
  LET rec == local[p].record
  IN /\ At(p, "live") /\ local[p].op = "batch" /\ ~local[p].guided
     /\ Read(p,
          CASE LivePath = rec.path ->
                 [CompareAndWrite(p, "batch", LivePath, Shortened(LivePath))
                    EXCEPT !.path = LivePath]
            [] Has(LivePath, rec.element) /\ LivePath # rec.path ->
                 End(p, "path-ownership-changed", "path-remove-failed")
            [] OTHER -> [Move(p, "owned") EXCEPT !.guided = TRUE])

CleanupReadPath(p) ==
  /\ At(p, "live")
  /\ local[p].op = "state-cleanup" \/ local[p].guided
  /\ Read(p, IF LivePath = local[p].record.path
             THEN [Move(p, "record-again") EXCEPT !.want = LivePath]
             ELSE EndState(p, "path-ownership-changed"))

Notify(p) == At(p, "notify") /\ Read(p, Move(p, "record-again"))

\* Both proofs are read once more before the directory is deleted.
Changed(p) ==
  IF local[p].purpose = "batch" THEN End(p, "changed", "path-ownership-changed")
  ELSE EndState(p, "path-ownership-changed")

RecheckRecord_cached(p) == At(p, "record-again") /\ Read(p, Move(p, "path-again"))

RecheckRecord(p) ==
  /\ At(p, "record-again")
  /\ Read(p, IF record = local[p].record THEN Move(p, "path-again") ELSE Changed(p))

RecheckPath(p) ==
  /\ At(p, "path-again")
  /\ Read(p, IF LivePath = local[p].want THEN Move(p, "delete") ELSE Changed(p))

(***************************************************************************)
(* _native_state_cleanup.delete_directory deletes the tree entry by entry. *)
(***************************************************************************)
NotDeleted(p) ==
  IF local[p].purpose = "batch"
  THEN CompareAndWrite(p, "restore", local[p].want, local[p].record.path)
  ELSE EndState(p, "state-delete-failed")

Delete(p) ==
  /\ At(p, "delete") /\ state # "gone"
  /\ state' = "gone"
  /\ UNCHANGED <<path, record>>
  /\ Goto(p, Move(p, "clear"))

DeleteFails(p) ==
  /\ At(p, "delete")
  /\ \/ state = "gone" /\ Read(p, NotDeleted(p))
     \/ /\ state # "gone"
        /\ state' \in {state, "part"}
        /\ Fault(p, NotDeleted(p))

ClearRecord(p) ==
  /\ At(p, "clear")
  /\ record' = NoRecord
  /\ UNCHANGED <<path, state>>
  /\ Goto(p, CASE local[p].purpose = "remove" -> End(p, "changed", "none")
               [] local[p].purpose = "batch" -> End(p, "changed", "changed")
               [] OTHER -> EndState(p, "changed"))

(***************************************************************************)
(* Where an OSError is caught, and where it is not.                        *)
(***************************************************************************)
Caught(p) ==
  LET r == local[p]
  IN CASE r.pc = "record" -> UndoAdd(p)
       [] r.pc = "clear" /\ r.purpose = "remove" -> UndoRemove(p)
       [] r.pc = "clear" /\ r.purpose = "batch" -> End(p, "changed", "state-bookkeeping-failed")
       [] r.pc = "clear" /\ r.purpose = "none" -> EndState(p, "state-bookkeeping-failed")
       [] r.pc \in {"compare", "write"} /\ r.purpose = "restore" ->
            End(p, "changed", "path-restore-failed")
       [] OTHER -> Raised(p)

CallFails(p) ==
  /\ local[p].pc \notin {"idle", "notify", "delete"}
  /\ UNCHANGED state
  /\ Fault(p, Caught(p))

Killed(p) ==
  /\ ~At(p, "idle")
  /\ UNCHANGED state
  /\ Fault(p, Rest)

(***************************************************************************)
(* Others: PATH is edited by hand or by another installer, and the         *)
(* uninstaller drops its key, with the record in it.                       *)
(***************************************************************************)
Edits ==
  {Absent, NotText}
    \cup (IF LivePath = Absent THEN {Text(<<Foreign>>, t) : t \in Type}
          ELSE {Extended(path, e) : e \in {Foreign} \cup Route}
                 \cup {Text(RemoveAt(path.elems, i), path.type) :
                         i \in {j \in DOMAIN path.elems : Len(path.elems) > 1}}
                 \cup {Text(path.elems, t) : t \in Type})

Others ==
  /\ troubles < MaxTroubles
  /\ \/ path' \in Edits /\ UNCHANGED record
     \/ /\ record' \in {NoRecord, Garbage} \cup {Record(r, Text(<<Foreign>>, "REG_SZ")) : r \in Route}
        /\ UNCHANGED path
  /\ UNCHANGED state
  /\ shared' # shared
  /\ troubles' = troubles + 1
  /\ met' = [q \in Assist |-> [met[q] EXCEPT !.others = TRUE]]
  /\ raced' = [q \in Assist |-> TRUE]
  /\ UNCHANGED <<local, begun, requests>>

Step(p) ==
  \/ Begin(p)
  \/ AddReadPath(p) \/ AddReadRecord(p) \/ WriteRecord(p)
  \/ ReadRecord(p) \/ RemoveReadPath(p) \/ BatchReadPath(p) \/ CleanupReadPath(p)
  \/ Compare(p) \/ Write(p)
  \/ Notify(p) \/ RecheckRecord(p) \/ RecheckPath(p)
  \/ Delete(p) \/ DeleteFails(p) \/ ClearRecord(p)
  \/ CallFails(p) \/ Killed(p)

PathNext == (\E p \in Assist : Step(p)) \/ Others

PathSpec == PathInit /\ [][PathNext]_pathVars

----------------------------------------------------------------------------
(***************************************************************************)
(* Properties                                                              *)
(***************************************************************************)
Theirs(value) == IF value = Absent THEN {} ELSE {i \in DOMAIN value.elems : value.elems[i] = Foreign}

\* A write of PATH leaves every element that is not a route where it is, and
\* the type of the value, unless somebody edited PATH between the
\* comparison and the write, or Path was not a string (_path_cleanup.py:65-69).
ForeignKept ==
  [][\A p \in Assist : At(p, "write") /\ local'[p] # local[p] /\ path' # path =>
       \/ raced[p] \/ path = NotText
       \/ /\ Theirs(path') = Theirs(path)
          /\ path # Absent => path'.type = path.type]_pathVars

\* The state directory is touched only on proof: the record is there, and PATH
\* is the value it names, or, once the batch has taken the route out, that value
\* without its last element.  Nobody but an edit after the last check can have
\* changed that (design.md: "revalidate the unchanged record and exact
\* post-removal PATH before deleting state").
DeletedOnProof ==
  [][\A p \in Assist : At(p, "delete") /\ local'[p] # local[p] /\ state' # state =>
       \/ raced[p]
       \/ /\ record = local[p].record /\ Valid(record)
          /\ path = IF local[p].purpose = "batch" THEN Shortened(record.path) ELSE record.path]_pathVars

\* PATH and record as the request found them; that a value was absent, or not a
\* string, is what no undoing restores.
AsFound(p) ==
  /\ begun[p].path # NotText => Safe(path) = Safe(begun[p].path)
  /\ record = begun[p].record
Alone(p) == At(p, "idle") /\ ~met[p].others

\* The report of p fits what its request has left.
Answered(p) ==
  LET op == local[p].op
      said == local[p].said
      owned == begun[p].record
  IN /\ op \in {"path-add", "path-remove"} /\ said.path \notin {"none", "changed"} =>
          /\ met[p].failed < 2 => AsFound(p)
          /\ said.path \notin {"path-concurrency-unsafe", "path-bookkeeping-rollback-failed"}
     /\ op = "batch" /\ said.path \notin {"none", "raised"} =>
          /\ said.path # "changed" => AsFound(p)
          /\ said.state \notin {"changed", "state-bookkeeping-failed"} =>
               (state = "gone" => begun[p].state = "gone")
     /\ op = "path-add" /\ said.path \in {"changed", "unchanged"} =>
          /\ Has(LivePath, local[p].route)
          /\ said.path = "changed" => record = Record(local[p].route, path)
     /\ op \in {"path-remove", "batch"} /\ said.path = "changed" =>
          Valid(owned) /\ path = Shortened(owned.path)
     /\ said.state = "changed" \/ (op = "path-remove" /\ said.path = "changed") =>
          record = NoRecord
     /\ said.state = "changed" => state = "gone"

\* What a request says is what it did, when nobody else wrote meanwhile.  A
\* refused path-add or path-remove has left PATH and record as it found them,
\* when at most one call failed, and blames nobody else; a batch that reports a
\* refused or unchanged PATH has too, and one that reports a refused state has
\* not deleted all of it.  An addition that is reported as done has its route in
\* PATH and, when it changed PATH, a record of exactly the value it wrote; a
\* removal has taken the route and the record away; a cleanup has left neither
\* directory nor record.
AnswersTrue == \A p \in Assist : Alone(p) => Answered(p)

(***************************************************************************)
(* The inductive invariant.                                                *)
(***************************************************************************)
PCs == {"idle", "live", "owned", "compare", "write", "record", "notify",
        "record-again", "path-again", "delete", "clear"}
Rechecks == {"record-again", "path-again", "delete"}
Values == {Absent} \cup Texts
Words == {"none", "changed", "unchanged", "raised", "path-access-failed", "path-record-invalid",
          "path-ownership-changed", "path-correction-consent-required", "path-concurrency-unsafe",
          "path-remove-failed", "path-restore-failed", "path-bookkeeping-failed",
          "path-bookkeeping-rollback-failed", "state-delete-failed", "state-record-missing",
          "state-bookkeeping-failed"}
Locals ==
  [pc : PCs,
   op : {"none", "path-add", "path-remove", "batch", "state-cleanup"},
   route : Route \cup {Empty}, consent : BOOLEAN,
   path : Values, record : {NoRecord, Garbage} \cup Records, expect : Values, want : Values,
   purpose : {"none", "add", "remove", "batch", "undo", "restore"},
   retry : BOOLEAN, guided : BOOLEAN, said : [path : Words, state : Words]]

\* The variables have their types.
Shares ==
  /\ path \in {NotText} \cup Values /\ record \in {NoRecord, Garbage} \cup Records
  /\ state \in {"whole", "part", "gone"}
PathTyped ==
  /\ Shares
  /\ local \in [Assist -> Locals]
  /\ begun \in [Assist -> [path : {NotText} \cup Values, record : {NoRecord, Garbage} \cup Records,
                           state : {"whole", "part", "gone"}]]
  /\ met \in [Assist -> [others : BOOLEAN, failed : Nat]]
  /\ raced \in [Assist -> BOOLEAN]
  /\ requests \in Nat /\ troubles \in Nat

\* What is to be written leaves the elements of others where they are.
Fits(expect, want) == Theirs(want) = Theirs(expect) /\ (expect # Absent => want.type = expect.type)
Provides(rec) == rec \in Records /\ AtEnd(rec)

\* Where a request can be while it compares and writes for a purpose, and after.
Placed(r) ==
  /\ r.purpose = "none" => r.pc \notin {"compare", "write", "record", "notify"}
  /\ r.purpose = "add" => r.pc \in {"compare", "write", "record"}
  /\ r.purpose = "remove" => r.pc \in {"compare", "write", "clear"}
  /\ r.purpose = "batch" => r.pc \notin {"idle", "live", "owned", "record"}
  /\ r.purpose \in {"undo", "restore"} => r.pc \in {"compare", "write"}

\* What a request means to write follows from what it has read.
Planned(r) ==
  /\ Placed(r)
  /\ r.op = "path-add" => r.route \in Route
  /\ r.pc = "live" /\ r.op # "path-add" => r.record \in Records
  /\ r.pc = "live" /\ r.op = "batch" => AtEnd(r.record)
  /\ r.guided => r.op = "batch"
  /\ r.purpose = "none" /\ r.pc \in Rechecks => r.record \in Records /\ r.want = r.record.path
  /\ r.purpose = "add" =>
       /\ r.op = "path-add" /\ r.expect = r.path
       /\ r.want \in Texts /\ Fits(Safe(r.path), r.want) /\ Has(r.want, r.route)
  /\ r.purpose = "remove" =>
       /\ r.op = "path-remove" /\ Provides(r.record)
       /\ r.expect = r.path /\ r.path = r.record.path /\ r.want = Shortened(r.path)
  /\ r.purpose = "batch" =>
       r.op = "batch" /\ ~r.guided /\ Provides(r.record)
         /\ r.expect = r.record.path /\ r.want = Shortened(r.record.path)
  /\ r.purpose = "undo" =>
       /\ r.op \in {"path-add", "path-remove"}
       /\ r.expect \in Texts /\ r.want = Safe(r.path) /\ Fits(r.want, r.expect)
  /\ r.purpose = "restore" =>
       /\ r.op = "batch" /\ Provides(r.record)
       /\ r.expect = Shortened(r.record.path) /\ r.want = r.record.path

\* What was compared last is so, unless it was edited since.
Compared(p) ==
  ~raced[p] =>
    /\ At(p, "write") => LivePath = local[p].expect
    /\ local[p].pc \in {"path-again", "delete"} => record = local[p].record
    /\ At(p, "delete") => LivePath = local[p].want

\* How far a request has got from what it found, when nobody else wrote.
Found(p) == path = begun[p].path /\ record = begun[p].record /\ state = begun[p].state
Reached(p) ==
  LET r == local[p]
      b == begun[p]
  IN IF r.pc = "idle" THEN Answered(p) ELSE
     CASE r.purpose = "none" /\ r.pc # "clear" ->
            /\ Found(p)
            /\ r.pc = "live" /\ r.op # "path-add" => r.record = record
            /\ r.pc = "owned" /\ r.op = "path-add" => r.path = LivePath
            /\ r.guided => r.record = record /\ LivePath # r.record.path /\ r.pc \notin Rechecks
       [] r.purpose = "none" /\ r.pc = "clear" -> state = "gone" /\ ~r.guided
       [] r.purpose = "add" ->
            /\ IF r.pc = "record" THEN path = r.want /\ record = b.record /\ state = b.state ELSE Found(p)
            /\ b.path # NotText => r.path = b.path
            /\ r.pc # "record" => LivePath = r.path
       [] r.purpose = "remove" ->
            /\ IF r.pc = "clear" THEN path = r.want /\ record = b.record /\ state = b.state ELSE Found(p)
            /\ b.path = r.path /\ r.record = b.record
       [] r.purpose = "batch" ->
            /\ IF r.pc \in {"compare", "write"} THEN path = r.expect ELSE path = r.want
            /\ b.path = r.expect /\ record = b.record /\ r.record = b.record
            /\ IF r.pc = "clear" THEN state = "gone" ELSE state = b.state
       [] r.purpose = "undo" ->
            /\ path = r.expect /\ record = b.record /\ met[p].failed > 0
            /\ b.path # NotText => r.path = b.path
       [] r.purpose = "restore" ->
            /\ path = r.expect /\ record = b.record /\ r.record = b.record /\ b.path = r.want
            /\ state = "gone" => b.state = "gone"

Told(p) == ~met[p].others => Reached(p)

PathInv ==
  /\ PathTyped
  /\ \A p \in Assist : Planned(local[p]) /\ Compared(p) /\ Told(p)

=============================================================================
