--------------------------- MODULE CodexHelper_proof ---------------------------
(***************************************************************************)
(* Theorems about CodexHelper, for any number of threads and requests and  *)
(* any number of failing system calls: nothing that a request has acquired *)
(* is lost, and an executor has one helper at a time.                      *)
(***************************************************************************)
EXTENDS CodexHelper, FiniteSetTheorems, TLAPS

(***************************************************************************)
(* The operators on a supervisor.                                          *)
(***************************************************************************)
Sound(s) == s \in Supervisor /\ Held(s)

(* Closing ends opens none, and takes nothing off the books.               *)
LEMMA CloseSound ==
  ASSUME NEW s, Sound(s), NEW ends \in SUBSET Ends
  PROVE  /\ Sound(Close(s, ends)) /\ Sound(Lose(s, ends))
         /\ Close(s, ends).state = s.state /\ Lose(s, ends).state = s.state
<1> USE DEF Sound, Supervisor, Held, Owned, Alive, OpenEnds, EndsOf, Ends
<1>1. Sound(Close(s, ends)) /\ Close(s, ends).state = s.state
  BY DEF Close
<1>2. Sound(Lose(s, ends)) /\ Lose(s, ends).state = s.state
  BY DEF Lose
<1>. QED BY <1>1, <1>2

(* What is acquired is entered, by a supervisor that is not closed.        *)
LEMMA OwnSound ==
  ASSUME NEW s, Sound(s), s.state # "closed", NEW entry \in Entry
  PROVE  Sound(Own(s, entry)) /\ Own(s, entry).state = s.state /\ entry \in Own(s, entry).entries
BY DEF Sound, Supervisor, Held, Owned, Alive, OpenEnds, Own

(* An entry that is taken out of the transaction, and nothing else.        *)
LEMMA WithoutIs ==
  ASSUME NEW s \in Supervisor, NEW entry
  PROVE  LET w == Without(s, entry)
         IN  /\ w \in Supervisor /\ w.entries = s.entries \ {entry} /\ w.kept = s.kept
             /\ w.end = s.end /\ w.inheritable = s.inheritable /\ w.process = s.process
             /\ w.job = s.job /\ w.child = s.child /\ w.state = s.state
BY DEF Without, Supervisor

LEMMA ReapIs ==
  ASSUME NEW s \in Supervisor
  PROVE  Reap(s) \in Supervisor
<1> DEFINE d == [s EXCEPT !.child = "dead"]
           r == [d EXCEPT !.process = "closed"]
<1>1. d \in Supervisor
  BY DEF Supervisor
<1>2. Reap(s) = r
  BY DEF Reap, Supervisor
<1> HIDE DEF d
<1>3. r \in Supervisor
  BY <1>1 DEF Supervisor
<1>. QED BY <1>2, <1>3

(* What is released is no longer owned, and is gone.                       *)
LEMMA ReleasedSound ==
  ASSUME NEW s, Sound(s), NEW entry \in s.entries
  PROVE  /\ Sound(Released(Without(s, entry), entry))
         /\ Released(Without(s, entry), entry).state = s.state
<1> DEFINE w == Without(s, entry)
           r == Released(w, entry)
<1>1. /\ w \in Supervisor /\ w.entries = s.entries \ {entry} /\ w.kept = s.kept
      /\ w.end = s.end /\ w.inheritable = s.inheritable /\ w.process = s.process
      /\ w.job = s.job /\ w.child = s.child /\ w.state = s.state
  BY WithoutIs DEF Sound
<1>2. s \in Supervisor /\ Held(s) /\ entry \in Entry /\ s.state # "closed"
  BY DEF Sound, Supervisor, Held, Owned
<1> HIDE DEF w
<1>3. CASE entry \in {"gate", "data"}
  <2> DEFINE open == OpenEnds(w, EndsOf(entry))
  <2>1. r = Close(w, open)
    BY <1>3 DEF Released
  <2>2. /\ r \in Supervisor /\ r.entries = s.entries \ {entry} /\ r.kept = s.kept
        /\ r.end = [e \in Ends |-> IF e \in open THEN "closed" ELSE s.end[e]]
        /\ r.inheritable = s.inheritable /\ r.process = s.process
        /\ r.job = s.job /\ r.child = s.child /\ r.state = s.state
    BY <1>1, <2>1 DEF Close, Supervisor
  <2> HIDE DEF r
  <2>3. Held(r)
    BY <1>1, <1>2, <1>3, <2>2 DEF Held, Owned, Alive, OpenEnds, EndsOf, Ends
  <2>. QED BY <2>2, <2>3 DEF Sound, r, w
<1>4. CASE entry = "inheritable"
  <2>1. r = [w EXCEPT !.inheritable = FALSE]
    BY <1>4 DEF Released
  <2>2. /\ r \in Supervisor /\ r.entries = s.entries \ {entry} /\ r.kept = s.kept
        /\ r.end = s.end /\ r.inheritable = FALSE /\ r.process = s.process
        /\ r.job = s.job /\ r.child = s.child /\ r.state = s.state
    BY <1>1, <2>1 DEF Supervisor
  <2> HIDE DEF r
  <2>3. Held(r)
    BY <1>2, <1>4, <2>2 DEF Held, Owned, Alive, OpenEnds
  <2>. QED BY <2>2, <2>3 DEF Sound, r, w
<1>5. CASE entry = "process"
  <2>1. r = [w EXCEPT !.child = "dead", !.process = "closed"]
    BY <1>5 DEF Released, Reap
  <2>2. r \in Supervisor
    BY <1>1, <2>1, ReapIs DEF Reap
  <2>3. /\ r.entries = s.entries \ {entry} /\ r.kept = s.kept /\ r.end = s.end
        /\ r.inheritable = s.inheritable /\ r.process = "closed" /\ r.job = s.job
        /\ r.child = "dead" /\ r.state = s.state
    BY <1>1, <2>1 DEF Supervisor
  <2> HIDE DEF r
  <2>4. Held(r)
    BY <1>2, <1>5, <2>3 DEF Held, Owned, Alive, OpenEnds
  <2>. QED BY <2>2, <2>3, <2>4 DEF Sound, r, w
<1>6. CASE entry \in {"handle", "job"}
  <2>1. r = [w EXCEPT !.job = "closed"]
    BY <1>6 DEF Released
  <2>2. /\ r \in Supervisor /\ r.entries = s.entries \ {entry} /\ r.kept = s.kept
        /\ r.end = s.end /\ r.inheritable = s.inheritable /\ r.process = s.process
        /\ r.job = "closed" /\ r.child = s.child /\ r.state = s.state
    BY <1>1, <2>1 DEF Supervisor
  <2> HIDE DEF r
  <2>3. Held(r)
    BY <1>2, <1>6, <2>2 DEF Held, Owned, Alive, OpenEnds
  <2>. QED BY <2>2, <2>3 DEF Sound, r, w
<1>7. CASE entry = "helper"
  <2> DEFINE j == [w EXCEPT !.job = "closed"]
  <2>1. r = Reap(j)
    BY <1>7 DEF Released
  <2>2. j \in Supervisor
    BY <1>1 DEF Supervisor
  <2>3. /\ j.entries = s.entries \ {entry} /\ j.kept = s.kept /\ j.end = s.end
        /\ j.inheritable = s.inheritable /\ j.job = "closed" /\ j.state = s.state
    BY <1>1 DEF Supervisor
  <2> HIDE DEF j
  <2>4. r \in Supervisor
    BY <2>1, <2>2, ReapIs
  <2>5. /\ r.entries = s.entries \ {entry} /\ r.kept = s.kept /\ r.end = s.end
        /\ r.inheritable = s.inheritable /\ r.process = "closed" /\ r.job = "closed"
        /\ r.child = "dead" /\ r.state = s.state
    BY <2>1, <2>2, <2>3 DEF Reap, Supervisor
  <2> HIDE DEF r
  <2>6. Held(r)
    BY <1>2, <1>7, <2>5 DEF Held, Owned, Alive, OpenEnds
  <2>. QED BY <2>4, <2>5, <2>6 DEF Sound, r, w
<1>. QED BY <1>2, <1>3, <1>4, <1>5, <1>6, <1>7 DEF Entry, w

(* What could not be released is still owned.                              *)
LEMMA KeptSound ==
  ASSUME NEW s, Sound(s), NEW entry \in s.entries
  PROVE  Sound(Kept(s, entry)) /\ Kept(s, entry).state = s.state
<1> DEFINE k == Kept(s, entry)
           w == Without(s, entry)
<1>0. /\ w \in Supervisor /\ w.entries = s.entries \ {entry} /\ w.kept = s.kept
      /\ w.end = s.end /\ w.inheritable = s.inheritable /\ w.process = s.process
      /\ w.job = s.job /\ w.child = s.child /\ w.state = s.state
  BY WithoutIs DEF Sound
<1>1. /\ k \in Supervisor /\ k.entries = s.entries \ {entry} /\ k.kept = s.kept \cup {entry}
      /\ k.end = s.end /\ k.inheritable = s.inheritable /\ k.process = s.process
      /\ k.job = s.job /\ k.child = s.child /\ k.state = s.state
  <2>1. k = [w EXCEPT !.kept = @ \cup {entry}]
    BY DEF Kept
  <2>2. entry \in Entry
    BY DEF Sound, Supervisor
  <2> HIDE DEF w, k
  <2>. QED BY <1>0, <2>1, <2>2 DEF Supervisor
<1> HIDE DEF k
<1>2. Owned(k) = Owned(s)
  BY <1>1 DEF Owned
<1>. QED BY <1>1, <1>2 DEF Sound, Held, Alive, OpenEnds, k

LEMMA StuckSound ==
  ASSUME NEW s, Sound(s), NEW entry \in Entry, NEW left \in Stuck(s, entry)
  PROVE  Sound(left) /\ left.state = s.state
<1>1. CASE entry \in {"gate", "data"}
  <2> DEFINE open == OpenEnds(s, EndsOf(entry))
  <2>1. PICK lost \in SUBSET open : left = Lose(Close(s, open), lost)
    BY <1>1 DEF Stuck
  <2>2. open \in SUBSET Ends /\ lost \in SUBSET Ends
    BY <1>1 DEF OpenEnds, EndsOf, Ends
  <2> HIDE DEF open
  <2>. QED BY <2>1, <2>2, CloseSound
<1>2. CASE entry \notin {"gate", "data"}
  <2>1. left \in {s, [s EXCEPT !.child = "dead"], [s EXCEPT !.child = "dead", !.job = "closed"]}
    BY <1>2 DEF Stuck, Entry
  <2>2. left \in Supervisor
    <3>1. s \in Supervisor /\ [s EXCEPT !.child = "dead"] \in Supervisor
      BY DEF Sound, Supervisor
    <3> DEFINE d == [s EXCEPT !.child = "dead"]
               j == [d EXCEPT !.job = "closed"]
    <3>2. j = [s EXCEPT !.child = "dead", !.job = "closed"]
      BY DEF Sound, Supervisor
    <3>3. d \in Supervisor
      BY <3>1
    <3> HIDE DEF d
    <3>4. j \in Supervisor
      BY <3>3 DEF Supervisor
    <3>. QED BY <2>1, <3>1, <3>2, <3>4
  <2>3. /\ left.end = s.end /\ left.inheritable = s.inheritable /\ left.process = s.process
        /\ left.job \in {s.job, "closed"} /\ left.child \in {s.child, "dead"}
        /\ left.entries = s.entries /\ left.kept = s.kept /\ left.state = s.state
    BY <2>1 DEF Sound, Supervisor
  <2>. QED BY <2>2, <2>3 DEF Sound, Held, Alive, OpenEnds, Owned
<1>. QED BY <1>1, <1>2

(* What a rollback has kept is what is owned from then on.                 *)
LEMMA RetainedSound ==
  ASSUME NEW s, Sound(s), s.entries = {}
  PROVE  /\ Sound(Retained(s)) /\ Retained(s).state = s.state
         /\ Sound(Broken(s)) /\ Broken(s).state = "broken"
<1> USE DEF Sound, Supervisor, Retained, Broken, Owned
<1>1. Retained(s) \in Supervisor /\ Owned(Retained(s)) = Owned(s) /\ Retained(s).state = s.state
  OBVIOUS
<1>2. Broken(s) \in Supervisor /\ Owned(Broken(s)) = Owned(s) /\ Broken(s).state = "broken"
  OBVIOUS
<1>. QED BY <1>1, <1>2 DEF Held, Alive, OpenEnds

(* The flags of a supervisor and what is written to its pipes own nothing. *)
LEMMA MarkedSound ==
  ASSUME NEW s, Sound(s), NEW flag \in BOOLEAN, NEW frame \in {"nothing", "go", "request"}
  PROVE  /\ Sound([s EXCEPT !.pending = flag]) /\ [s EXCEPT !.pending = flag].state = s.state
         /\ Sound([s EXCEPT !.terminal = flag]) /\ [s EXCEPT !.terminal = flag].state = s.state
         /\ Sound([s EXCEPT !.told = frame]) /\ [s EXCEPT !.told = frame].state = s.state
BY DEF Sound, Supervisor, Held, Owned, Alive, OpenEnds

(***************************************************************************)
(* The steps.                                                              *)
(***************************************************************************)
Rules == TypeOK /\ Bounded /\ OneWorker /\ Accounted /\ Surrendered

(* While the owner lives, a helper that lives is worked on or pending.     *)
OneLives == owner = "running" => OneHelper

LEMMA OneAlive == Rules => OneLives
<1> SUFFICES ASSUME TypeOK, OneWorker, Accounted, Surrendered, owner = "running" PROVE OneHelper
  BY DEF Rules, OneLives
<1>1. ASSUME NEW s \in Sup, Alive(sup[s])
      PROVE  s = pending \/ \E c \in Caller : Works(c) /\ run[c].sup = s
  <2>1. Owned(sup[s]) # {}
    BY <1>1 DEF Accounted, Held
  <2>2. s <= used /\ ~Forgotten(s)
    BY <2>1 DEF Surrendered, Sup, TypeOK
  <2>3. CASE s # pending
    <3>1. PICK c \in Caller : run[c].pc # "idle" /\ run[c].sup = s
      BY <2>2, <2>3 DEF Forgotten
    <3>2. s # NoSup
      BY HelperAssumption DEF Sup, NoSup
    <3>. QED BY <3>1, <3>2 DEF OneWorker, Works
  <2>. QED BY <2>3
<1>2. ASSUME NEW s \in Sup, NEW t \in Sup, Alive(sup[s]), Alive(sup[t]) PROVE s = t
  <2>1. s # NoSup /\ t # NoSup
    BY HelperAssumption DEF Sup, NoSup
  <2>. QED BY <1>1, <1>2, <2>1 DEF OneWorker
<1>. QED BY <1>2 DEF OneHelper

(* What one working thread does to its supervisor.                         *)
LEMMA WorkStep ==
  ASSUME Rules, owner = "running", UNCHANGED <<owner, pending, active, retrying, used>>, faults' \in Nat,
         NEW c \in Caller, Works(c), run[c].pc # "end",
         NEW l \in Thread, run' = [run EXCEPT ![c] = l], l.sup = run[c].sup, l.retry = run[c].retry,
         l.pc \notin {"idle", "check", "claim", "end"},
         NEW s, Sound(s), sup' = [sup EXCEPT ![run[c].sup] = s],
         l.pc \in Acquiring => s.state = "open", l.pc = "attach" => s.job = "open",
         l.pc = "closed" => s.state = "closed"
  PROVE  Rules'
<1> USE DEF Rules
<1>1. /\ run \in [Caller -> Thread] /\ sup \in [Sup -> Supervisor] /\ s \in Supervisor
      /\ run[c].sup \in Sup
  <2>1. run[c].sup \in 1 .. used
    BY DEF OneWorker
  <2>2. run[c].sup \in {NoSup} \cup Sup
    <3>1. run[c] \in Thread
      BY DEF TypeOK
    <3>. QED BY ONLY <3>1 DEF Thread
  <2>3. NoSup \notin 1 .. used
    BY DEF NoSup, TypeOK
  <2>. QED BY <2>1, <2>2, <2>3 DEF TypeOK, Sound
<1>2. run'[c] = l /\ \A d \in Caller \ {c} : run'[d] = run[d]
  BY <1>1
<1>3. sup'[run[c].sup] = s /\ \A t \in Sup \ {run[c].sup} : sup'[t] = sup[t]
  BY <1>1
<1>4. \A d \in Caller : Works(d)' = Works(d)
  BY <1>2 DEF Works
<1>5. TypeOK'
  BY <1>1 DEF TypeOK
<1>6. Bounded'
  <2>1. Comers' = Comers
    BY <1>2 DEF Comers, Works
  <2>. QED BY <2>1 DEF Bounded
<1>7. OneWorker'
  BY <1>2, <1>4 DEF OneWorker
<1>8. Accounted'
  BY <1>1, <1>3 DEF Accounted, Sound
<1>9. Surrendered'
  <2>1. ASSUME NEW t \in Sup, t > used PROVE sup'[t] = sup[t]
    BY <1>1, <1>3, <2>1 DEF OneWorker, TypeOK, Sup
  <2>2. ASSUME NEW d \in Caller, d # c, Works(d) PROVE FALSE
    BY <2>2 DEF OneWorker
  <2>3. ASSUME NEW d \in Caller
        PROVE  /\ run'[d].pc \in Acquiring => sup'[run'[d].sup].state = "open"
               /\ run'[d].pc = "attach" => sup'[run'[d].sup].job = "open"
               /\ run'[d].pc = "closed" => sup'[run'[d].sup].state = "closed"
    <3>1. CASE d = c
      BY <1>2, <1>3, <3>1
    <3>2. CASE d # c
      <4>1. ~Works(d) /\ run'[d] = run[d]
        BY <1>2, <2>2, <3>2
      <4>2. run[d].pc \in {"idle", "check", "claim"}
        BY ONLY <4>1 DEF Works
      <4>. QED BY ONLY <4>1, <4>2 DEF Acquiring
    <3>. QED BY <3>1, <3>2
  <2>4. ASSUME NEW t \in Sup, Forgotten(t)' PROVE Owned(sup'[t]) = {}
    <3>1. t # run[c].sup
      BY <1>2, <2>4 DEF Forgotten
    <3>2. Forgotten(t)
      BY <1>2, <2>4, <3>1 DEF Forgotten
    <3>. QED BY <1>3, <3>1, <3>2 DEF Surrendered
  <2>. QED BY <2>1, <2>3, <2>4 DEF Surrendered
<1>. QED BY <1>5, <1>6, <1>7, <1>8, <1>9

(* A thread that works on a supervisor, and the supervisor.                *)
Quiet == UNCHANGED <<owner, pending, active, retrying, used>>
Onward == PCs \ {"idle", "check", "claim", "end"}

LEMMA WorkerIs ==
  ASSUME Rules, owner = "running", NEW c \in Caller, Works(c)
  PROVE  run[c] \in Thread /\ run[c].sup \in Sup /\ Sound(My(c))
<1>1. run \in [Caller -> Thread] /\ sup \in [Sup -> Supervisor]
  BY DEF Rules, TypeOK
<1>2. run[c].sup \in 1 .. used /\ used \in Nat
  BY DEF Rules, TypeOK, OneWorker
<1>3. run[c] \in Thread
  BY <1>1
<1>4. run[c].sup \in {NoSup} \cup Sup
  BY ONLY <1>3 DEF Thread
<1>5. run[c].sup \in Sup
  BY ONLY <1>2, <1>4 DEF NoSup
<1>. QED BY <1>1, <1>3, <1>5 DEF Rules, Accounted, Sound, My

Moves(c, pc) ==
  \/ Goto(c, pc)
  \/ \E mode \in {"abort", "abort_prepared", "pending", "final"} :
       run' = [run EXCEPT ![c].pc = pc, ![c].mode = mode]
  \/ \E result \in {"view", "error", "provider_error", "internal_error", "timeout"} :
       run' = [run EXCEPT ![c].pc = pc, ![c].result = result]
  \/ \E mode \in {"abort", "abort_prepared", "pending", "final"} :
       run' = [run EXCEPT ![c].pc = pc, ![c].mode = mode, ![c].result = "provider_error"]

(* It goes on, with what its step has made of the supervisor.              *)
LEMMA GoesOn ==
  ASSUME Rules, owner = "running", Quiet, faults' \in Nat,
         NEW c \in Caller, Works(c), run[c].pc # "end",
         NEW pc \in Onward, NEW s, Sound(s), Set(c, s),
         pc \in Acquiring => s.state = "open", pc = "attach" => s.job = "open",
         pc = "closed" => s.state = "closed",
         Moves(c, pc)
  PROVE  Rules'
<1>1. run[c] \in Thread /\ run \in [Caller -> Thread] /\ pc \in PCs
  BY WorkerIs DEF Rules, TypeOK, Onward
<1>2. PICK l \in Thread : run' = [run EXCEPT ![c] = l] /\ l.pc = pc /\ l.sup = run[c].sup
                                                      /\ l.retry = run[c].retry
  <2>1. CASE Goto(c, pc)
    <3> DEFINE l == [run[c] EXCEPT !.pc = pc]
    <3>1. run' = [run EXCEPT ![c] = l]
      BY <2>1 DEF Goto
    <3>2. l \in Thread /\ l.pc = pc /\ l.sup = run[c].sup /\ l.retry = run[c].retry
      BY <1>1 DEF Thread
    <3> HIDE DEF l
    <3>. QED BY <3>1, <3>2
  <2>2. ASSUME NEW mode \in {"abort", "abort_prepared", "pending", "final"},
               run' = [run EXCEPT ![c].pc = pc, ![c].mode = mode]
        PROVE  \E l \in Thread : run' = [run EXCEPT ![c] = l] /\ l.pc = pc /\ l.sup = run[c].sup
                                                              /\ l.retry = run[c].retry
    <3> DEFINE l == [run[c] EXCEPT !.pc = pc, !.mode = mode]
    <3>1. run' = [run EXCEPT ![c] = l]
      BY <1>1, <2>2
    <3>2. l \in Thread
      BY <1>1 DEF Thread
    <3>3. l.pc = pc /\ l.sup = run[c].sup /\ l.retry = run[c].retry
      BY <1>1 DEF Thread
    <3> HIDE DEF l
    <3>. QED BY <3>1, <3>2, <3>3
  <2>3. ASSUME NEW result \in {"view", "error", "provider_error", "internal_error", "timeout"},
               run' = [run EXCEPT ![c].pc = pc, ![c].result = result]
        PROVE  \E l \in Thread : run' = [run EXCEPT ![c] = l] /\ l.pc = pc /\ l.sup = run[c].sup
                                                              /\ l.retry = run[c].retry
    <3> DEFINE l == [run[c] EXCEPT !.pc = pc, !.result = result]
    <3>1. run' = [run EXCEPT ![c] = l]
      BY <1>1, <2>3
    <3>2. l \in Thread
      BY <1>1 DEF Thread
    <3>3. l.pc = pc /\ l.sup = run[c].sup /\ l.retry = run[c].retry
      BY <1>1 DEF Thread
    <3> HIDE DEF l
    <3>. QED BY <3>1, <3>2, <3>3
  <2>4. ASSUME NEW mode \in {"abort", "abort_prepared", "pending", "final"},
               run' = [run EXCEPT ![c].pc = pc, ![c].mode = mode, ![c].result = "provider_error"]
        PROVE  \E l \in Thread : run' = [run EXCEPT ![c] = l] /\ l.pc = pc /\ l.sup = run[c].sup
                                                              /\ l.retry = run[c].retry
    <3> DEFINE m == [run[c] EXCEPT !.pc = pc, !.mode = mode]
               l == [m EXCEPT !.result = "provider_error"]
    <3>1. m \in Thread
      BY <1>1 DEF Thread
    <3>2. m.pc = pc /\ m.sup = run[c].sup /\ m.retry = run[c].retry
      BY <1>1 DEF Thread
    <3>3. run' = [run EXCEPT ![c] = l]
      BY <1>1, <2>4
    <3> HIDE DEF m
    <3>4. l \in Thread /\ l.pc = pc /\ l.sup = run[c].sup /\ l.retry = run[c].retry
      BY <3>1, <3>2 DEF Thread
    <3> HIDE DEF l
    <3>. QED BY <3>3, <3>4
  <2>. QED BY <2>1, <2>2, <2>3, <2>4 DEF Moves
<1>3. UNCHANGED <<owner, pending, active, retrying, used>> /\ sup' = [sup EXCEPT ![run[c].sup] = s]
  BY DEF Quiet, Set
<1>4. l.pc \notin {"idle", "check", "claim", "end"}
  BY <1>2 DEF Onward
<1>. QED BY <1>2, <1>3, <1>4, WorkStep

(* A step that leaves the supervisors alone. *)
LEMMA Unset ==
  ASSUME Rules, owner = "running", NEW c \in Caller, Works(c), UNCHANGED sup
  PROVE  Set(c, My(c))
BY WorkerIs DEF Set, My, Rules, TypeOK

LEMMA FaultsCounted ==
  ASSUME Rules, Fine \/ Fault \/ faults' = faults + 2
  PROVE  faults' \in Nat
BY DEF Rules, TypeOK, Fine, Fault

(* Two pipes are entered, or closed again, or what is left of one is.      *)
LEMMA OpenedIs ==
  ASSUME NEW s \in Supervisor, NEW pair \in {"gate", "data"}
  PROVE  LET o == Opened(s, pair)
         IN  /\ o \in Supervisor /\ o.entries = s.entries /\ o.kept = s.kept
             /\ o.end = [e \in Ends |-> IF e \in EndsOf(pair) THEN "open" ELSE s.end[e]]
             /\ o.inheritable = s.inheritable /\ o.process = s.process
             /\ o.job = s.job /\ o.child = s.child /\ o.state = s.state
BY DEF Opened, Supervisor

LEMMA PipesSound ==
  ASSUME NEW s, Sound(s), s.state = "open"
  PROVE  LET gate == Opened(s, "gate")
             both == Own(Own(Opened(gate, "data"), "gate"), "data")
             closed == Close(gate, EndsOf("gate"))
         IN  /\ Sound(both) /\ both.state = "open"
             /\ Sound(closed)
             /\ \A lost \in SUBSET EndsOf("gate") : Sound(Own(Lose(closed, lost), "gate"))
<1> DEFINE gate == Opened(s, "gate")
           two == Opened(gate, "data")
           one == Own(two, "gate")
           both == Own(one, "data")
           closed == Close(gate, EndsOf("gate"))
<1>0. s \in Supervisor /\ Held(s)
  BY DEF Sound
<1>1. /\ gate \in Supervisor /\ gate.entries = s.entries /\ gate.kept = s.kept
      /\ gate.end = [e \in Ends |-> IF e \in EndsOf("gate") THEN "open" ELSE s.end[e]]
      /\ gate.inheritable = s.inheritable /\ gate.process = s.process
      /\ gate.job = s.job /\ gate.child = s.child /\ gate.state = s.state
  BY <1>0, OpenedIs
<1> HIDE DEF gate
<1>2. /\ two \in Supervisor /\ two.entries = s.entries /\ two.kept = s.kept
      /\ two.inheritable = s.inheritable /\ two.process = s.process
      /\ two.job = s.job /\ two.child = s.child /\ two.state = s.state
  BY <1>1, OpenedIs
<1>3. both \in Supervisor /\ both.entries = s.entries \cup {"gate", "data"}
  <2> HIDE DEF two
  <2>1. one \in Supervisor /\ one.entries = s.entries \cup {"gate"}
    BY <1>2 DEF Own, Supervisor, Entry
  <2> HIDE DEF one
  <2>. QED BY <2>1 DEF Own, Supervisor, Entry
<1>4. /\ both.kept = s.kept /\ both.inheritable = s.inheritable /\ both.process = s.process
      /\ both.job = s.job /\ both.child = s.child /\ both.state = s.state
  <2> HIDE DEF two
  <2>1. /\ one \in Supervisor /\ one.kept = s.kept /\ one.inheritable = s.inheritable
        /\ one.process = s.process /\ one.job = s.job /\ one.child = s.child /\ one.state = s.state
    <3>1. one \in Supervisor
      BY <1>2 DEF Own, Supervisor, Entry
    <3>. QED BY <1>2, <3>1 DEF Own, Supervisor
  <2> HIDE DEF one
  <2>. QED BY <2>1 DEF Own, Supervisor
<1>5. Sound(both) /\ both.state = "open"
  <2> HIDE DEF both
  <2>. QED BY <1>0, <1>3, <1>4 DEF Sound, Held, Owned, Alive, OpenEnds
<1>6. /\ closed \in Supervisor /\ closed.entries = s.entries /\ closed.kept = s.kept
      /\ closed.end = [e \in Ends |-> IF e \in EndsOf("gate") THEN "closed" ELSE s.end[e]]
      /\ closed.inheritable = s.inheritable /\ closed.process = s.process
      /\ closed.job = s.job /\ closed.child = s.child /\ closed.state = s.state
  BY <1>1 DEF Close, Supervisor
<1> HIDE DEF closed
<1>7. Sound(closed)
  BY <1>0, <1>6 DEF Sound, Held, Owned, Alive, OpenEnds, EndsOf, Ends
<1>8. ASSUME NEW lost \in SUBSET EndsOf("gate") PROVE Sound(Own(Lose(closed, lost), "gate"))
  <2>1. lost \in SUBSET Ends
    BY DEF EndsOf, Ends
  <2>2. Sound(Lose(closed, lost)) /\ Lose(closed, lost).state # "closed"
    BY <1>6, <1>7, <2>1, CloseSound
  <2>. QED BY <2>2, OwnSound DEF Entry
<1>. QED BY <1>5, <1>7, <1>8 DEF closed, gate

(* Handles are made inheritable only when that is entered, and the entry   *)
(* goes when they no longer are.                                           *)
LEMMA InheritSound ==
  ASSUME NEW s, Sound(s), s.state = "open", NEW some \in BOOLEAN
  PROVE  /\ Sound([Own(s, "inheritable") EXCEPT !.inheritable = some])
         /\ [Own(s, "inheritable") EXCEPT !.inheritable = some].state = "open"
         /\ Sound(Without([s EXCEPT !.inheritable = FALSE], "inheritable"))
         /\ Without([s EXCEPT !.inheritable = FALSE], "inheritable").state = "open"
<1> DEFINE o == Own(s, "inheritable")
           i == [o EXCEPT !.inheritable = some]
           n == [s EXCEPT !.inheritable = FALSE]
           w == Without(n, "inheritable")
<1>1. Sound(o) /\ o.state = "open" /\ "inheritable" \in o.entries
  BY OwnSound DEF Entry
<1> HIDE DEF o
<1>2. Sound(i) /\ i.state = "open"
  BY <1>1 DEF Sound, Supervisor, Held, Owned, Alive, OpenEnds
<1>3. /\ n \in Supervisor /\ n.entries = s.entries /\ n.kept = s.kept
      /\ n.end = s.end /\ n.inheritable = FALSE /\ n.process = s.process
      /\ n.job = s.job /\ n.child = s.child /\ n.state = s.state
  BY DEF Sound, Supervisor
<1> HIDE DEF n
<1>4. /\ w \in Supervisor /\ w.entries = n.entries \ {"inheritable"} /\ w.kept = n.kept
      /\ w.end = n.end /\ w.inheritable = n.inheritable /\ w.process = n.process
      /\ w.job = n.job /\ w.child = n.child /\ w.state = n.state
  BY <1>3, WithoutIs
<1> HIDE DEF w
<1>5. Sound(w) /\ w.state = "open"
  BY <1>3, <1>4 DEF Sound, Held, Owned, Alive, OpenEnds
<1>. QED BY <1>2, <1>5 DEF o, i, n, w

(* A process is entered as it is made, and so is a job.                    *)
Spawned(s) == Own([s EXCEPT !.process = "open", !.child = "gated"], "process")

LEMMA SpawnSound ==
  ASSUME NEW s, Sound(s), s.state = "open"
  PROVE  Sound(Spawned(s)) /\ Spawned(s).state = "open"
<1> DEFINE p == [s EXCEPT !.process = "open", !.child = "gated"]
           o == Own(p, "process")
<1>1. p \in Supervisor
  BY DEF Sound, Supervisor
<1>2. /\ p.entries = s.entries /\ p.kept = s.kept /\ p.end = s.end /\ p.inheritable = s.inheritable
      /\ p.process = "open" /\ p.job = s.job /\ p.state = s.state
  BY DEF Sound, Supervisor
<1> HIDE DEF p
<1>3. o \in Supervisor
  BY <1>1 DEF Own, Supervisor, Entry
<1>4. /\ o.entries = s.entries \cup {"process"} /\ o.kept = s.kept /\ o.end = s.end
      /\ o.inheritable = s.inheritable /\ o.process = "open" /\ o.job = s.job /\ o.state = s.state
  BY <1>1, <1>2 DEF Own, Supervisor
<1> HIDE DEF o
<1>5. Sound(o) /\ o.state = "open"
  BY <1>3, <1>4 DEF Sound, Held, Owned, Alive, OpenEnds
<1>. QED BY <1>5 DEF o, p, Spawned

LEMMA JobSound ==
  ASSUME NEW s, Sound(s), s.state = "open", NEW entry \in {"job", "handle"}
  PROVE  LET o == Own([s EXCEPT !.job = "open"], entry)
         IN  Sound(o) /\ o.state = "open" /\ o.job = "open"
<1> DEFINE p == [s EXCEPT !.job = "open"]
           o == Own(p, entry)
<1>1. p \in Supervisor
  BY DEF Sound, Supervisor
<1>2. /\ p.entries = s.entries /\ p.kept = s.kept /\ p.end = s.end /\ p.inheritable = s.inheritable
      /\ p.process = s.process /\ p.child = s.child /\ p.state = s.state /\ p.job = "open"
  BY DEF Sound, Supervisor
<1> HIDE DEF p
<1>3. o \in Supervisor
  BY <1>1 DEF Own, Supervisor, Entry
<1>4. /\ o.entries = s.entries \cup {entry} /\ o.kept = s.kept /\ o.end = s.end
      /\ o.inheritable = s.inheritable /\ o.process = s.process /\ o.child = s.child
      /\ o.state = s.state /\ o.job = "open"
  BY <1>1, <1>2 DEF Own, Supervisor
<1> HIDE DEF o
<1>5. Sound(o) /\ o.state = "open" /\ o.job = "open"
  BY <1>3, <1>4 DEF Sound, Held, Owned, Alive, OpenEnds
<1>. QED BY <1>5 DEF o, p

(* The helper's owner takes over the process and the job.                  *)
LEMMA AttachSound ==
  ASSUME NEW s, Sound(s), s.state = "open"
  PROVE  /\ Sound(Attached(s)) /\ Attached(s).state = "open"
         /\ s.job = "open" =>
              \A left \in {"open", "closed"} : Sound([s EXCEPT !.job = left])
<1> DEFINE j == [s EXCEPT !.job = "assigned"]
           p == Without(j, "process")
           q == Without(p, "job")
           a == Own(q, "helper")
<1>1. /\ j \in Supervisor /\ j.entries = s.entries /\ j.kept = s.kept
      /\ j.end = s.end /\ j.inheritable = s.inheritable /\ j.process = s.process
      /\ j.job = "assigned" /\ j.child = s.child /\ j.state = s.state
  BY DEF Sound, Supervisor
<1> HIDE DEF j
<1>2. /\ p \in Supervisor /\ p.entries = s.entries \ {"process"} /\ p.kept = s.kept
      /\ p.end = s.end /\ p.inheritable = s.inheritable /\ p.process = s.process
      /\ p.job = "assigned" /\ p.child = s.child /\ p.state = s.state
  BY <1>1, WithoutIs
<1> HIDE DEF p
<1>3. /\ q \in Supervisor /\ q.entries = s.entries \ {"process", "job"} /\ q.kept = s.kept
      /\ q.end = s.end /\ q.inheritable = s.inheritable /\ q.process = s.process
      /\ q.job = "assigned" /\ q.child = s.child /\ q.state = s.state
  BY <1>2, WithoutIs
<1> HIDE DEF q
<1>4. a \in Supervisor
  BY <1>3 DEF Own, Supervisor, Entry
<1>5. /\ a.entries = (s.entries \ {"process", "job"}) \cup {"helper"} /\ a.kept = s.kept
      /\ a.end = s.end /\ a.inheritable = s.inheritable /\ a.process = s.process
      /\ a.child = s.child /\ a.state = s.state
  BY <1>3 DEF Own, Supervisor
<1> HIDE DEF a
<1>6. Sound(a) /\ a.state = "open"
  BY <1>4, <1>5 DEF Sound, Held, Owned, Alive, OpenEnds
<1>7. ASSUME NEW left \in {"open", "closed"}, s.job = "open"
      PROVE  Sound([s EXCEPT !.job = left])
  BY <1>7 DEF Sound, Supervisor, Held, Owned, Alive, OpenEnds
<1>. QED BY <1>6, <1>7 DEF a, q, p, j, Attached

(***************************************************************************)
(* The acquisition of a supervisor's resources.                            *)
(***************************************************************************)
LEMMA AtWork ==
  ASSUME Rules, NEW c \in Caller, NEW pc \in Onward, At(c, pc)
  PROVE  /\ owner = "running" /\ Works(c) /\ run[c].pc = pc /\ run[c].pc # "end"
         /\ Sound(My(c)) /\ run[c] \in Thread /\ run[c].sup \in Sup
         /\ pc \in Acquiring => My(c).state = "open"
         /\ pc = "attach" => My(c).job = "open"
         /\ pc = "closed" => My(c).state = "closed"
<1>1. owner = "running" /\ run[c].pc = pc
  BY DEF At
<1>2. Works(c) /\ pc # "end"
  BY <1>1 DEF Works, Onward
<1>. QED BY <1>1, <1>2, WorkerIs DEF Rules, Surrendered, My

LEMMA Proceeds ==
  ASSUME Rules, Quiet, NEW c \in Caller, NEW from \in Onward, At(c, from),
         NEW pc \in Onward, NEW s, Sound(s), Proceed(c, pc, s),
         pc \in Acquiring => s.state = "open", pc = "attach" => s.job = "open",
         pc = "closed" => s.state = "closed"
  PROVE  Rules'
<1>1. Moves(c, pc) /\ Set(c, s) /\ faults' \in Nat
  BY FaultsCounted DEF Proceed, Moves
<1>. QED BY <1>1, AtWork, GoesOn

LEMMA Aborts ==
  ASSUME Rules, Quiet, faults' \in Nat, NEW c \in Caller, NEW from \in Onward, At(c, from),
         NEW s, Sound(s), Abort(c, s)
  PROVE  Rules'
<1>1. "rollback" \in Onward /\ "rollback" \notin Acquiring
  BY DEF Onward, PCs, Acquiring
<1>2. Moves(c, "rollback") /\ Set(c, s)
  BY DEF Abort, Moves
<1>3. "rollback" # "attach" /\ "rollback" # "closed"
  OBVIOUS
<1>. QED BY <1>1, <1>2, <1>3, AtWork, GoesOn

LEMMA Fails ==
  ASSUME Rules, Quiet, faults' \in Nat, NEW c \in Caller, NEW from \in Onward, At(c, from),
         \/ AbortPrepared(c)
         \/ \E result \in {"view", "error", "provider_error", "internal_error", "timeout"} :
              Fail(c, result)
  PROVE  Rules'
<1>1. {"rollback", "close"} \subseteq Onward /\ {"rollback", "close"} \cap Acquiring = {}
  BY DEF Onward, PCs, Acquiring
<1>2. Set(c, My(c)) /\ Sound(My(c)) /\ owner = "running" /\ Works(c) /\ run[c].pc # "end"
  BY AtWork, Unset DEF AbortPrepared, Fail
<1>3. CASE AbortPrepared(c)
  <2>1. Moves(c, "rollback")
    BY <1>3 DEF AbortPrepared, Moves
  <2>. QED BY <1>1, <1>2, <2>1, GoesOn
<1>4. CASE \E result \in {"view", "error", "provider_error", "internal_error", "timeout"} : Fail(c, result)
  <2>1. Moves(c, "close")
    BY <1>4 DEF Fail, Moves
  <2>. QED BY <1>1, <1>2, <2>1, GoesOn
<1>. QED BY <1>3, <1>4

LEMMA AcquisitionStep ==
  ASSUME Rules, NEW c \in Caller,
         \/ Acquire(c) \/ Pipes(c) \/ Inherit(c) \/ Spawn(c) \/ Reset(c) \/ ChildEnds(c)
         \/ CreateJob(c) \/ Attach(c)
  PROVE  Rules'
<1> DEFINE s == My(c)
<1>a. Acquiring \cup {"gate", "ready", "request", "response", "close"} \subseteq Onward
  BY DEF Onward, PCs, Acquiring
<1>b. {"gate", "close"} \cap Acquiring = {}
  BY DEF Acquiring
<1>1. CASE Acquire(c)
  <2>1. At(c, "acquire") /\ UNCHANGED <<sup, faults>> /\ Quiet
    BY <1>1 DEF Acquire, Quiet, executor
  <2>2. /\ owner = "running" /\ Works(c) /\ run[c].pc # "end" /\ Sound(s) /\ s.state = "open"
        /\ Set(c, s) /\ faults' \in Nat
    BY <1>a, <2>1, AtWork, Unset DEF Acquiring, Rules, TypeOK
  <2>3. CASE Goto(c, "pipes")
    <3>1. Moves(c, "pipes")
      BY <2>3 DEF Moves
    <3>. QED BY <1>a, <2>1, <2>2, <3>1, GoesOn DEF Acquiring
  <2>4. CASE run' = [run EXCEPT ![c].pc = "close", ![c].result = "timeout"]
    <3>1. Moves(c, "close")
      BY <2>4 DEF Moves
    <3>. QED BY <1>a, <1>b, <2>1, <2>2, <3>1, GoesOn
  <2>. QED BY <1>1, <2>3, <2>4 DEF Acquire
<1>2. CASE Pipes(c)
  <2> DEFINE gate == Opened(s, "gate")
             both == Own(Own(Opened(gate, "data"), "gate"), "data")
             closed == Close(gate, EndsOf("gate"))
  <2>1. At(c, "pipes") /\ Quiet
    BY <1>2 DEF Pipes, Quiet, executor
  <2>2. Sound(s) /\ s.state = "open"
    BY <1>a, <2>1, AtWork DEF Acquiring
  <2>3. /\ Sound(both) /\ both.state = "open" /\ Sound(closed)
        /\ \A lost \in SUBSET EndsOf("gate") : Sound(Own(Lose(closed, lost), "gate"))
    BY <2>2, PipesSound
  <2> HIDE DEF both, closed
  <2>4. CASE Proceed(c, "inherit", both)
    BY <1>a, <2>1, <2>3, <2>4, Proceeds DEF Acquiring
  <2>5. CASE Fault /\ Abort(c, s)
    BY <1>a, <2>1, <2>2, <2>5, Aborts, FaultsCounted DEF Acquiring
  <2>6. CASE Fault /\ Abort(c, closed)
    BY <1>a, <2>1, <2>3, <2>6, Aborts, FaultsCounted DEF Acquiring
  <2>7. CASE /\ faults' = faults + 2
             /\ \E lost \in SUBSET EndsOf("gate") : Abort(c, Own(Lose(closed, lost), "gate"))
    BY <1>a, <2>1, <2>3, <2>7, Aborts, FaultsCounted DEF Acquiring
  <2>. QED BY <1>2, <2>4, <2>5, <2>6, <2>7 DEF Pipes, both, closed
<1>3. CASE Inherit(c)
  <2>1. At(c, "inherit") /\ Quiet
    BY <1>3 DEF Inherit, Quiet, executor
  <2>2. Sound(s) /\ s.state = "open"
    BY <1>a, <2>1, AtWork DEF Acquiring
  <2>3. CASE Proceed(c, "spawn", [Own(s, "inheritable") EXCEPT !.inheritable = TRUE])
    BY <1>a, <2>1, <2>2, <2>3, InheritSound, Proceeds DEF Acquiring
  <2>4. CASE Fault /\ Abort(c, s)
    BY <1>a, <2>1, <2>2, <2>4, Aborts, FaultsCounted DEF Acquiring
  <2>5. CASE Fault /\ \E some \in BOOLEAN : Abort(c, [Own(s, "inheritable") EXCEPT !.inheritable = some])
    BY <1>a, <2>1, <2>2, <2>5, InheritSound, Aborts, FaultsCounted DEF Acquiring
  <2>. QED BY <1>3, <2>3, <2>4, <2>5 DEF Inherit
<1>4. CASE Spawn(c)
  <2>1. At(c, "spawn") /\ Quiet
    BY <1>4 DEF Spawn, Quiet, executor
  <2>2. Sound(s) /\ s.state = "open"
    BY <1>a, <2>1, AtWork DEF Acquiring
  <2>3. CASE Proceed(c, "reset", Spawned(s))
    BY <1>a, <2>1, <2>2, <2>3, SpawnSound, Proceeds DEF Acquiring
  <2>4. CASE Fault /\ Abort(c, s)
    BY <1>a, <2>1, <2>2, <2>4, Aborts, FaultsCounted DEF Acquiring
  <2>. QED BY <1>4, <2>3, <2>4 DEF Spawn, Spawned
<1>5. CASE Reset(c)
  <2>1. At(c, "reset") /\ Quiet
    BY <1>5 DEF Reset, Quiet, executor
  <2>2. Sound(s) /\ s.state = "open"
    BY <1>a, <2>1, AtWork DEF Acquiring
  <2>3. CASE Proceed(c, "child_ends", Without([s EXCEPT !.inheritable = FALSE], "inheritable"))
    BY <1>a, <2>1, <2>2, <2>3, InheritSound, Proceeds DEF Acquiring
  <2>4. CASE Fault /\ Abort(c, s)
    BY <1>a, <2>1, <2>2, <2>4, Aborts, FaultsCounted DEF Acquiring
  <2>. QED BY <1>5, <2>3, <2>4 DEF Reset
<1>6. CASE ChildEnds(c)
  <2>1. At(c, "child_ends") /\ Quiet
    BY <1>6 DEF ChildEnds, Quiet, executor
  <2>2. Sound(s) /\ s.state = "open"
    BY <1>a, <2>1, AtWork DEF Acquiring
  <2>3. {"gate.read"} \in SUBSET Ends /\ {"data.write"} \in SUBSET Ends /\ {"gate.read", "data.write"} \in SUBSET Ends
    BY DEF Ends
  <2>4. CASE Proceed(c, "job", Close(s, {"gate.read", "data.write"}))
    BY <1>a, <2>1, <2>2, <2>3, <2>4, CloseSound, Proceeds DEF Acquiring
  <2>5. CASE Fault /\ Abort(c, Lose(s, {"gate.read"}))
    BY <1>a, <2>1, <2>2, <2>3, <2>5, CloseSound, Aborts, FaultsCounted DEF Acquiring
  <2>6. CASE Fault /\ Abort(c, Lose(Close(s, {"gate.read"}), {"data.write"}))
    BY <1>a, <2>1, <2>2, <2>3, <2>6, CloseSound, Aborts, FaultsCounted DEF Acquiring
  <2>7. CASE Fault /\ Abort(c, Close(s, {"gate.read", "data.write"}))
    BY <1>a, <2>1, <2>2, <2>3, <2>7, CloseSound, Aborts, FaultsCounted DEF Acquiring
  <2>. QED BY <1>6, <2>4, <2>5, <2>6, <2>7 DEF ChildEnds
<1>7. CASE CreateJob(c)
  <2>1. At(c, "job") /\ Quiet
    BY <1>7 DEF CreateJob, Quiet, executor
  <2>2. Sound(s) /\ s.state = "open"
    BY <1>a, <2>1, AtWork DEF Acquiring
  <2>3. CASE Proceed(c, "attach", Own([s EXCEPT !.job = "open"], "job"))
    BY <1>a, <2>1, <2>2, <2>3, JobSound, Proceeds DEF Acquiring
  <2>4. CASE Fault /\ Abort(c, s)
    BY <1>a, <2>1, <2>2, <2>4, Aborts, FaultsCounted DEF Acquiring
  <2>5. CASE faults' = faults + 2 /\ Abort(c, Own([s EXCEPT !.job = "open"], "handle"))
    BY <1>a, <2>1, <2>2, <2>5, JobSound, Aborts, FaultsCounted DEF Acquiring
  <2>. QED BY <1>7, <2>3, <2>4, <2>5 DEF CreateJob
<1>8. CASE Attach(c)
  <2>1. At(c, "attach") /\ Quiet
    BY <1>8 DEF Attach, Quiet, executor
  <2>2. Sound(s) /\ s.state = "open" /\ s.job = "open"
    BY <1>a, <2>1, AtWork DEF Acquiring
  <2>3. CASE Proceed(c, "gate", Attached(s))
    BY <1>a, <1>b, <2>1, <2>2, <2>3, AttachSound, Proceeds DEF Acquiring
  <2>4. CASE Fault /\ \E left \in {"open", "closed"} : Abort(c, [s EXCEPT !.job = left])
    BY <1>a, <2>1, <2>2, <2>4, AttachSound, Aborts, FaultsCounted DEF Acquiring
  <2>. QED BY <1>8, <2>3, <2>4 DEF Attach
<1>. QED BY <1>1, <1>2, <1>3, <1>4, <1>5, <1>6, <1>7, <1>8

(***************************************************************************)
(* The conversation with the helper, and the closing.                      *)
(***************************************************************************)
LEMMA ConversationStep ==
  ASSUME Rules, NEW c \in Caller,
         OpenGate(c) \/ AwaitReady(c) \/ SendRequest(c) \/ AwaitResponse(c)
  PROVE  Rules'
<1> DEFINE s == My(c)
<1>a. {"gate", "ready", "request", "response", "close"} \subseteq Onward
  BY DEF Onward, PCs
<1>b. {"gate", "ready", "request", "response", "close"} \cap Acquiring = {}
  BY DEF Acquiring
<1>c. ASSUME NEW from \in Onward, At(c, from), Quiet, NEW frame \in {"go", "request"},
             NEW pc \in {"ready", "response"}, Write(c, frame, pc)
      PROVE  Rules'
  <2>1. Sound([s EXCEPT !.told = frame])
    BY <1>c, AtWork, MarkedSound
  <2>2. Proceed(c, pc, [s EXCEPT !.told = frame])
    BY <1>c DEF Write
  <2> HIDE DEF s
  <2>. QED BY <1>a, <1>b, <1>c, <2>1, <2>2, Proceeds
<1>1. CASE OpenGate(c)
  <2>1. At(c, "gate") /\ Quiet
    BY <1>1 DEF OpenGate, Quiet, executor
  <2>2. CASE Write(c, "go", "ready")
    BY <1>a, <1>c, <2>1, <2>2
  <2>3. CASE (Fine \/ Fault) /\ AbortPrepared(c)
    BY <1>a, <2>1, <2>3, Fails, FaultsCounted
  <2>. QED BY <1>1, <2>2, <2>3 DEF OpenGate
<1>2. CASE AwaitReady(c)
  <2>1. At(c, "ready") /\ Quiet
    BY <1>2 DEF AwaitReady, Quiet, executor
  <2>2. CASE Proceed(c, "request", [s EXCEPT !.state = "acquired", !.said = "nothing"])
    <3> DEFINE a == [s EXCEPT !.state = "acquired", !.said = "nothing"]
    <3>0. Sound(s)
      BY <1>a, <2>1, AtWork
    <3>1. a \in Supervisor
      BY <3>0 DEF Sound, Supervisor
    <3>2. /\ a.entries = s.entries /\ a.kept = s.kept /\ a.end = s.end /\ a.job = s.job
          /\ a.inheritable = s.inheritable /\ a.process = s.process /\ a.child = s.child
          /\ a.state = "acquired"
      BY <3>0 DEF Sound, Supervisor
    <3>3. Proceed(c, "request", a)
      BY <2>2
    <3> HIDE DEF a
    <3>4. Sound(a)
      BY <3>0, <3>1, <3>2 DEF Sound, Held, Owned, Alive, OpenEnds
    <3>. QED BY <1>a, <1>b, <2>1, <3>3, <3>4, Proceeds
  <2>3. CASE (Fine \/ Fault) /\ AbortPrepared(c)
    BY <1>a, <2>1, <2>3, Fails, FaultsCounted
  <2>. QED BY <1>2, <2>2, <2>3 DEF AwaitReady
<1>3. CASE SendRequest(c)
  <2>1. At(c, "request") /\ Quiet
    BY <1>3 DEF SendRequest, Quiet, executor
  <2>2. CASE Write(c, "request", "response")
    BY <1>a, <1>c, <2>1, <2>2
  <2>3. CASE (Fine \/ Fault) /\ Fail(c, "provider_error")
    BY <1>a, <2>1, <2>3, Fails, FaultsCounted
  <2>. QED BY <1>3, <2>2, <2>3 DEF SendRequest
<1>4. CASE AwaitResponse(c)
  <2>1. At(c, "response") /\ Quiet
    BY <1>4 DEF AwaitResponse, Quiet, executor
  <2>2. (Fine \/ Fault) /\ \E result \in {"view", "error", "provider_error", "internal_error", "timeout"} : Fail(c, result)
    BY <1>4 DEF AwaitResponse
  <2>. QED BY <1>a, <2>1, <2>2, Fails, FaultsCounted
<1>. QED BY <1>1, <1>2, <1>3, <1>4

LEMMA CloseEntryStep ==
  ASSUME Rules, NEW c \in Caller, CloseEntry(c)
  PROVE  Rules'
<1> DEFINE s == My(c)
<1>1. At(c, "rollback") /\ Quiet /\ UNCHANGED run
  BY DEF CloseEntry, Quiet, executor
<1>2. "rollback" \in Onward /\ "rollback" \notin Acquiring
  BY DEF Onward, PCs, Acquiring
<1>3. /\ owner = "running" /\ Works(c) /\ run[c].pc = "rollback" /\ Sound(s)
      /\ run[c] \in Thread
  BY <1>1, <1>2, AtWork
<1>4. PICK entry \in Latest(s.entries) :
        \/ Fine /\ Set(c, Released(Without(s, entry), entry))
        \/ (Fine \/ Fault) /\ \E left \in Stuck(Kept(s, entry), entry) : Set(c, left)
  BY DEF CloseEntry
<1>5. entry \in s.entries /\ entry \in Entry
  BY <1>3 DEF Latest, Sound, Supervisor
<1>6. faults' \in Nat
  BY <1>4, FaultsCounted
<1>7. \E t : Sound(t) /\ Set(c, t)
  <2> HIDE DEF s
  <2>1. Sound(Released(Without(s, entry), entry)) /\ Sound(Kept(s, entry))
    BY <1>3, <1>5, ReleasedSound, KeptSound
  <2>2. \A left \in Stuck(Kept(s, entry), entry) : Sound(left)
    BY <1>5, <2>1, StuckSound
  <2>. QED BY <1>4, <2>1, <2>2
<1>8. Goto(c, "rollback")
  <2>1. run[c] = [run[c] EXCEPT !.pc = "rollback"]
    BY <1>3 DEF Thread
  <2>2. run = [run EXCEPT ![c] = run[c]]
    BY DEF Rules, TypeOK
  <2>. QED BY <1>1, <2>1, <2>2 DEF Goto
<1>9. Moves(c, "rollback")
  BY <1>8 DEF Moves
<1>. QED BY <1>1, <1>2, <1>3, <1>6, <1>7, <1>9, GoesOn

(* A supervisor that remembers a rollback that is to be tried again.       *)
Remembered(s, terminal) == [Broken(s) EXCEPT !.pending = TRUE, !.terminal = terminal]

LEMMA ClosingStep ==
  ASSUME Rules, NEW c \in Caller,
         Aborted(c) \/ CloseSupervisor(c) \/ PendingRolledBack(c) \/ Closed(c)
  PROVE  Rules'
<1> DEFINE s == My(c)
<1>a. {"rollback", "close", "closed", "not_closed"} \subseteq Onward
  BY DEF Onward, PCs
<1>b. {"rollback", "close", "closed", "not_closed"} \cap Acquiring = {}
  BY DEF Acquiring
<1>c. Quiet /\ faults' \in Nat
  BY DEF Aborted, CloseSupervisor, PendingRolledBack, Closed, Quiet, executor, Rules, TypeOK
<1>d. ASSUME NEW from \in {"rollback", "close"}, At(c, from), NEW t, Sound(t), Set(c, t),
             NEW pc \in {"rollback", "close", "closed", "not_closed"}, Moves(c, pc),
             pc = "closed" => t.state = "closed"
      PROVE  Rules'
  BY <1>a, <1>b, <1>c, <1>d, AtWork, GoesOn
<1>e. ASSUME NEW from \in {"rollback", "close"}, At(c, from)
      PROVE  Sound(s) /\ (UNCHANGED sup => Set(c, s))
  BY <1>a, <1>e, AtWork, Unset
<1>1. CASE Aborted(c)
  <2>1. At(c, "rollback") /\ s.entries = {} /\ Moves(c, "close")
    BY <1>1 DEF Aborted, Moves
  <2>2. CASE UNCHANGED sup
    BY <1>d, <1>e, <2>1, <2>2
  <2>3. ASSUME NEW terminal \in BOOLEAN,
               Set(c, Remembered(s, terminal))
        PROVE  Rules'
    <3> DEFINE b == Broken(s)
               p == [b EXCEPT !.pending = TRUE]
               t == [p EXCEPT !.terminal = terminal]
    <3>1. Sound(b)
      BY <1>e, <2>1, RetainedSound
    <3> HIDE DEF b
    <3>2. t = Remembered(s, terminal)
      BY <3>1 DEF Sound, Supervisor, Remembered, b
    <3>3. Sound(p)
      BY <3>1, MarkedSound
    <3> HIDE DEF p
    <3>4. Sound(t)
      BY <3>3, MarkedSound DEF Sound
    <3>5. Set(c, t)
      BY <2>3, <3>2
    <3> HIDE DEF t
    <3>. QED BY <1>d, <2>1, <3>4, <3>5
  <2>4. CASE s.kept # {}
    <3> DEFINE terminal == run[c].mode = "abort_prepared" /\ Terminal(s)
    <3>1. terminal \in BOOLEAN
      OBVIOUS
    <3>2. Set(c, Remembered(s, terminal))
      BY <1>1, <2>4 DEF Aborted, Remembered
    <3> HIDE DEF terminal, s
    <3>. QED BY <2>3, <3>1, <3>2
  <2>5. CASE s.kept = {}
    BY <1>1, <2>2, <2>5 DEF Aborted
  <2>. QED BY <2>4, <2>5
<1>2. CASE CloseSupervisor(c)
  <2>1. At(c, "close") /\ UNCHANGED sup
    BY <1>2 DEF CloseSupervisor
  <2>2. \/ Moves(c, "not_closed") \/ Moves(c, "rollback")
        \/ Moves(c, "closed") /\ s.state = "closed"
    BY <1>2 DEF CloseSupervisor, Moves
  <2> HIDE DEF s
  <2>. QED BY <1>d, <1>e, <2>1, <2>2
<1>3. CASE PendingRolledBack(c)
  <2>1. At(c, "rollback") /\ s.entries = {} /\ Sound(s)
    BY <1>3, <1>e DEF PendingRolledBack
  <2>2. CASE Set(c, [s EXCEPT !.pending = FALSE]) /\ run' = [run EXCEPT ![c].mode = "final"]
    <3>1. Sound([s EXCEPT !.pending = FALSE])
      BY <2>1, MarkedSound
    <3>2. run[c].pc = "rollback" /\ run \in [Caller -> Thread] /\ run[c] \in Thread
      BY <2>1 DEF At, Rules, TypeOK
    <3>3. run' = [run EXCEPT ![c].pc = "rollback", ![c].mode = "final"]
      BY <2>2, <3>2 DEF Thread
    <3>4. Moves(c, "rollback")
      BY <3>3 DEF Moves
    <3>. QED BY <1>d, <2>1, <2>2, <3>1, <3>4
  <2>3. CASE Set(c, Retained(s)) /\ Goto(c, "not_closed")
    <3>1. Sound(Retained(s))
      BY <2>1, RetainedSound
    <3>2. Moves(c, "not_closed")
      BY <2>3 DEF Moves
    <3>. QED BY <1>d, <2>1, <2>3, <3>1, <3>2
  <2>. QED BY <1>3, <2>2, <2>3 DEF PendingRolledBack
<1>4. CASE Closed(c)
  <2>1. At(c, "rollback") /\ s.entries = {} /\ Sound(s)
    BY <1>4, <1>e DEF Closed
  <2>2. CASE s.kept = {} /\ Set(c, [s EXCEPT !.state = "closed"]) /\ Goto(c, "closed")
    <3> DEFINE t == [s EXCEPT !.state = "closed"]
    <3>1. /\ t \in Supervisor /\ t.entries = {} /\ t.kept = {} /\ t.end = s.end /\ t.job = s.job
          /\ t.inheritable = s.inheritable /\ t.process = s.process /\ t.child = s.child
          /\ t.state = "closed"
      BY <2>1, <2>2 DEF Sound, Supervisor
    <3>2. Set(c, t) /\ Moves(c, "closed")
      BY <2>2 DEF Moves
    <3> HIDE DEF t
    <3>3. Sound(t)
      BY <2>1, <2>2, <3>1 DEF Sound, Held, Owned, Alive, OpenEnds
    <3>. QED BY <1>d, <2>1, <3>1, <3>2, <3>3
  <2>3. ASSUME NEW terminal \in BOOLEAN, Set(c, [Broken(s) EXCEPT !.terminal = terminal]),
               Goto(c, "not_closed")
        PROVE  Rules'
    <3> DEFINE t == [Broken(s) EXCEPT !.terminal = terminal]
    <3>1. Sound(t)
      BY <2>1, RetainedSound, MarkedSound
    <3>2. Set(c, t) /\ Moves(c, "not_closed")
      BY <2>3 DEF Moves
    <3> HIDE DEF t
    <3>. QED BY <1>d, <2>1, <3>1, <3>2
  <2>4. (s.terminal \/ s.kept \cap {"gate", "data"} # {}) \in BOOLEAN
    BY <2>1 DEF Sound, Supervisor
  <2>. QED BY <1>4, <2>2, <2>3, <2>4 DEF Closed
<1>. QED BY <1>1, <1>2, <1>3, <1>4

(***************************************************************************)
(* The executor, before and after the work.                                *)
(***************************************************************************)
LEMMA ComersFinite == IsFiniteSet(Comers) /\ Cardinality(Comers) \in Nat
BY HelperAssumption, FS_Subset, FS_CardinalityType DEF Comers

LEMMA FewerComers ==
  ASSUME Rules, used' = used, Comers' \subseteq Comers
  PROVE  Bounded'
<1>1. Cardinality(Comers') \in Nat /\ Cardinality(Comers') <= Cardinality(Comers)
  BY ComersFinite, FS_Subset, FS_CardinalityType
<1>. QED BY <1>1, ComersFinite, HelperAssumption DEF Rules, Bounded, TypeOK

(* The other threads, when one of them has moved and no supervisor has.    *)
LEMMA OthersStay ==
  ASSUME Rules, NEW c \in Caller, NEW l \in Thread, run' = [run EXCEPT ![c] = l]
  PROVE  /\ run' \in [Caller -> Thread] /\ run'[c] = l
         /\ \A d \in Caller : d # c => run'[d] = run[d]
BY DEF Rules, TypeOK

(* A thread that works on nothing still works on nothing.                  *)
LEMMA IdleStep ==
  ASSUME Rules, owner = "running", NEW c \in Caller, ~Works(c), UNCHANGED <<sup, used>>,
         UNCHANGED <<owner, pending, active, retrying, faults>>,
         NEW l \in Thread, run' = [run EXCEPT ![c] = l],
         l.pc \in {"idle", "check", "claim"}, ~l.retry, l.sup = NoSup,
         Bounded'
  PROVE  Rules'
<1> USE DEF Rules
<1>1. /\ run' \in [Caller -> Thread] /\ run'[c] = l
      /\ \A d \in Caller : d # c => run'[d] = run[d]
  BY OthersStay
<1>2. ~Works(c)' /\ \A d \in Caller : Works(d)' = Works(d)
  BY <1>1 DEF Works
<1>3. TypeOK' /\ Accounted'
  BY <1>1 DEF TypeOK, Accounted
<1>4. OneWorker'
  BY <1>1, <1>2 DEF OneWorker
<1>5. Surrendered'
  <2>1. NoSup \notin Sup
    BY HelperAssumption DEF NoSup, Sup
  <2>2. run[c].sup = NoSup
    BY DEF OneWorker
  <2>3. \A s \in Sup : Forgotten(s)' => Forgotten(s)
    BY <1>1, <2>1, <2>2 DEF Forgotten
  <2>4. l.pc \notin Acquiring /\ l.pc # "attach" /\ l.pc # "closed"
    BY DEF Acquiring
  <2>5. ASSUME NEW d \in Caller
        PROVE  /\ run'[d].pc \in Acquiring => sup'[run'[d].sup].state = "open"
               /\ run'[d].pc = "attach" => sup'[run'[d].sup].job = "open"
               /\ run'[d].pc = "closed" => sup'[run'[d].sup].state = "closed"
    <3>1. CASE d = c
      BY <1>1, <2>4, <3>1
    <3>2. CASE d # c
      BY <1>1, <3>2 DEF Surrendered
    <3>. QED BY <3>1, <3>2
  <2>. QED BY <2>3, <2>5 DEF Surrendered
<1>. QED BY <1>3, <1>4, <1>5

LEMMA RestIs == Rest \in Thread /\ Rest.pc = "idle" /\ Rest.sup = NoSup /\ Rest.retry = FALSE
BY DEF Rest, Thread, PCs

LEMMA CheckStep ==
  ASSUME Rules, NEW c \in Caller, Check(c)
  PROVE  Rules'
<1>1. /\ owner = "running" /\ run[c].pc = "check" /\ ~Works(c)
      /\ UNCHANGED <<owner, pending, active, retrying, sup, used, faults>>
  BY DEF Check, At, Works, executor
<1>2. run[c] \in Thread /\ ~run[c].retry /\ run[c].sup = NoSup /\ c \in Comers
  BY <1>1 DEF Rules, TypeOK, OneWorker, Comers
<1>3. PICK l \in Thread : /\ run' = [run EXCEPT ![c] = l] /\ l.pc \in {"idle", "claim"}
                          /\ ~l.retry /\ l.sup = NoSup
  <2>1. CASE Goto(c, "claim")
    <3> DEFINE l == [run[c] EXCEPT !.pc = "claim"]
    <3>1. run' = [run EXCEPT ![c] = l]
      BY <2>1 DEF Goto
    <3>2. l \in Thread /\ l.pc = "claim" /\ l.sup = run[c].sup /\ l.retry = run[c].retry
      BY <1>2 DEF Thread, PCs
    <3> HIDE DEF l
    <3>. QED BY <1>2, <3>1, <3>2
  <2>2. CASE Return(c)
    BY <2>2, RestIs DEF Return
  <2>. QED BY <2>1, <2>2 DEF Check
<1>4. Comers' \subseteq Comers
  BY <1>2, <1>3, OthersStay DEF Comers
<1>. QED BY <1>1, <1>3, <1>4, FewerComers, IdleStep

LEMMA RequestStep ==
  ASSUME Rules, NEW c \in Caller, Request(c)
  PROVE  Rules'
<1>1. /\ owner = "running" /\ run[c].pc = "idle" /\ ~Works(c)
      /\ UNCHANGED <<owner, pending, active, sup, used, faults>>
      /\ used + Cardinality(Comers) < MaxRequests
  BY DEF Request, At, Works, Coming, Comers
<1>2. ASSUME NEW l \in Thread, run' = [run EXCEPT ![c] = l] PROVE Bounded'
  <2>1. Comers' \subseteq Comers \cup {c}
    BY <1>2, OthersStay DEF Comers
  <2>2. /\ IsFiniteSet(Comers \cup {c})
        /\ Cardinality(Comers \cup {c}) <= Cardinality(Comers) + 1
        /\ Cardinality(Comers \cup {c}) \in Nat
    <3>1. /\ IsFiniteSet(Comers \cup {c})
          /\ Cardinality(Comers \cup {c}) = IF c \in Comers THEN Cardinality(Comers) ELSE Cardinality(Comers) + 1
      BY ComersFinite, FS_AddElement, Zenon
    <3>2. Cardinality(Comers \cup {c}) \in Nat /\ Cardinality(Comers) \in Nat
      BY <3>1, ComersFinite, FS_CardinalityType
    <3>. QED BY <3>1, <3>2
  <2>3. Cardinality(Comers') \in Nat /\ Cardinality(Comers') <= Cardinality(Comers \cup {c})
    BY <2>1, <2>2, FS_Subset, FS_CardinalityType
  <2>. QED BY <1>1, <2>2, <2>3, ComersFinite, HelperAssumption DEF Rules, TypeOK, Bounded
<1>3. CASE run' = [run EXCEPT ![c] = [Rest EXCEPT !.pc = "check"]] /\ UNCHANGED retrying
  <2> DEFINE l == [Rest EXCEPT !.pc = "check"]
  <2>1. l \in Thread /\ l.pc = "check" /\ l.sup = NoSup /\ l.retry = FALSE
    BY RestIs DEF Thread, PCs
  <2> HIDE DEF l
  <2>2. run' = [run EXCEPT ![c] = l]
    BY <1>3 DEF l
  <2>. QED BY <1>1, <1>2, <1>3, <2>1, <2>2, IdleStep
<1>4. CASE Return(c) /\ UNCHANGED retrying
  BY <1>1, <1>2, <1>4, RestIs, IdleStep DEF Return
<1>5. CASE /\ pending # NoSup /\ ~active /\ ~retrying /\ retrying' = TRUE
           /\ run' = [run EXCEPT ![c] = [Rest EXCEPT !.pc = "close", !.sup = pending, !.retry = TRUE]]
  <2> DEFINE m == [Rest EXCEPT !.pc = "close", !.sup = pending]
             l == [m EXCEPT !.retry = TRUE]
  <2>a. run' = [run EXCEPT ![c] = l]
    BY <1>5 DEF Rest
  <2>b. m \in Thread
    BY RestIs DEF Rules, TypeOK, Thread, PCs
  <2>c. m.pc = "close" /\ m.sup = pending
    BY RestIs DEF Thread
  <2> HIDE DEF m
  <2>d. l \in Thread /\ l.pc = "close" /\ l.sup = pending /\ l.retry = TRUE
    BY <2>b, <2>c DEF Thread
  <2> HIDE DEF l
  <2>1. /\ run' \in [Caller -> Thread] /\ run'[c] = l
        /\ \A d \in Caller : d # c => run'[d] = run[d]
    BY <2>a, <2>d, OthersStay
  <2>2. \A d \in Caller : ~Works(d)
    BY <1>5 DEF Rules, OneWorker
  <2>3. Works(c)' /\ \A d \in Caller : d # c => ~Works(d)'
    BY <2>1, <2>2, <2>d DEF Works
  <2>4. Bounded'
    BY <1>2, <2>a, <2>d
  <2>5. TypeOK' /\ Accounted'
    BY <1>1, <1>5, <2>1 DEF Rules, TypeOK, Accounted
  <2>6. pending \in 1 .. used
    BY <1>5, HelperAssumption DEF Rules, TypeOK, OneWorker, NoSup, Sup
  <2>7. OneWorker'
    BY <1>1, <1>5, <2>1, <2>2, <2>3, <2>6, <2>d DEF Rules, OneWorker
  <2>8. Surrendered'
    <3>1. NoSup \notin Sup
      BY HelperAssumption DEF NoSup, Sup
    <3>2. run[c].sup = NoSup
      BY <2>2 DEF Rules, OneWorker
    <3>3. \A s \in Sup : Forgotten(s)' => Forgotten(s)
      BY <1>1, <2>1, <3>1, <3>2 DEF Forgotten
    <3>4. ASSUME NEW d \in Caller PROVE run'[d].pc \notin Acquiring \cup {"attach", "closed"}
      <4>1. CASE d = c
        BY <2>1, <2>d, <4>1 DEF Acquiring
      <4>2. CASE d # c
        <5>1. run'[d].pc \in {"idle", "check", "claim"}
          BY <2>1, <2>2, <4>2 DEF Works
        <5>. QED BY <5>1 DEF Acquiring
      <4>. QED BY <4>1, <4>2
    <3>. QED BY <1>1, <3>3, <3>4 DEF Rules, Surrendered
  <2>. QED BY <2>4, <2>5, <2>7, <2>8 DEF Rules
<1>. QED BY <1>3, <1>4, <1>5 DEF Request

LEMMA ClaimStep ==
  ASSUME Rules, NEW c \in Caller, Claim(c)
  PROVE  Rules'
<1>1. /\ owner = "running" /\ run[c].pc = "claim" /\ ~Works(c)
      /\ UNCHANGED <<owner, pending, retrying, sup, faults>>
  BY DEF Claim, At, Works
<1>2. run[c] \in Thread /\ ~run[c].retry /\ run[c].sup = NoSup /\ c \in Comers
  BY <1>1 DEF Rules, TypeOK, OneWorker, Comers
<1>3. CASE Return(c) /\ UNCHANGED <<active, used>>
  <2>1. run' = [run EXCEPT ![c] = Rest]
    BY <1>3 DEF Return
  <2>2. Comers' \subseteq Comers
    BY <1>2, <2>1, RestIs, OthersStay DEF Comers
  <2>. QED BY <1>1, <1>3, <2>1, <2>2, RestIs, FewerComers, IdleStep
<1>4. CASE /\ pending = NoSup /\ ~active /\ ~retrying
           /\ active' = TRUE /\ used' = used + 1
           /\ run' = [run EXCEPT ![c].pc = "acquire", ![c].sup = used + 1]
  <2> DEFINE m == [run[c] EXCEPT !.pc = "acquire"]
             l == [m EXCEPT !.sup = used + 1]
  <2>a. used \in Nat /\ MaxRequests \in Nat
    BY HelperAssumption DEF Rules, TypeOK
  <2>b. run' = [run EXCEPT ![c] = l]
    BY <1>2, <1>4 DEF Rules, TypeOK, Thread
  <2>c. m \in Thread /\ m.pc = "acquire" /\ m.retry = run[c].retry
    BY <1>2 DEF Thread, PCs, Acquiring
  <2> HIDE DEF m
  <2>1. IsFiniteSet(Comers \ {c}) /\ Cardinality(Comers \ {c}) = Cardinality(Comers) - 1
    BY <1>2, ComersFinite, FS_RemoveElement, Zenon
  <2>2. used + 1 \in Sup
    <3>1. Cardinality(Comers \ {c}) \in Nat
      BY <2>1, FS_CardinalityType
    <3>2. used + Cardinality(Comers) <= MaxRequests
      BY DEF Rules, Bounded
    <3>. QED BY <2>a, <2>1, <3>1, <3>2, ComersFinite DEF Sup
  <2>d. l \in Thread /\ l.pc = "acquire" /\ l.sup = used + 1 /\ l.retry = FALSE
    BY <1>2, <2>c, <2>2 DEF Thread
  <2> HIDE DEF l
  <2>3. /\ run' \in [Caller -> Thread] /\ run'[c] = l
        /\ \A d \in Caller : d # c => run'[d] = run[d]
    BY <2>b, <2>d, OthersStay
  <2>4. \A d \in Caller : ~Works(d)
    BY <1>4 DEF Rules, OneWorker
  <2>5. Works(c)' /\ \A d \in Caller : d # c => ~Works(d)'
    BY <2>3, <2>4, <2>d DEF Works
  <2>6. Bounded'
    <3>1. Comers' \subseteq Comers \ {c}
      BY <2>3, <2>d DEF Comers
    <3>2. Cardinality(Comers') \in Nat /\ Cardinality(Comers') <= Cardinality(Comers \ {c})
      BY <2>1, <3>1, FS_Subset, FS_CardinalityType
    <3>3. used + Cardinality(Comers) <= MaxRequests
      BY DEF Rules, Bounded
    <3>. QED BY <1>4, <2>a, <2>1, <3>2, <3>3, ComersFinite DEF Bounded
  <2>7. TypeOK' /\ Accounted'
    BY <1>1, <1>4, <2>3 DEF Rules, TypeOK, Accounted
  <2>8. OneWorker'
    <3>1. pending <= used' /\ used' \in Nat /\ used + 1 \in 1 .. used'
      BY <1>4, <2>a DEF Rules, OneWorker, NoSup
    <3>. QED BY <1>1, <1>4, <2>3, <2>4, <2>5, <2>d, <3>1 DEF Rules, OneWorker
  <2>9. Surrendered'
    <3>1. \A s \in Sup : s > used' => s > used
      BY <1>4, <2>a DEF Sup
    <3>2. used + 1 > used
      BY <2>a
    <3>3. sup[used + 1].state = "open"
      BY <2>2, <3>2 DEF Rules, Surrendered
    <3>4. \A s \in Sup : Forgotten(s)' => Forgotten(s)
      <4>1. ASSUME NEW s \in Sup, Forgotten(s)' PROVE Forgotten(s)
        <5>1. s <= used' /\ s # pending /\ s # used + 1
          BY <1>1, <2>3, <2>d, <4>1 DEF Forgotten
        <5>2. s <= used
          BY <1>4, <2>a, <5>1 DEF Sup
        <5>3. \A d \in Caller : run[d].sup = NoSup
          BY <2>4 DEF Rules, OneWorker
        <5>4. s # NoSup
          BY HelperAssumption DEF NoSup, Sup
        <5>. QED BY <5>1, <5>2, <5>3, <5>4 DEF Forgotten
      <4>. QED BY <4>1
    <3>5. ASSUME NEW d \in Caller
          PROVE  /\ run'[d].pc \in Acquiring => sup'[run'[d].sup].state = "open"
                 /\ run'[d].pc = "attach" => sup'[run'[d].sup].job = "open"
                 /\ run'[d].pc = "closed" => sup'[run'[d].sup].state = "closed"
      <4>1. CASE d = c
        BY <1>1, <2>3, <2>d, <3>3, <4>1
      <4>2. CASE d # c
        <5>1. run'[d].pc \in {"idle", "check", "claim"}
          BY <2>3, <2>4, <4>2 DEF Works
        <5>. QED BY <5>1 DEF Acquiring
      <4>. QED BY <4>1, <4>2
    <3>. QED BY <1>1, <3>1, <3>4, <3>5 DEF Rules, Surrendered
  <2>. QED BY <2>6, <2>7, <2>8, <2>9 DEF Rules
<1>. QED BY <1>3, <1>4 DEF Claim

(* A thread lets go of a supervisor that is closed or pending.             *)
LEMMA LetGo ==
  ASSUME Rules, owner = "running", NEW c \in Caller, Works(c), UNCHANGED <<owner, sup, used, faults>>,
         NEW l \in Thread, run' = [run EXCEPT ![c] = l],
         l.pc \in {"idle", "check"}, ~l.retry, l.sup = NoSup,
         l.pc = "check" => run[c].retry,
         active' \in BOOLEAN, retrying' \in BOOLEAN, pending' \in {pending, NoSup},
         pending' = run[c].sup \/ Owned(My(c)) = {},
         pending' # pending => pending = run[c].sup
  PROVE  Rules'
<1>1. /\ run' \in [Caller -> Thread] /\ run'[c] = l
      /\ \A d \in Caller : d # c => run'[d] = run[d]
  BY OthersStay
<1>2. \A d \in Caller : ~Works(d)'
  BY <1>1 DEF Works, Rules, OneWorker
<1>3. TypeOK' /\ Accounted'
  BY <1>1 DEF Rules, TypeOK, Accounted
<1>4. Bounded'
  <2>1. Comers' \subseteq Comers
    BY <1>1 DEF Comers
  <2>. QED BY <2>1, FewerComers
<1>5. OneWorker'
  <2>1. pending' <= used /\ used' = used
    BY DEF Rules, TypeOK, OneWorker, NoSup
  <2>2. \A d \in Caller : ~run'[d].retry /\ run'[d].sup = NoSup
    BY <1>1, <1>2 DEF Rules, OneWorker, Works
  <2>. QED BY <1>2, <2>1, <2>2 DEF OneWorker
<1>6. Surrendered'
  <2>1. ASSUME NEW s \in Sup, Forgotten(s)' PROVE Owned(sup[s]) = {}
    <3>1. CASE s = run[c].sup
      <4>1. pending' # run[c].sup
        BY <2>1, <3>1 DEF Forgotten
      <4>2. My(c) = sup[s]
        BY <3>1 DEF My
      <4>. QED BY <4>1, <4>2
    <3>2. CASE s # run[c].sup
      <4>1. s # pending
        BY <2>1, <3>2 DEF Forgotten
      <4>2. Forgotten(s)
        BY <1>1, <2>1, <3>2, <4>1 DEF Forgotten
      <4>. QED BY <4>2 DEF Rules, Surrendered
    <3>. QED BY <3>1, <3>2
  <2>2. \A d \in Caller : run'[d].pc \notin Acquiring \cup {"attach", "closed"}
    <3>1. \A d \in Caller : run'[d].pc \in {"idle", "check", "claim"}
      BY <1>2 DEF Works
    <3>. QED BY <3>1 DEF Acquiring
  <2>. QED BY <2>1, <2>2 DEF Rules, Surrendered
<1>. QED BY <1>3, <1>4, <1>5, <1>6 DEF Rules

LEMMA LetGoStep ==
  ASSUME Rules, NEW c \in Caller, RetryDone(c) \/ NotReleased(c) \/ EndRequest(c)
  PROVE  Rules'
<1>1. /\ owner = "running" /\ Works(c) /\ UNCHANGED <<owner, sup, used, faults>>
      /\ run[c].pc \in {"closed", "not_closed", "end"}
  BY DEF RetryDone, NotReleased, EndRequest, At, Works
<1>2. /\ run[c] \in Thread /\ run[c].sup \in 1 .. used
      /\ IF run[c].retry
           THEN retrying /\ ~active /\ pending = run[c].sup
           ELSE active /\ ~retrying /\ pending = IF run[c].pc = "end" THEN run[c].sup ELSE NoSup
  BY <1>1 DEF Rules, TypeOK, OneWorker
<1>3. active \in BOOLEAN /\ retrying \in BOOLEAN /\ pending \in {NoSup} \cup Sup
  BY DEF Rules, TypeOK
<1>4. run[c].pc = "closed" => Owned(My(c)) = {}
  <2>1. My(c) = sup[run[c].sup] /\ run[c].sup \in Sup
    <3>1. run[c].sup \in Sup
      BY <1>2, HelperAssumption DEF Thread, NoSup
    <3>. QED BY <3>1 DEF My
  <2>. QED BY <1>1, <2>1 DEF Rules, Accounted, Held, Surrendered
<1>5. CASE RetryDone(c)
  <2>1. run[c].pc = "closed" /\ run[c].retry /\ retrying' = FALSE /\ active' = FALSE /\ pending' = NoSup
    BY <1>2, <1>3, <1>5 DEF RetryDone, At
  <2> DEFINE m == [run[c] EXCEPT !.pc = "check"]
             n == [m EXCEPT !.sup = NoSup]
             l == [n EXCEPT !.retry = FALSE]
  <2>2. run' = [run EXCEPT ![c] = l]
    BY <1>2, <1>5 DEF RetryDone, Rules, TypeOK, Thread
  <2>3. m \in Thread /\ m.pc = "check"
    BY <1>2 DEF Thread, PCs
  <2> HIDE DEF m
  <2>4. n \in Thread /\ n.pc = "check" /\ n.sup = NoSup
    BY <2>3 DEF Thread
  <2> HIDE DEF n
  <2>5. l \in Thread /\ l.pc = "check" /\ l.sup = NoSup /\ l.retry = FALSE
    BY <2>4 DEF Thread
  <2> HIDE DEF l
  <2>. QED BY <1>1, <1>2, <1>4, <2>1, <2>2, <2>5, LetGo
<1>6. CASE NotReleased(c)
  <2>1. /\ run' = [run EXCEPT ![c] = Rest] /\ run[c].retry
        /\ retrying' = FALSE /\ active' = FALSE /\ pending' = pending
    BY <1>2, <1>3, <1>6 DEF NotReleased, Return
  <2>. QED BY <1>1, <1>2, <2>1, RestIs, LetGo
<1>7. CASE EndRequest(c)
  <2>1. /\ run' = [run EXCEPT ![c] = Rest]
        /\ active' = FALSE /\ retrying' = retrying /\ pending' = pending
        /\ run[c].pc = "end" \/ (run[c].pc = "closed" /\ ~run[c].retry)
    BY <1>7 DEF EndRequest, Return
  <2>. QED BY <1>1, <1>2, <1>3, <1>4, <2>1, RestIs, LetGo
<1>. QED BY <1>5, <1>6, <1>7

(* The executor takes note of what could not be closed.                    *)
LEMMA KeepStep ==
  ASSUME Rules, NEW c \in Caller, Keep(c)
  PROVE  Rules'
<1>1. /\ owner = "running" /\ run[c].pc = "not_closed" /\ ~run[c].retry /\ Works(c)
      /\ pending' = run[c].sup /\ UNCHANGED <<owner, active, retrying, sup, used, faults>>
  BY DEF Keep, At, Works
<1>2. run[c] \in Thread /\ run[c].sup \in 1 .. used /\ run[c].sup \in {NoSup} \cup Sup
      /\ active /\ ~retrying /\ pending = NoSup
  BY <1>1 DEF Rules, TypeOK, OneWorker, Thread
<1> DEFINE m == [run[c] EXCEPT !.pc = "end"]
           l == [m EXCEPT !.result = IF @ = "view" THEN @ ELSE "internal_error"]
<1>3. run' = [run EXCEPT ![c] = l]
  BY <1>2 DEF Keep, Rules, TypeOK, Thread
<1>4. m \in Thread /\ m.pc = "end" /\ m.sup = run[c].sup /\ m.retry = run[c].retry
  BY <1>2 DEF Thread, PCs
<1> HIDE DEF m
<1>5. l \in Thread /\ l.pc = "end" /\ l.sup = run[c].sup /\ l.retry = FALSE
  BY <1>1, <1>4 DEF Thread
<1> HIDE DEF l
<1>6. /\ run' \in [Caller -> Thread] /\ run'[c] = l
      /\ \A d \in Caller : d # c => run'[d] = run[d]
  BY <1>3, <1>5, OthersStay
<1>7. Works(c)' /\ \A d \in Caller : Works(d)' = Works(d)
  BY <1>1, <1>5, <1>6 DEF Works
<1>8. \A d \in Caller : d # c => ~Works(d)
  BY <1>1 DEF Rules, OneWorker
<1>9. TypeOK' /\ Accounted'
  BY <1>1, <1>2, <1>6 DEF Rules, TypeOK, Accounted
<1>10. Bounded'
  <2>1. Comers' \subseteq Comers
    BY <1>5, <1>6 DEF Comers
  <2>. QED BY <1>1, <2>1, FewerComers
<1>11. OneWorker'
  <2>1. pending' <= used'
    BY <1>1, <1>2 DEF Rules, TypeOK
  <2>2. \A d \in Caller : d # c => ~run'[d].retry /\ run'[d].sup = NoSup
    BY <1>6, <1>8 DEF Rules, OneWorker
  <2>. QED BY <1>1, <1>2, <1>5, <1>6, <1>7, <1>8, <2>1, <2>2 DEF OneWorker
<1>12. Surrendered'
  <2>1. \A s \in Sup : Forgotten(s)' => Forgotten(s)
    <3>1. NoSup \notin Sup
      BY HelperAssumption DEF NoSup, Sup
    <3>. QED BY <1>1, <1>2, <1>5, <1>6, <3>1 DEF Forgotten
  <2>2. \A d \in Caller : run'[d].pc \notin Acquiring \cup {"attach", "closed"}
    <3>1. run'[c].pc = "end" /\ \A d \in Caller : d # c => run'[d].pc \in {"idle", "check", "claim"}
      BY <1>5, <1>6, <1>8 DEF Works
    <3>. QED BY <3>1 DEF Acquiring
  <2>. QED BY <1>1, <2>1, <2>2 DEF Rules, Surrendered
<1>. QED BY <1>9, <1>10, <1>11, <1>12 DEF Rules

(* Time passes.                                                            *)
LEMMA TickStep ==
  ASSUME Rules, NEW c \in Caller, Tick(c)
  PROVE  Rules'
<1>1. UNCHANGED <<owner, pending, active, retrying, sup, used, faults>>
  BY DEF Tick, executor
<1> DEFINE l == [run[c] EXCEPT !.time = IF @ = "usable" THEN "reserve" ELSE "over"]
<1>2. run[c] \in Thread
  BY DEF Rules, TypeOK
<1>3. run' = [run EXCEPT ![c] = l]
  BY DEF Tick
<1>4. l \in Thread /\ l.pc = run[c].pc /\ l.sup = run[c].sup /\ l.retry = run[c].retry
  BY <1>2 DEF Thread
<1> HIDE DEF l
<1>5. /\ run' \in [Caller -> Thread]
      /\ \A d \in Caller : run'[d].pc = run[d].pc /\ run'[d].sup = run[d].sup /\ run'[d].retry = run[d].retry
  BY <1>3, <1>4, OthersStay
<1>6. \A d \in Caller : Works(d)' = Works(d)
  BY <1>5 DEF Works
<1>7. TypeOK' /\ Accounted'
  BY <1>1, <1>5 DEF Rules, TypeOK, Accounted
<1>8. Bounded'
  <2>1. Comers' \subseteq Comers
    BY <1>5 DEF Comers
  <2>. QED BY <1>1, <2>1, FewerComers
<1>9. OneWorker'
  BY <1>1, <1>5, <1>6 DEF Rules, OneWorker
<1>10. Surrendered'
  <2>1. \A s \in Sup : Forgotten(s)' => Forgotten(s)
    BY <1>1, <1>5 DEF Forgotten
  <2>. QED BY <1>1, <1>5, <2>1 DEF Rules, Surrendered
<1>. QED BY <1>7, <1>8, <1>9, <1>10 DEF Rules

(* What the helper does changes what it is and what it has said.           *)
LEMMA ChildStep ==
  ASSUME Rules, NEW s \in Sup, Helper(s)
  PROVE  /\ Rules'
         /\ \A t \in Sup : Alive(sup'[t]) => Alive(sup[t])
<1>1. UNCHANGED <<owner, pending, active, retrying, run, used, faults>>
  BY DEF Helper, PassGate, TakeRequest, Answer, HearEof, ChildDies, executor
<1>2. sup[s] \in Supervisor /\ sup \in [Sup -> Supervisor]
  BY DEF Rules, TypeOK
<1>3. PICK child \in {"waiting", "working", "done", "dead"},
           said \in {"nothing", "ready", "view", "error", "garbage"} :
        ChildIs(s, child, said) /\ Alive(sup[s])
  BY <1>2 DEF Helper, PassGate, TakeRequest, Answer, HearEof, ChildDies, Alive, Supervisor
<1> DEFINE m == [sup[s] EXCEPT !.child = child]
           l == [m EXCEPT !.said = said]
<1>4. sup' = [sup EXCEPT ![s] = l]
  BY <1>2, <1>3 DEF ChildIs, Supervisor
<1>5. /\ m \in Supervisor /\ m.state = sup[s].state /\ m.entries = sup[s].entries /\ m.kept = sup[s].kept
      /\ m.end = sup[s].end /\ m.inheritable = sup[s].inheritable /\ m.process = sup[s].process
      /\ m.job = sup[s].job
  BY <1>2 DEF Supervisor
<1> HIDE DEF m
<1>6. /\ l \in Supervisor /\ l.state = sup[s].state /\ l.entries = sup[s].entries /\ l.kept = sup[s].kept
      /\ l.end = sup[s].end /\ l.inheritable = sup[s].inheritable /\ l.process = sup[s].process
      /\ l.job = sup[s].job
  BY <1>5 DEF Supervisor
<1> HIDE DEF l
<1>7. /\ sup' \in [Sup -> Supervisor] /\ sup'[s] = l
      /\ \A t \in Sup : t # s => sup'[t] = sup[t]
  BY <1>2, <1>4, <1>6
<1>8. \A t \in Sup : Owned(sup'[t]) = Owned(sup[t]) /\ sup'[t].state = sup[t].state /\ sup'[t].job = sup[t].job
  BY <1>6, <1>7 DEF Owned
<1>9. \A t \in Sup : Alive(sup'[t]) => Alive(sup[t])
  BY <1>3, <1>7
<1>10. TypeOK'
  BY <1>1, <1>7 DEF Rules, TypeOK
<1>11. Accounted'
  <2>1. ASSUME owner = "running" PROVE Held(l)
    <3>1. Held(sup[s])
      BY <2>1 DEF Rules, Accounted
    <3>. QED BY <1>3, <1>6, <3>1 DEF Held, Owned, OpenEnds
  <2>. QED BY <1>1, <1>7, <2>1 DEF Rules, Accounted
<1>12. Bounded'
  BY <1>1 DEF Rules, Bounded, Comers
<1>13. OneWorker'
  BY <1>1 DEF Rules, OneWorker, Works
<1>14. Surrendered'
  <2>1. \A t \in Sup : Forgotten(t)' => Forgotten(t)
    BY <1>1 DEF Forgotten
  <2>2. ASSUME NEW c \in Caller, run[c].pc \in Acquiring \cup {"attach", "closed"} PROVE run[c].sup \in Sup
    <3>1. Works(c)
      BY <2>2 DEF Works, Acquiring
    <3>2. run[c].sup \in 1 .. used /\ run[c].sup \in {NoSup} \cup Sup
      BY <3>1 DEF Rules, OneWorker, TypeOK, Thread
    <3>. QED BY <3>2 DEF NoSup
  <2>. QED BY <1>1, <1>8, <2>1, <2>2 DEF Rules, Surrendered
<1>. QED BY <1>9, <1>10, <1>11, <1>12, <1>13, <1>14 DEF Rules

(* The owner is killed: nobody works on anything any more.                 *)
LEMMA KilledStep ==
  ASSUME Rules, OwnerKilled
  PROVE  /\ Rules'
         /\ \A s \in Sup : Alive(sup'[s]) => Alive(sup[s])
<1>1. /\ owner' = "dead" /\ sup' = [s \in Sup |-> Orphan(sup[s])] /\ run' = [c \in Caller |-> Rest]
      /\ pending' = NoSup /\ active' = FALSE /\ retrying' = FALSE /\ UNCHANGED <<used, faults>>
  BY DEF OwnerKilled
<1>2. ASSUME NEW s \in Sup
      PROVE  /\ Orphan(sup[s]) \in Supervisor /\ Orphan(sup[s]).state = "open" /\ Owned(Orphan(sup[s])) = {}
             /\ Alive(Orphan(sup[s])) => Alive(sup[s])
  <2>1. sup[s] \in Supervisor
    BY DEF Rules, TypeOK
  <2>2. Fresh \in Supervisor /\ Fresh.state = "open" /\ Fresh.entries = {} /\ Fresh.kept = {}
    BY DEF Fresh, Supervisor, Ends
  <2> DEFINE child == IF sup[s].job = "assigned" THEN "dead" ELSE sup[s].child
             m == [Fresh EXCEPT !.child = child]
             o == [m EXCEPT !.told = sup[s].told]
  <2>3. child \in {"none", "gated", "waiting", "working", "done", "dead"}
        /\ (child \notin {"none", "dead"} => Alive(sup[s])) /\ sup[s].told \in {"nothing", "go", "request"}
    BY <2>1 DEF Supervisor, Alive
  <2>4. Orphan(sup[s]) = o
    BY <2>2 DEF Orphan, Fresh
  <2> HIDE DEF child
  <2>5. m \in Supervisor /\ m.state = "open" /\ m.entries = {} /\ m.kept = {} /\ m.child = child
    BY <2>2, <2>3 DEF Supervisor
  <2> HIDE DEF m
  <2>6. o \in Supervisor /\ o.state = "open" /\ o.entries = {} /\ o.kept = {} /\ o.child = child
    BY <2>3, <2>5 DEF Supervisor
  <2> HIDE DEF o
  <2>. QED BY <2>3, <2>4, <2>6 DEF Owned, Alive
<1>3. run' \in [Caller -> Thread] /\ \A c \in Caller : ~Works(c)' /\ run'[c].pc = "idle" /\ ~run'[c].retry /\ run'[c].sup = NoSup
  BY <1>1, RestIs DEF Works
<1>4. TypeOK'
  BY <1>1, <1>2, <1>3 DEF Rules, TypeOK
<1>5. Bounded'
  <2>1. Comers' \subseteq Comers
    BY <1>3 DEF Comers
  <2>. QED BY <1>1, <2>1, FewerComers
<1>6. OneWorker'
  <2>1. pending' <= used'
    BY <1>1 DEF Rules, TypeOK, NoSup
  <2>. QED BY <1>3, <2>1 DEF OneWorker
<1>7. Accounted'
  BY <1>1 DEF Accounted
<1>8. Surrendered'
  <2>1. \A c \in Caller : run'[c].pc \notin Acquiring \cup {"attach", "closed"}
    BY <1>3 DEF Acquiring
  <2>. QED BY <1>1, <1>2, <2>1 DEF Surrendered
<1>. QED BY <1>1, <1>2, <1>4, <1>5, <1>6, <1>7, <1>8 DEF Rules

LEMMA RulesInit == Init => Rules /\ OneHelper
<1> SUFFICES ASSUME Init PROVE Rules /\ OneHelper
  OBVIOUS
<1> USE DEF Init
<1>1. /\ Fresh \in Supervisor /\ Fresh.state = "open" /\ Owned(Fresh) = {} /\ Held(Fresh)
      /\ ~Alive(Fresh)
  BY DEF Fresh, Supervisor, Ends, EndsOf, OpenEnds, Owned, Held, Alive
<1>2. TypeOK
  BY <1>1, RestIs DEF TypeOK
<1>3. Comers = {}
  BY RestIs DEF Comers
<1>4. Bounded
  BY <1>3, FS_EmptySet, HelperAssumption DEF Bounded
<1>5. OneWorker
  BY RestIs DEF OneWorker, Works, NoSup
<1>6. Accounted
  BY <1>1 DEF Accounted
<1>7. Surrendered
  BY <1>1, RestIs DEF Surrendered, Acquiring
<1>8. OneHelper
  BY <1>1 DEF OneHelper
<1>. QED BY <1>2, <1>4, <1>5, <1>6, <1>7, <1>8 DEF Rules

LEMMA RulesStep == Rules /\ OneHelper /\ [Next]_vars => Rules' /\ OneHelper'
<1> SUFFICES ASSUME Rules, OneHelper, [Next]_vars PROVE Rules' /\ OneHelper'
  OBVIOUS
<1>1. ASSUME Rules', owner' = "running" PROVE OneHelper'
  <2>1. OneLives'
    BY <1>1, OneAlive, PTL
  <2>. QED BY <1>1, <2>1 DEF OneLives
<1>2. ASSUME \A s \in Sup : Alive(sup'[s]) => Alive(sup[s]) PROVE OneHelper'
  BY <1>2 DEF OneHelper
<1>3. ASSUME NEW c \in Caller, Step(c) PROVE Rules' /\ owner' = "running"
  <2>1. owner' = "running"
    BY <1>3 DEF Step, Request, Check, Claim, Acquire, Pipes, Inherit, Spawn, Reset, ChildEnds,
                CreateJob, Attach, OpenGate, AwaitReady, SendRequest, AwaitResponse, CloseEntry,
                Aborted, CloseSupervisor, PendingRolledBack, Closed, RetryDone, NotReleased, Keep,
                EndRequest, At
  <2>2. Rules'
    BY <1>3, RequestStep, CheckStep, ClaimStep, AcquisitionStep, ConversationStep, CloseEntryStep,
       ClosingStep, LetGoStep, KeepStep DEF Step
  <2>. QED BY <2>1, <2>2
<1>4. ASSUME NEW c \in Caller, Tick(c) PROVE Rules' /\ owner' = "running"
  BY <1>4, TickStep DEF Tick
<1>5. CASE UNCHANGED vars
  <2>1. Rules'
    BY <1>5 DEF vars, Rules, TypeOK, Bounded, Comers, OneWorker, Works, Accounted, Surrendered,
                Forgotten, Acquiring
  <2>. QED BY <1>5, <2>1 DEF vars, OneHelper
<1>6. ASSUME NEW s \in Sup, Helper(s) PROVE Rules' /\ OneHelper'
  BY <1>2, <1>6, ChildStep
<1>7. CASE OwnerKilled
  BY <1>2, <1>7, KilledStep
<1>. QED BY <1>1, <1>3, <1>4, <1>5, <1>6, <1>7 DEF Next, Over

(***************************************************************************)
(* The theorems.                                                           *)
(***************************************************************************)
(* HInv, the invariant of the run, is inductive.                           *)
THEOREM Invariance == Spec => []HInv
<1>1. Spec => [](Rules /\ OneHelper)
  BY RulesInit, RulesStep, PTL DEF Spec
<1>2. Rules /\ OneHelper => HInv
  BY DEF Rules, HInv
<1>. QED BY <1>1, <1>2, PTL

(* Whatever fails, and in whatever order, the executor keeps every         *)
(* supervisor that still has something open: a supervisor nobody works on  *)
(* and nobody remembers has no helper, no process or job handle, no open   *)
(* end and no inheritable handle left.                                     *)
THEOREM NothingIsLost == Spec => []NothingLost
<1>1. HInv => NothingLost
  <2> SUFFICES ASSUME HInv, owner = "running", NEW s \in Sup, Forgotten(s)
               PROVE  /\ ~Alive(sup[s]) /\ sup[s].process # "open"
                      /\ sup[s].job \notin {"open", "assigned"}
                      /\ OpenEnds(sup[s], Ends) = {} /\ ~sup[s].inheritable
    BY DEF NothingLost
  <2>1. Owned(sup[s]) = {} /\ Held(sup[s])
    BY DEF HInv, Surrendered, Accounted
  <2>2. OpenEnds(sup[s], EndsOf("gate")) = {} /\ OpenEnds(sup[s], EndsOf("data")) = {}
    BY <2>1 DEF Held
  <2>3. Ends = EndsOf("gate") \cup EndsOf("data")
    BY DEF Ends, EndsOf
  <2>4. OpenEnds(sup[s], Ends) = {}
    BY <2>2, <2>3 DEF OpenEnds
  <2>. QED BY <2>1, <2>4 DEF Held
<1>. QED BY <1>1, Invariance, PTL

(* No two helpers of one executor are alive at a time, whichever threads   *)
(* ask for one and whatever a cleanup has left.                            *)
THEOREM HelpersOneAtATime == Spec => []OneHelper
<1>1. HInv => OneHelper
  BY DEF HInv
<1>. QED BY <1>1, Invariance, PTL

================================================================================
