----------------------------- MODULE CommandProofs -----------------------------
(***************************************************************************)
(* Exit code, record and notifications agree at the end of every run of    *)
(* `ocihood start`, for any number of processes, targets and modes.        *)
(***************************************************************************)
EXTENDS Command, TLAPS

Early  == {"idle", "config", "discover", "announce", "lock", "reconcile"}
Held   == {"reconcile", "key", "waiting", "watch", "pausing", "found", "launch",
           "degraded", "rotate", "follow", "report"}
Closed == {"return", "terminal", "exit", "ended"}
Ends   == {"report"} \cup Closed

-----------------------------------------------------------------------------
(* What a run knows of itself.                                             *)

\* The record it has left when it comes to a phase.
Recorded(r) ==
    /\ r.pc \in Early => r.saved = "nothing"
    /\ r.pc \in {"key", "waiting", "found", "launch", "degraded", "rotate"}
          => r.saved = "provisioning"
    /\ r.pc \notin Ends => r.saved # "failed"
    /\ r.pc = "follow" => r.saved \in {"provisioning", "running"}
    /\ r.pc \in Ends /\ r.error = NoError =>
          IF r.noCapacity THEN r.saved \in {"waiting", "provisioning"} ELSE r.saved = "running"
    /\ r.pc \in Ends /\ r.error.kind = "invalid" => r.saved = "nothing"
    /\ r.pc \in Ends /\ r.saved = "failed" => r.error.cause # "canceled"

\* Its error and its code.
Ended(r) ==
    /\ r.pc \notin Closed \cup {"announce", "pausing"} => r.error = NoError
    /\ r.pc = "announce" /\ r.error = NoError => r.target \in Targets
    /\ r.pc = "pausing" => r.error.cause # "none" /\ r.error.kind = "other"
    /\ r.pc \notin Ends => ~r.noCapacity
    /\ r.pc = "terminal" => r.error # NoError
    /\ r.pc = "ended" => r.code \in {CommandCode(r.error, r.noCapacity), 1}

\* What it has told.
ClosedBy(r) == IF r.error = NoError
               THEN r.told = IF r.noCapacity THEN {"run_started"}
                             ELSE {"run_started", "instance_running"}
               ELSE \/ r.told = {"run_started", "terminal_failure"}
                    \/ r.told = {"run_started", "paused"} /\ r.error.cause # "none"

Reported(r) ==
    /\ r.pc \in {"idle", "config", "discover", "announce"} => r.told = {} /\ ~r.undelivered
    /\ r.pc \in {"lock", "terminal"} \cup Held => r.told = {"run_started"}
    /\ r.pc = "return" => /\ "terminal_failure" \notin r.told
                          /\ ClosedBy(r) \/ (r.error # NoError /\ r.told = {"run_started"})
    /\ r.pc \in {"exit", "ended"} => /\ r.told = {} \/ ClosedBy(r)
                                     /\ r.undelivered => r.noted
    /\ r.pc = "terminal" => (r.undelivered => r.noted)

\* Whether it has said that it resumes a wait.
Resumption(r) ==
    /\ r.pc \in Early => r.resumes = 0 /\ ~r.resumed
    /\ r.pc \in {"watch", "found", "launch", "degraded", "rotate"} => ~r.resumed
    /\ r.pc \in {"key", "waiting", "watch", "found", "launch", "degraded", "rotate"} =>
          /\ r.resumed => r.foundWaiting /\ r.resumes = 0
          /\ ~r.resumed => r.resumes = IF r.foundWaiting THEN 1 ELSE 0

\* What all this looks at in a run, its phase, error and target aside.
Keeps(next, r) ==
    /\ next.noCapacity = r.noCapacity /\ next.saved = r.saved
    /\ next.told = r.told /\ next.undelivered = r.undelivered /\ next.noted = r.noted
    /\ next.resumes = r.resumes /\ next.resumed = r.resumed
    /\ next.foundWaiting = r.foundWaiting

Good(r) == r \in RunStates /\ Recorded(r) /\ Ended(r) /\ Reported(r) /\ Resumption(r)

-----------------------------------------------------------------------------
(* What the lock is good for: between reconciliation and the end the       *)
(* record of a run is its own.                                             *)

Holds(p, r) ==
    /\ r.pc \in Held \cup {"lock"} => r.target \in Targets
    /\ r.pc \in Held => lock[r.target] = p
    /\ \A t \in Targets : lock[t] = p =>
          /\ r.pc \in Held \cup {"return"}
          /\ r.target = t
          /\ r.saved # "nothing" => record[t] = r.saved

Finds(r) ==
    /\ r.pc = "reconcile" => (r.foundWaiting <=> record[r.target] = "waiting")
    /\ r.pc \in Held \ {"reconcile"} => ~paused[r.target]
    /\ r.pc = "pausing" => record[r.target] = "waiting"

Shared == /\ record \in [Targets -> Lifecycles \cup {"none"}]
          /\ lock \in [Targets -> Runs \cup {NoRun}]
          /\ paused \in [Targets -> BOOLEAN]
          /\ \A t \in Targets : paused[t] => record[t] = "waiting"

Agreement == /\ Shared
             /\ run \in [Runs -> RunStates]
             /\ \A p \in Runs : Good(run[p]) /\ Holds(p, run[p]) /\ Finds(run[p])

-----------------------------------------------------------------------------
(* A run that moves on and changes nothing that is shared.                 *)

LEMMA Local ==
    ASSUME Agreement, NEW p \in Runs, NEW next,
           Becomes(p, next), UNCHANGED <<record, lock, paused>>,
           Good(next), Holds(p, next), Finds(next)
    PROVE  Agreement'
<1>1. Shared'
  BY DEF Agreement, Shared
<1>2. next \in RunStates
  BY DEF Good
<1>3. run' \in [Runs -> RunStates]
  BY <1>2 DEF Agreement, Becomes
<1>4. ASSUME NEW q \in Runs
      PROVE  Good(run[q])' /\ Holds(q, run[q])' /\ Finds(run[q])'
  <2>1. run'[q] = IF q = p THEN next ELSE run[q]
    BY DEF Agreement, Becomes
  <2>2. Good(run'[q]) /\ Holds(q, run'[q]) /\ Finds(run'[q])
    BY <2>1 DEF Agreement
  <2> QED
    BY <2>2 DEF Good, Recorded, Ended, Reported, ClosedBy, Resumption, Holds, Finds
<1> QED
  BY <1>1, <1>3, <1>4 DEF Agreement

\* A run that goes on under the lock, or returns.
LEMMA StillHolds ==
    ASSUME Agreement, NEW p \in Runs, NEW next \in RunStates,
           run[p].pc \in Held, next.pc \in Held \cup {"return"},
           next.target = run[p].target, next.saved = run[p].saved
    PROVE  Holds(p, next)
BY DEF Agreement, Holds, Held

-----------------------------------------------------------------------------
(* The updates of a run, field by field.                                   *)

Errors == [cause : Causes, kind : Kinds]

LEMMA PhaseTyped ==
    ASSUME NEW r \in RunStates, NEW pc \in Phases, NEW next,
           next = [r EXCEPT !.pc = pc]
    PROVE  /\ next \in RunStates /\ next.pc = pc /\ next.error = r.error
           /\ next.target = r.target /\ Keeps(next, r)
BY DEF Keeps, RunStates

\* A run that ends forgets the rest.
LEMMA OverTyped ==
    ASSUME NEW r \in RunStates, NEW pc \in Phases, NEW next,
           next = Over(r, pc)
    PROVE  /\ next \in RunStates /\ next.pc = pc /\ next.error = r.error
           /\ next.target = r.target /\ next.noCapacity = r.noCapacity
           /\ next.saved = r.saved /\ next.told = r.told
           /\ next.undelivered = r.undelivered /\ next.noted = r.noted
<1>1. PICK r1 \in RunStates : r1 = [r EXCEPT !.pc = pc]
  BY PhaseTyped
<1>2. PICK r2 \in RunStates : r2 = [r1 EXCEPT !.once = FALSE, !.resumed = FALSE]
  BY DEF RunStates
<1>3. PICK r3 \in RunStates : r3 = [r2 EXCEPT !.foundWaiting = FALSE, !.resumes = 0]
  <2>1. 0 \in 0 .. 2
    OBVIOUS
  <2>2. \A n \in 0 .. 2 : [r2 EXCEPT !.foundWaiting = FALSE, !.resumes = n] \in RunStates
    BY DEF RunStates
  <2> QED
    BY <2>1, <2>2
<1>4. next = r3
  BY <1>1, <1>2, <1>3 DEF Over, RunStates
<1>5. /\ next.pc = pc /\ next.error = r.error
      /\ next.target = r.target /\ next.noCapacity = r.noCapacity
      /\ next.saved = r.saved /\ next.told = r.told
      /\ next.undelivered = r.undelivered /\ next.noted = r.noted
  BY DEF Over, RunStates
<1> QED
  BY <1>4, <1>5

LEMMA ErrorTyped ==
    ASSUME NEW r \in RunStates, NEW error \in Errors, NEW next,
           next = [r EXCEPT !.error = error]
    PROVE  /\ next \in RunStates /\ next.pc = r.pc /\ next.error = error
           /\ next.target = r.target /\ Keeps(next, r)
BY DEF Keeps, RunStates, Errors

LEMMA ErrorsTyped == /\ NoError \in Errors /\ Other \in Errors /\ GivenUp \subseteq Errors
                     /\ \A e \in {Other} \cup GivenUp : /\ e # NoError /\ e.kind # "invalid"
                                                      /\ e.cause # "canceled"
BY DEF Errors, NoError, Other, GivenUp, Error, Causes, Kinds

LEMMA InterruptedTyped ==
    ASSUME NEW p \in Runs, run[p] \in RunStates, ~Live(p)
    PROVE  /\ Interrupted(p) \in Errors /\ Interrupted(p) # NoError
           /\ Interrupted(p).cause # "none" /\ Interrupted(p).kind = "other"
BY DEF Errors, NoError, Interrupted, Live, Error, Causes, Kinds, RunStates

LEMMA ToldTyped ==
    ASSUME NEW p \in Runs, run[p] \in RunStates, NEW kind, NEW trouble \in BOOLEAN,
           NEW r, r = Told(p, kind, trouble)
    PROVE  /\ r \in RunStates /\ r.pc = run[p].pc /\ r.error = run[p].error
           /\ r.target = run[p].target
           /\ r.told = run[p].told \cup ({kind} \cap Tracked)
           /\ r.undelivered = (run[p].undelivered \/ trouble)
           /\ r.resumes = IF kind = "resumed" /\ run[p].resumes < 2
                          THEN run[p].resumes + 1 ELSE run[p].resumes
           /\ r.noCapacity = run[p].noCapacity /\ r.saved = run[p].saved
           /\ r.noted = run[p].noted /\ r.resumed = run[p].resumed
           /\ r.foundWaiting = run[p].foundWaiting /\ r.once = run[p].once
<1> DEFINE told == run[p].told \cup ({kind} \cap Tracked)
           undelivered == run[p].undelivered \/ trouble
           resumes == IF kind = "resumed" /\ run[p].resumes < 2
                      THEN run[p].resumes + 1 ELSE run[p].resumes
           next == [run[p] EXCEPT !.told = told, !.undelivered = undelivered,
                                  !.resumes = resumes]
<1>1. told \in SUBSET Tracked
  BY DEF RunStates
<1>2. undelivered \in BOOLEAN
  BY DEF RunStates
<1>3. resumes \in 0 .. 2
  BY DEF RunStates
<1>4. next = Told(p, kind, trouble)
  BY DEF Told
<1>5. /\ next \in RunStates /\ next.pc = run[p].pc /\ next.error = run[p].error
      /\ next.target = run[p].target
      /\ next.told = told /\ next.undelivered = undelivered /\ next.resumes = resumes
      /\ next.noCapacity = run[p].noCapacity /\ next.saved = run[p].saved
      /\ next.noted = run[p].noted /\ next.resumed = run[p].resumed
      /\ next.foundWaiting = run[p].foundWaiting /\ next.once = run[p].once
  <2> HIDE DEF told, undelivered, resumes
  <2> QED
    BY <1>1, <1>2, <1>3 DEF RunStates
<1> QED
  BY <1>4, <1>5

-----------------------------------------------------------------------------
(* A run that fails.                                                       *)

LEMMA FailingGood ==
    ASSUME NEW p \in Runs, Good(run[p]), run[p].pc \in Held \cup {"lock"},
           NEW error \in Errors, error # NoError, error.kind # "invalid",
           run[p].saved # "failed" \/ error.cause # "canceled"
    PROVE  /\ Good(Failing(p, error))
           /\ Failing(p, error).pc = "return"
           /\ Failing(p, error).target = run[p].target
           /\ Failing(p, error).saved = run[p].saved
<1>1. run[p] \in RunStates
  BY DEF Good
<1>2. PICK r : r = Over(run[p], "return")
  OBVIOUS
<1>3. PICK next : next = [r EXCEPT !.error = error]
  OBVIOUS
<1>4. /\ next \in RunStates /\ next.pc = "return" /\ next.error = error
      /\ next.target = run[p].target /\ next.saved = run[p].saved
      /\ next.told = run[p].told /\ next.noCapacity = run[p].noCapacity
  BY <1>1, <1>2, <1>3, OverTyped, ErrorTyped DEF Phases, Keeps
<1>5. Good(next)
  BY <1>4 DEF Good, Recorded, Ended, Reported, Resumption, Held, Early, Closed, Ends
<1> QED
  BY <1>2, <1>3, <1>4, <1>5 DEF Failing

LEMMA FailingAgrees ==
    ASSUME Agreement, NEW p \in Runs, run[p].pc \in Held \cup {"lock"},
           NEW error \in Errors, error # NoError, error.kind # "invalid",
           run[p].saved # "failed" \/ error.cause # "canceled",
           Becomes(p, Failing(p, error)), UNCHANGED <<record, lock, paused>>
    PROVE  Agreement'
<1>1. PICK next : next = Failing(p, error)
  OBVIOUS
<1>2. Good(run[p]) /\ Holds(p, run[p])
  BY DEF Agreement
<1>3. Good(next) /\ next.pc = "return" /\ next.target = run[p].target
      /\ next.saved = run[p].saved
  BY <1>1, <1>2, FailingGood
<1>4. Holds(p, next)
  BY <1>2, <1>3 DEF Holds, Held
<1>5. Finds(next)
  BY <1>3 DEF Finds, Held
<1> QED
  BY <1>1, <1>3, <1>4, <1>5, Local

(* A run that writes the record it holds the lock of.                      *)
LEMMA Written ==
    ASSUME Agreement, NEW p \in Runs, run[p].pc \in Held,
           NEW lifecycle \in Lifecycles, NEW next, Becomes(p, next), UNCHANGED lock,
           \/ /\ record' = [record EXCEPT ![run[p].target] = lifecycle]
              /\ next.saved = lifecycle
           \/ UNCHANGED record /\ next.saved = run[p].saved,
           \/ run[p].pc # "reconcile" /\ UNCHANGED paused
           \/ paused' = [paused EXCEPT ![run[p].target] = FALSE],
           Good(next), next.pc \in (Held \ {"reconcile", "pausing"}) \cup {"return"},
           next.target = run[p].target
    PROVE  Agreement'
<1> DEFINE target == run[p].target
<1>1. /\ Shared /\ run \in [Runs -> RunStates] /\ Holds(p, run[p]) /\ Finds(run[p])
      /\ target \in Targets /\ lock[target] = p
  BY DEF Agreement, Holds
<1>2. /\ paused' \in [Targets -> BOOLEAN] /\ ~paused'[target]
      /\ \A t \in Targets \ {target} : paused'[t] = paused[t]
  <2>1. CASE UNCHANGED paused /\ run[p].pc # "reconcile"
    BY <2>1, <1>1 DEF Shared, Finds
  <2>2. CASE paused' = [paused EXCEPT ![run[p].target] = FALSE]
    BY <2>2, <1>1 DEF Shared
  <2> QED
    BY <2>1, <2>2
<1>3. /\ record' \in [Targets -> Lifecycles \cup {"none"}]
      /\ next.saved # "nothing" => record'[target] = next.saved
      /\ \A t \in Targets \ {target} : record'[t] = record[t]
  BY <1>1 DEF Shared, Holds
<1>4. Shared'
  BY <1>1, <1>2, <1>3 DEF Shared
<1>5. next \in RunStates /\ run' \in [Runs -> RunStates]
  BY <1>1 DEF Good, Becomes
<1>6. run'[p] = next /\ \A q \in Runs \ {p} : run'[q] = run[q]
  BY <1>1 DEF Becomes
<1>7. Good(run'[p]) /\ Holds(p, run[p])' /\ Finds(run[p])'
  BY <1>1, <1>2, <1>3, <1>6 DEF Holds, Finds, Held
<1>8. ASSUME NEW q \in Runs \ {p}
      PROVE  Good(run'[q]) /\ Holds(q, run[q])' /\ Finds(run[q])'
  <2>1. Good(run[q]) /\ Holds(q, run[q]) /\ Finds(run[q])
    BY DEF Agreement
  <2>2. lock[target] # q
    BY <1>1
  <2>3. Holds(q, run[q])'
    BY <2>1, <2>2, <1>3, <1>6 DEF Holds
  <2>4. Finds(run[q])'
    BY <2>1, <2>2, <1>2, <1>3, <1>6 DEF Holds, Finds, Held
  <2> QED
    BY <2>1, <2>3, <2>4, <1>6
<1> QED
  BY <1>4, <1>5, <1>6, <1>7, <1>8
     DEF Agreement, Good, Recorded, Ended, Reported, ClosedBy, Resumption

-----------------------------------------------------------------------------
(* Steps that leave the state that is shared alone.                        *)

LEMMA LockedStep ==
    ASSUME Agreement, NEW p \in Runs, NEW next,
           Becomes(p, next), UNCHANGED <<record, lock, paused>>,
           Good(next), Finds(next),
           run[p].pc \in Held, next.pc \in Held \cup {"return"},
           next.target = run[p].target, next.saved = run[p].saved
    PROVE  Agreement'
<1>1. next \in RunStates
  BY DEF Good
<1>2. Holds(p, next)
  BY <1>1, StillHolds
<1> QED
  BY <1>2, Local

\* The same for the steps that do not depend on the record.
LEMMA GoesOn ==
    ASSUME Agreement, NEW p \in Runs, NEW next,
           Becomes(p, next), UNCHANGED <<record, lock, paused>>, Good(next),
           run[p].pc \in Held \ {"reconcile"},
           next.pc \in (Held \ {"reconcile", "pausing"}) \cup {"return"},
           next.target = run[p].target, next.saved = run[p].saved
    PROVE  Agreement'
<1>1. Finds(run[p])
  BY DEF Agreement
<1>2. Finds(next)
  BY <1>1 DEF Finds, Held
<1> QED
  BY <1>2, LockedStep

LEMMA UnlockedStep ==
    ASSUME Agreement, NEW p \in Runs, NEW next,
           Becomes(p, next), UNCHANGED <<record, lock, paused>>, Good(next),
           run[p].pc \notin Held \cup {"return"}, next.pc \notin Held,
           next.pc = "lock" => next.target \in Targets
    PROVE  Agreement'
<1>1. Holds(p, run[p])
  BY DEF Agreement
<1>2. Holds(p, next) /\ Finds(next)
  BY <1>1 DEF Holds, Finds, Held
<1> QED
  BY <1>2, Local

-----------------------------------------------------------------------------
(* Up to the announcement.                                                 *)

LEMMA StartAgrees ==
    ASSUME Agreement, NEW p \in Runs, Start(p)
    PROVE  Agreement'
<1>1. PICK mode \in Modes[p] :
         Becomes(p, [run[p] EXCEPT !.pc = "config", !.once = mode.once,
                                   !.limited = mode.limited, !.notifies = mode.notifies])
  BY DEF Start
<1>2. mode.once \in BOOLEAN /\ mode.limited \in BOOLEAN /\ mode.notifies \in BOOLEAN
  BY CommandAssumption DEF AllModes
<1>3. Good(run[p]) /\ run[p] \in RunStates /\ run[p].pc = "idle"
  BY DEF Agreement, Good, Start, At
<1>4. PICK r : r = [run[p] EXCEPT !.pc = "config"]
  OBVIOUS
<1>5. r \in RunStates /\ r.pc = "config" /\ r.error = run[p].error /\ Keeps(r, run[p])
  BY <1>3, <1>4, PhaseTyped DEF Phases
<1>6. PICK next \in RunStates :
         next = [r EXCEPT !.once = mode.once, !.limited = mode.limited,
                          !.notifies = mode.notifies]
  BY <1>2, <1>5 DEF RunStates
<1>7. next.pc = r.pc /\ next.error = r.error /\ Keeps(next, r)
  BY <1>5, <1>6 DEF RunStates, Keeps
<1>8. Good(next)
  BY <1>3, <1>5, <1>7
     DEF Good, Recorded, Ended, Reported, Resumption, Held, Early, Closed, Ends, Keeps
<1> QED
  BY <1>1, <1>3, <1>4, <1>5, <1>6, <1>7, <1>8, UnlockedStep DEF Held, Start

LEMMA ConfigureAgrees ==
    ASSUME Agreement, NEW p \in Runs, Configure(p)
    PROVE  Agreement'
<1>1. Good(run[p]) /\ run[p] \in RunStates /\ run[p].pc = "config"
  BY DEF Agreement, Good, Configure, At
<1>2. CASE Live(p) /\ Goes(p, "discover")
  <2>1. PICK next : next = [run[p] EXCEPT !.pc = "discover"]
    OBVIOUS
  <2>2. /\ next \in RunStates /\ next.pc = "discover"
        /\ next.error = run[p].error /\ Keeps(next, run[p])
    BY <1>1, <2>1, PhaseTyped DEF Phases
  <2>3. Good(next)
    BY <1>1, <2>2
       DEF Good, Recorded, Ended, Reported, Resumption, Held, Early, Closed, Ends, Keeps
  <2> QED
    BY <1>1, <1>2, <2>1, <2>2, <2>3, UnlockedStep DEF Held, Configure, Goes
<1>3. ASSUME NEW error \in {Other} \cup CtxErrors(p),
             Becomes(p, [Over(run[p], "exit") EXCEPT !.error = error])
      PROVE  Agreement'
  <2>1. error \in Errors /\ error # NoError /\ error.kind = "other"
    BY <1>1, ErrorsTyped, InterruptedTyped DEF CtxErrors, Other, Error
  <2>2. PICK r : r = Over(run[p], "exit")
    OBVIOUS
  <2>3. PICK next : next = [r EXCEPT !.error = error]
    OBVIOUS
  <2>4. /\ next \in RunStates /\ next.pc = "exit" /\ next.error = error
        /\ next.noCapacity = run[p].noCapacity /\ next.saved = run[p].saved
        /\ next.told = run[p].told /\ next.undelivered = run[p].undelivered
    BY <1>1, <2>1, <2>2, <2>3, OverTyped, ErrorTyped DEF Keeps, Phases
  <2>5. Good(next)
    BY <1>1, <2>1, <2>4
       DEF Good, Recorded, Ended, Reported, Resumption, Held, Early, Closed, Ends, Keeps
  <2> QED
    BY <1>1, <1>3, <2>2, <2>3, <2>4, <2>5, UnlockedStep DEF Held, Configure
<1> QED
  BY <1>2, <1>3 DEF Configure

LEMMA DiscoverAgrees ==
    ASSUME Agreement, NEW p \in Runs, Discover(p)
    PROVE  Agreement'
<1>1. Good(run[p]) /\ run[p] \in RunStates /\ run[p].pc = "discover"
  BY DEF Agreement, Good, Discover, At
<1>2. PICK r : r = [run[p] EXCEPT !.pc = "announce"]
  OBVIOUS
<1>3. r \in RunStates /\ r.pc = "announce" /\ Keeps(r, run[p])
  BY <1>1, <1>2, PhaseTyped DEF Phases
<1>4. PICK next : /\ Becomes(p, next)
                  /\ \/ \E t \in Targets : next = [r EXCEPT !.target = t]
                     \/ \E error \in {Other, Error("none", "invalid")} \cup CtxErrors(p) :
                           next = [r EXCEPT !.error = error]
  BY <1>2 DEF Discover
<1>5. /\ next \in RunStates /\ next.pc = r.pc /\ Keeps(next, r)
      /\ next.error = NoError => next.target \in Targets
  <2>1. CASE \E t \in Targets : next = [r EXCEPT !.target = t]
    BY <1>3, <2>1 DEF RunStates, Keeps
  <2>2. CASE \E error \in {Other, Error("none", "invalid")} \cup CtxErrors(p) :
                next = [r EXCEPT !.error = error]
    <3>1. PICK error \in {Other, Error("none", "invalid")} \cup CtxErrors(p) :
             next = [r EXCEPT !.error = error]
      BY <2>2
    <3>2. error \in Errors /\ error # NoError
      BY <1>1, ErrorsTyped, InterruptedTyped
         DEF CtxErrors, NoError, Error, Errors, Causes, Kinds
    <3> QED
      BY <1>3, <3>1, <3>2, ErrorTyped
  <2> QED
    BY <1>4, <2>1, <2>2
<1>6. Good(next)
  BY <1>1, <1>3, <1>5
     DEF Good, Recorded, Ended, Reported, Resumption, Held, Early, Closed, Ends, Keeps
<1> QED
  BY <1>1, <1>3, <1>4, <1>5, <1>6, UnlockedStep DEF Held, Discover

LEMMA AnnounceAgrees ==
    ASSUME Agreement, NEW p \in Runs, Announce(p)
    PROVE  Agreement'
<1>1. Good(run[p]) /\ run[p] \in RunStates /\ run[p].pc = "announce"
  BY DEF Agreement, Good, Announce, At
<1>2. PICK trouble \in BOOLEAN :
         IF run[p].error = NoError
         THEN Becomes(p, [Told(p, "run_started", trouble) EXCEPT !.pc = "lock"])
         ELSE Becomes(p, Over(Told(p, "run_started", trouble), "return"))
  BY DEF Announce, Notify, NotifyAndReturn, Troubles
<1>3. PICK r : r = Told(p, "run_started", trouble)
  OBVIOUS
<1>4. /\ r \in RunStates /\ r.error = run[p].error /\ r.target = run[p].target
      /\ r.told = {"run_started"} /\ r.noCapacity = run[p].noCapacity
      /\ r.saved = run[p].saved /\ r.resumes = run[p].resumes /\ r.resumed = run[p].resumed
  <2>1. run[p].told = {} /\ "run_started" \in Tracked
    BY <1>1 DEF Good, Reported, Tracked
  <2> QED
    BY <1>1, <1>3, <2>1, ToldTyped
<1>5. CASE run[p].error = NoError
  <2>1. PICK next : next = [r EXCEPT !.pc = "lock"]
    OBVIOUS
  <2>2. /\ next \in RunStates /\ next.pc = "lock" /\ next.error = r.error
        /\ next.target = r.target /\ Keeps(next, r)
    BY <1>4, <2>1, PhaseTyped DEF Phases
  <2>3. Good(next) /\ next.target \in Targets
    BY <1>1, <1>4, <1>5, <2>2
       DEF Good, Recorded, Ended, Reported, Resumption, Held, Early, Closed, Ends, Keeps
  <2> QED
    BY <1>1, <1>2, <1>3, <1>5, <2>1, <2>2, <2>3, UnlockedStep DEF Held, Announce
<1>6. CASE run[p].error # NoError
  <2>1. PICK next : next = Over(r, "return")
    OBVIOUS
  <2>2. /\ next \in RunStates /\ next.pc = "return" /\ next.error = r.error
        /\ next.noCapacity = r.noCapacity /\ next.saved = r.saved /\ next.told = r.told
    BY <1>4, <2>1, OverTyped DEF Phases
  <2>3. Good(next)
    BY <1>1, <1>4, <1>6, <2>2
       DEF Good, Recorded, Ended, Reported, Resumption, Held, Early, Closed, Ends, Keeps
  <2> QED
    BY <1>1, <1>2, <1>3, <1>6, <2>1, <2>2, <2>3, UnlockedStep DEF Held, Announce
<1> QED
  BY <1>5, <1>6

LEMMA TakeLockAgrees ==
    ASSUME Agreement, NEW p \in Runs, TakeLock(p)
    PROVE  Agreement'
<1> DEFINE target == run[p].target
           found == record[target] = "waiting"
<1>1. /\ Shared /\ run \in [Runs -> RunStates] /\ Good(run[p]) /\ Holds(p, run[p])
      /\ run[p] \in RunStates /\ run[p].pc = "lock" /\ target \in Targets
  BY DEF Agreement, TakeLock, At, Holds
<1>2. lock[target] = NoRun /\ lock' = [lock EXCEPT ![target] = p]
  BY DEF TakeLock
<1>3. PICK r : r = [run[p] EXCEPT !.pc = "reconcile"]
  OBVIOUS
<1>4. /\ r \in RunStates /\ r.pc = "reconcile" /\ r.error = run[p].error
      /\ r.target = target /\ Keeps(r, run[p])
  BY <1>1, <1>3, PhaseTyped DEF Phases
<1>5. PICK next : next = [r EXCEPT !.foundWaiting = found]
  OBVIOUS
<1>6. /\ next \in RunStates /\ next.pc = "reconcile" /\ next.error = r.error
      /\ next.target = target /\ next.foundWaiting = found
      /\ next.noCapacity = r.noCapacity /\ next.saved = r.saved /\ next.told = r.told
      /\ next.resumes = r.resumes /\ next.resumed = r.resumed
  BY <1>4, <1>5 DEF RunStates
<1>7. Good(next)
  BY <1>1, <1>4, <1>6
     DEF Good, Recorded, Ended, Reported, Resumption, Held, Early, Closed, Ends, Keeps
<1>8. /\ run' \in [Runs -> RunStates] /\ run'[p] = next
      /\ \A q \in Runs \ {p} : run'[q] = run[q]
  <2>1. next = [run[p] EXCEPT !.pc = "reconcile", !.foundWaiting = found]
    BY <1>3, <1>5
  <2>2. Becomes(p, next)
    BY <2>1 DEF TakeLock
  <2> QED
    BY <1>1, <1>6, <2>2 DEF Becomes
<1>9. UNCHANGED <<record, paused>> /\ Shared'
  BY <1>1, <1>2 DEF TakeLock, Shared
<1>10. Holds(p, run[p])'
  <2>1. next.saved = "nothing"
    BY <1>6, <1>7 DEF Good, Recorded, Early
  <2>2. \A t \in Targets : lock[t] # p
    BY <1>1 DEF Holds, Held
  <2>3. lock'[target] = p /\ \A t \in Targets \ {target} : lock'[t] # p
    BY <1>1, <1>2, <2>2 DEF Shared
  <2> QED
    BY <1>1, <1>6, <1>8, <2>1, <2>3 DEF Holds, Held
<1>11. Finds(run[p])'
  BY <1>6, <1>8, <1>9 DEF Finds, Held
<1>12. ASSUME NEW q \in Runs \ {p}
       PROVE  Good(run'[q]) /\ Holds(q, run[q])' /\ Finds(run[q])'
  <2>1. Good(run[q]) /\ Holds(q, run[q]) /\ Finds(run[q])
    BY DEF Agreement
  <2>2. \A t \in Targets : lock'[t] = q <=> lock[t] = q
    BY <1>1, <1>2, CommandAssumption DEF Shared
  <2> QED
    BY <1>8, <1>9, <2>1, <2>2 DEF Holds, Finds
<1> QED
  BY <1>7, <1>8, <1>9, <1>10, <1>11, <1>12
     DEF Agreement, Good, Recorded, Ended, Reported, ClosedBy, Resumption

LEMMA RefuseAgrees ==
    ASSUME Agreement, NEW p \in Runs, Refuse(p)
    PROVE  Agreement'
<1>1. run[p].pc = "lock" /\ run[p].saved # "failed"
  BY DEF Agreement, Good, Recorded, Early, Refuse, At
<1> QED
  BY <1>1, ErrorsTyped, FailingAgrees DEF Refuse

-----------------------------------------------------------------------------
(* Steps that save the record.                                             *)

LEMMA SavedTyped ==
    ASSUME NEW r \in RunStates, NEW saved \in Lifecycles, NEW next,
           next = [r EXCEPT !.saved = saved]
    PROVE  /\ next \in RunStates /\ next.pc = r.pc /\ next.error = r.error
           /\ next.target = r.target /\ next.noCapacity = r.noCapacity
           /\ next.saved = saved /\ next.told = r.told
           /\ next.undelivered = r.undelivered /\ next.noted = r.noted
           /\ next.resumes = r.resumes /\ next.resumed = r.resumed
           /\ next.foundWaiting = r.foundWaiting
BY DEF RunStates

\* What is left of a run that fails and has saved the record.
SavedAndFailed(p, error, saved) == [Failing(p, error) EXCEPT !.saved = saved]

\* Nothing that fails and saves is a cancellation.
LEMMA SaveFailsGood ==
    ASSUME NEW p \in Runs, Good(run[p]), run[p].pc \in Held,
           NEW error \in {Other} \cup GivenUp, NEW saved \in Lifecycles, NEW next,
           next = SavedAndFailed(p, error, saved)
    PROVE  /\ Good(next) /\ next.pc = "return"
           /\ next.target = run[p].target /\ next.saved = saved
<1>1. PICK r : r = Failing(p, error)
  OBVIOUS
<1>2. error \in Errors /\ error # NoError /\ error.kind # "invalid" /\ error.cause # "canceled"
  BY ErrorsTyped
<1>3. Good(r) /\ r \in RunStates /\ r.pc = "return" /\ r.target = run[p].target
  BY <1>1, <1>2, FailingGood DEF Good
<1>4. run[p] \in RunStates
  BY DEF Good
<1>5. r.error = error /\ r.told = run[p].told
  BY <1>1, <1>4 DEF Failing, Over, RunStates
<1>6. /\ next \in RunStates /\ next.pc = r.pc /\ next.error = r.error
      /\ next.target = r.target /\ next.noCapacity = r.noCapacity
      /\ next.saved = saved /\ next.told = r.told
  BY <1>1, <1>3, SavedTyped DEF SavedAndFailed
<1>7. Good(next)
  BY <1>2, <1>3, <1>5, <1>6 DEF Good, Recorded, Ended, Reported, Resumption,
                                Held, Early, Closed, Ends
<1> QED
  BY <1>3, <1>6, <1>7

\* Either the run goes on with the record it has saved, or it fails.
LEMMA SaveAgrees ==
    ASSUME Agreement, NEW p \in Runs, run[p].pc \in Held,
           NEW saved \in Lifecycles, NEW after, NEW error \in {Other} \cup GivenUp,
           Save(p, saved, after, Failing(p, error)), UNCHANGED lock,
           \/ run[p].pc # "reconcile" /\ UNCHANGED paused
           \/ paused' = [paused EXCEPT ![run[p].target] = FALSE],
           LET next == [after EXCEPT !.saved = saved]
           IN  /\ Good(next) /\ next.saved = saved
               /\ next.pc \in (Held \ {"reconcile", "pausing"}) \cup {"return"}
               /\ next.target = run[p].target
    PROVE  Agreement'
<1>1. Good(run[p])
  BY DEF Agreement
<1>2. PICK failed : failed = SavedAndFailed(p, error, saved)
  OBVIOUS
<1>3. /\ Good(failed) /\ failed.pc = "return"
      /\ failed.target = run[p].target /\ failed.saved = saved
  BY <1>1, <1>2, SaveFailsGood
<1>4. PICK otherwise : otherwise = Failing(p, error)
  OBVIOUS
<1>5. /\ Good(otherwise) /\ otherwise.pc = "return"
      /\ otherwise.target = run[p].target /\ otherwise.saved = run[p].saved
  BY <1>1, <1>4, ErrorsTyped, FailingGood
<1>6. PICK next : next = [after EXCEPT !.saved = saved]
  OBVIOUS
<1>7. \/ /\ record' = [record EXCEPT ![run[p].target] = saved]
         /\ Becomes(p, next) \/ Becomes(p, failed)
      \/ UNCHANGED record /\ Becomes(p, otherwise)
  BY <1>2, <1>4, <1>6 DEF Save, SavedAndFailed
<1>8. CASE Becomes(p, next) /\ record' = [record EXCEPT ![run[p].target] = saved]
  BY <1>6, <1>8, Written
<1>9. CASE Becomes(p, failed) /\ record' = [record EXCEPT ![run[p].target] = saved]
  BY <1>3, <1>9, Written
<1>10. CASE Becomes(p, otherwise) /\ UNCHANGED record
  BY <1>5, <1>10, Written
<1> QED
  BY <1>7, <1>8, <1>9, <1>10

LEMMA SaveFailsAgrees ==
    ASSUME Agreement, NEW p \in Runs, run[p].pc \in Held,
           NEW saved \in Lifecycles, NEW error \in {Other} \cup GivenUp,
           Save(p, saved, Failing(p, error), Failing(p, error)), UNCHANGED lock,
           \/ run[p].pc # "reconcile" /\ UNCHANGED paused
           \/ paused' = [paused EXCEPT ![run[p].target] = FALSE]
    PROVE  Agreement'
<1>1. PICK next : next = SavedAndFailed(p, error, saved)
  OBVIOUS
<1>2. Good(next) /\ next.pc = "return" /\ next.target = run[p].target /\ next.saved = saved
  BY <1>1, SaveFailsGood DEF Agreement
<1> QED
  BY <1>1, <1>2, SaveAgrees DEF SavedAndFailed

\* The phases a run goes through under the lock, and what it saves between them.
Proceeds == {<<"watch", "watch", "waiting">>, <<"watch", "found", "provisioning">>,
             <<"launch", "follow", "provisioning">>, <<"rotate", "waiting", "provisioning">>,
             <<"follow", "report", "running">>}

LEMMA ProceedsAgrees ==
    ASSUME Agreement, NEW p \in Runs, NEW pc, NEW saved,
           <<run[p].pc, pc, saved>> \in Proceeds, UNCHANGED <<lock, paused>>,
           Save(p, saved, [run[p] EXCEPT !.pc = pc], Failing(p, Other))
    PROVE  Agreement'
<1>1. Good(run[p]) /\ run[p] \in RunStates
  BY DEF Agreement, Good
<1>2. /\ run[p].pc \in Held \ {"reconcile"} /\ pc \in Held \ {"reconcile", "pausing"}
      /\ pc \in Phases /\ saved \in Lifecycles
  BY DEF Proceeds, Held, Phases, Lifecycles
<1>3. PICK r : r = [run[p] EXCEPT !.pc = pc]
  OBVIOUS
<1>4. /\ r \in RunStates /\ r.pc = pc /\ r.error = run[p].error
      /\ r.target = run[p].target /\ Keeps(r, run[p])
  BY <1>1, <1>2, <1>3, PhaseTyped
<1>5. PICK next : next = [r EXCEPT !.saved = saved]
  OBVIOUS
<1>6. /\ next \in RunStates /\ next.pc = r.pc /\ next.error = r.error
      /\ next.target = r.target /\ next.noCapacity = r.noCapacity
      /\ next.saved = saved /\ next.told = r.told
      /\ next.resumes = r.resumes /\ next.resumed = r.resumed
      /\ next.foundWaiting = r.foundWaiting
  BY <1>2, <1>4, <1>5, SavedTyped
<1>7. Good(next)
  <2>1. \/ run[p].pc = "watch" /\ pc = "watch" /\ saved = "waiting"
        \/ run[p].pc = "watch" /\ pc = "found" /\ saved = "provisioning"
        \/ run[p].pc = "launch" /\ pc = "follow" /\ saved = "provisioning"
        \/ run[p].pc = "rotate" /\ pc = "waiting" /\ saved = "provisioning"
        \/ run[p].pc = "follow" /\ pc = "report" /\ saved = "running"
    BY DEF Proceeds
  <2> QED
    BY <1>1, <1>4, <1>6, <2>1 DEF Good, Recorded, Ended, Reported, Resumption,
                                  Held, Early, Closed, Ends, Keeps, NoError, Error
<1>8. Other \in {Other} \cup GivenUp
  OBVIOUS
<1> QED
  BY <1>2, <1>3, <1>4, <1>5, <1>6, <1>7, <1>8, SaveAgrees

-----------------------------------------------------------------------------
(* Reconciliation.                                                         *)

LEMMA ReconcileAgrees ==
    ASSUME Agreement, NEW p \in Runs, Reconcile(p)
    PROVE  Agreement'
<1> DEFINE waits == record[run[p].target] = "waiting"
           Found(pc) == [run[p] EXCEPT !.resumed = waits, !.pc = pc]
<1>1. /\ Good(run[p]) /\ run[p] \in RunStates /\ run[p].pc = "reconcile"
      /\ run[p].foundWaiting <=> waits
  BY DEF Agreement, Good, Finds, Reconcile, At
<1>2. UNCHANGED lock /\ paused' = [paused EXCEPT ![run[p].target] = FALSE]
  BY DEF Reconcile
<1>3. ASSUME NEW pc \in {"key", "follow"}, NEW saved \in {"provisioning", "running"},
             pc = "key" => saved = "provisioning",
             Save(p, saved, Found(pc), Failing(p, Other))
      PROVE  Agreement'
  <2>1. PICK r1 : r1 = [run[p] EXCEPT !.pc = pc]
    OBVIOUS
  <2>2. /\ r1 \in RunStates /\ r1.pc = pc /\ r1.error = run[p].error
        /\ r1.target = run[p].target /\ Keeps(r1, run[p])
    BY <1>1, <2>1, PhaseTyped DEF Phases
  <2>3. PICK r2 : r2 = [r1 EXCEPT !.resumed = waits]
    OBVIOUS
  <2>4. /\ r2 \in RunStates /\ r2.pc = pc /\ r2.error = r1.error
        /\ r2.target = r1.target /\ r2.noCapacity = r1.noCapacity
        /\ r2.told = r1.told /\ r2.resumes = r1.resumes /\ r2.resumed = waits
        /\ r2.foundWaiting = r1.foundWaiting
    BY <2>2, <2>3 DEF RunStates
  <2>5. r2 = Found(pc)
    BY <2>1, <2>3
  <2>6. PICK next : next = [r2 EXCEPT !.saved = saved]
    OBVIOUS
  <2>7. /\ next \in RunStates /\ next.pc = r2.pc /\ next.error = r2.error
        /\ next.target = r2.target /\ next.noCapacity = r2.noCapacity
        /\ next.saved = saved /\ next.told = r2.told
        /\ next.resumes = r2.resumes /\ next.resumed = r2.resumed
        /\ next.foundWaiting = r2.foundWaiting
    BY <2>4, <2>6, SavedTyped DEF Lifecycles
  <2>8. Good(next)
    <3> HIDE DEF waits
    <3> QED
      BY <1>1, <1>3, <2>2, <2>4, <2>7
         DEF Good, Recorded, Ended, Reported, Resumption, Held, Early, Closed, Ends,
             Keeps
  <2>9. run[p].pc \in Held /\ next.pc \in Held \ {"reconcile", "pausing"} /\ saved \in Lifecycles
    BY <1>1, <2>4, <2>7 DEF Held, Lifecycles
  <2>10. Save(p, saved, r2, Failing(p, Other))
    BY <1>3, <2>5
  <2> HIDE DEF Found, waits
  <2> QED
    BY <1>2, <2>2, <2>4, <2>6, <2>7, <2>8, <2>9, <2>10, SaveAgrees
<1>4. CASE Save(p, "failed", Failing(p, Other), Failing(p, Other))
  BY <1>1, <1>2, <1>4, SaveFailsAgrees DEF Held, Lifecycles
<1> QED
  BY <1>3, <1>4 DEF Reconcile

LEMMA ReadKeyAgrees ==
    ASSUME Agreement, NEW p \in Runs, ReadKey(p)
    PROVE  Agreement'
<1>1. Good(run[p]) /\ run[p] \in RunStates /\ run[p].pc = "key"
  BY DEF Agreement, Good, ReadKey, At
<1>2. CASE Goes(p, "waiting")
  <2>1. PICK next : next = [run[p] EXCEPT !.pc = "waiting"]
    OBVIOUS
  <2>2. /\ next \in RunStates /\ next.pc = "waiting" /\ next.error = run[p].error
        /\ next.target = run[p].target /\ Keeps(next, run[p])
    BY <1>1, <2>1, PhaseTyped DEF Phases
  <2>3. Good(next)
    BY <1>1, <2>2
       DEF Good, Recorded, Ended, Reported, Resumption, Held, Early, Closed, Ends, Keeps
  <2> QED
    BY <1>1, <1>2, <2>1, <2>2, <2>3, GoesOn DEF ReadKey, Goes, Held, Keeps
<1>3. CASE Becomes(p, Failing(p, Other))
  <2>1. run[p].saved # "failed"
    BY <1>1 DEF Good, Recorded
  <2> QED
    BY <1>1, <1>3, <2>1, ErrorsTyped, FailingAgrees DEF ReadKey, Held
<1> QED
  BY <1>2, <1>3 DEF ReadKey

-----------------------------------------------------------------------------
(* Notifications under way.                                                *)

\* What a notification that neither opens nor closes a run changes.
LEMMA Mentioned ==
    ASSUME NEW p \in Runs, run[p] \in RunStates, NEW kind, kind \notin Tracked,
           kind # "resumed", NEW trouble \in BOOLEAN, NEW r, r = Told(p, kind, trouble)
    PROVE  /\ r \in RunStates /\ r.pc = run[p].pc /\ r.error = run[p].error
           /\ r.target = run[p].target /\ r.told = run[p].told
           /\ r.resumes = run[p].resumes /\ r.noCapacity = run[p].noCapacity
           /\ r.saved = run[p].saved /\ r.noted = run[p].noted
           /\ r.resumed = run[p].resumed /\ r.foundWaiting = run[p].foundWaiting
<1>1. r.told = run[p].told \cup ({kind} \cap Tracked)
  BY ToldTyped
<1>2. r.told = run[p].told
  BY <1>1
<1> QED
  BY <1>2, ToldTyped

LEMMA NotifyResumedAgrees ==
    ASSUME Agreement, NEW p \in Runs, NotifyResumed(p)
    PROVE  Agreement'
<1>1. /\ Good(run[p]) /\ run[p] \in RunStates
      /\ run[p].pc = "waiting" /\ run[p].resumed
  BY DEF Agreement, Good, NotifyResumed, At
<1>2. PICK trouble \in BOOLEAN :
         Becomes(p, [Told(p, "resumed", trouble) EXCEPT !.resumed = FALSE])
  BY DEF NotifyResumed, Troubles
<1>3. PICK r : r = Told(p, "resumed", trouble)
  OBVIOUS
<1>4. /\ r \in RunStates /\ r.pc = "waiting" /\ r.error = run[p].error
      /\ r.target = run[p].target /\ r.told = run[p].told /\ r.resumes = 1
      /\ r.noCapacity = run[p].noCapacity /\ r.saved = run[p].saved
      /\ r.foundWaiting
  <2>1. run[p].resumes = 0 /\ run[p].foundWaiting
    BY <1>1 DEF Good, Resumption
  <2>2. r.told = run[p].told \cup ({"resumed"} \cap Tracked)
    BY <1>1, <1>3, ToldTyped
  <2>3. r.told = run[p].told
    BY <2>2 DEF Tracked
  <2> QED
    BY <1>1, <1>3, <2>1, <2>3, ToldTyped
<1>5. PICK next : next = [r EXCEPT !.resumed = FALSE]
  OBVIOUS
<1>6. /\ next \in RunStates /\ next.pc = r.pc /\ next.error = r.error
      /\ next.target = r.target /\ next.told = r.told /\ next.resumes = r.resumes
      /\ next.noCapacity = r.noCapacity /\ next.saved = r.saved
      /\ next.foundWaiting = r.foundWaiting /\ ~next.resumed
  BY <1>4, <1>5 DEF RunStates
<1>7. Good(next)
  BY <1>1, <1>4, <1>6
     DEF Good, Recorded, Ended, Reported, Resumption, Held, Early, Closed, Ends, Keeps
<1> QED
  BY <1>1, <1>2, <1>3, <1>4, <1>5, <1>6, <1>7, GoesOn DEF NotifyResumed, Held

\* The two that only move the run on.
Mentions == {<<"waiting", "waiting", "watch">>, <<"found", "capacity_found", "launch">>}

LEMMA MentionsAgrees ==
    ASSUME Agreement, NEW p \in Runs, NEW kind, NEW pc,
           <<run[p].pc, kind, pc>> \in Mentions, pc = "watch" => ~run[p].resumed,
           Notify(p, kind, pc), UNCHANGED <<record, lock, paused>>
    PROVE  Agreement'
<1>1. Good(run[p]) /\ run[p] \in RunStates
  BY DEF Agreement, Good
<1>2. /\ kind \notin Tracked /\ kind # "resumed" /\ pc \in Phases
      /\ \/ run[p].pc = "waiting" /\ pc = "watch"
         \/ run[p].pc = "found" /\ pc = "launch"
  BY DEF Mentions, Tracked, Phases
<1>3. PICK trouble \in BOOLEAN : Becomes(p, [Told(p, kind, trouble) EXCEPT !.pc = pc])
  BY DEF Notify, Troubles
<1>4. PICK r : r = Told(p, kind, trouble)
  OBVIOUS
<1>5. /\ r \in RunStates /\ r.pc = run[p].pc /\ r.error = run[p].error
      /\ r.target = run[p].target /\ r.told = run[p].told
      /\ r.resumes = run[p].resumes /\ r.noCapacity = run[p].noCapacity
      /\ r.saved = run[p].saved /\ r.noted = run[p].noted
      /\ r.resumed = run[p].resumed /\ r.foundWaiting = run[p].foundWaiting
  BY <1>1, <1>2, <1>4, Mentioned
<1>6. PICK next : next = [r EXCEPT !.pc = pc]
  OBVIOUS
<1>7. /\ next \in RunStates /\ next.pc = pc /\ next.error = r.error
      /\ next.target = r.target /\ Keeps(next, r)
  BY <1>2, <1>5, <1>6, PhaseTyped
<1>8. Good(next)
  BY <1>1, <1>2, <1>5, <1>7
     DEF Good, Recorded, Ended, Reported, Resumption, Held, Early, Closed, Ends, Keeps
<1> QED
  BY <1>1, <1>2, <1>3, <1>4, <1>5, <1>6, <1>7, <1>8, GoesOn DEF Held, Keeps

LEMMA NotifyDegradedAgrees ==
    ASSUME Agreement, NEW p \in Runs, NotifyDegraded(p)
    PROVE  Agreement'
<1> DEFINE once == run[p].once
           pc == IF once THEN "report" ELSE "rotate"
<1>1. Good(run[p]) /\ run[p] \in RunStates /\ run[p].pc = "degraded" /\ once \in BOOLEAN
  BY DEF Agreement, Good, NotifyDegraded, At, RunStates
<1>2. PICK trouble \in BOOLEAN :
         Becomes(p, [Told(p, "degraded", trouble) EXCEPT !.pc = pc, !.noCapacity = once])
  BY DEF NotifyDegraded, Troubles
<1>3. PICK r : r = Told(p, "degraded", trouble)
  OBVIOUS
<1>4. /\ r \in RunStates /\ r.pc = run[p].pc /\ r.error = run[p].error
      /\ r.target = run[p].target /\ r.told = run[p].told
      /\ r.resumes = run[p].resumes /\ r.noCapacity = run[p].noCapacity
      /\ r.saved = run[p].saved /\ r.noted = run[p].noted
      /\ r.resumed = run[p].resumed /\ r.foundWaiting = run[p].foundWaiting
  BY <1>1, <1>3, Mentioned DEF Tracked
<1>5. PICK r2 : r2 = [r EXCEPT !.pc = pc]
  OBVIOUS
<1>6. /\ r2 \in RunStates /\ r2.pc = pc /\ r2.error = r.error
      /\ r2.target = r.target /\ Keeps(r2, r)
  BY <1>4, <1>5, PhaseTyped DEF Phases
<1>7. PICK next : next = [r2 EXCEPT !.noCapacity = once]
  OBVIOUS
<1>8. /\ next \in RunStates /\ next.pc = r2.pc /\ next.error = r2.error
      /\ next.target = r2.target /\ next.saved = r2.saved /\ next.told = r2.told
      /\ next.resumes = r2.resumes /\ next.resumed = r2.resumed
      /\ next.foundWaiting = r2.foundWaiting /\ next.noCapacity = once
  BY <1>1, <1>6, <1>7 DEF RunStates
<1>9. Good(next)
  <2>1. \/ pc = "report" /\ once
        \/ pc = "rotate" /\ ~once
    OBVIOUS
  <2> HIDE DEF pc, once
  <2> QED
    BY <1>1, <1>4, <1>6, <1>8, <2>1
       DEF Good, Recorded, Ended, Reported, Resumption, Held, Early, Closed, Ends,
           Keeps, NoError, Error
<1>10. Becomes(p, next) /\ next.pc \in {"report", "rotate"}
  BY <1>2, <1>3, <1>5, <1>6, <1>7, <1>8
<1> HIDE DEF pc, once
<1> QED
  BY <1>1, <1>4, <1>6, <1>8, <1>9, <1>10, GoesOn DEF NotifyDegraded, Held, Keeps

-----------------------------------------------------------------------------
(* The watch.                                                              *)

LEMMA WatchWaitsAgrees ==
    ASSUME Agreement, NEW p \in Runs, WatchWaits(p)
    PROVE  Agreement'
<1>1. run[p] \in RunStates /\ run[p].pc = "watch"
  BY DEF Agreement, Good, WatchWaits, At
<1>2. [run[p] EXCEPT !.pc = "watch"] = run[p]
  BY <1>1 DEF RunStates
<1>3. Save(p, "waiting", [run[p] EXCEPT !.pc = "watch"], Failing(p, Other))
  BY <1>2 DEF WatchWaits
<1> QED
  BY <1>1, <1>3, ProceedsAgrees DEF Proceeds, WatchWaits

LEMMA WatchEndsAgrees ==
    ASSUME Agreement, NEW p \in Runs, WatchEnds(p)
    PROVE  Agreement'
<1>1. Good(run[p]) /\ run[p] \in RunStates /\ run[p].pc = "watch" /\ UNCHANGED <<lock, paused>>
  BY DEF Agreement, Good, WatchEnds, At
<1>2. CASE Save(p, "provisioning", [run[p] EXCEPT !.pc = "found"], Failing(p, Other))
  BY <1>1, <1>2, ProceedsAgrees DEF Proceeds
<1>3. CASE Save(p, "waiting", [run[p] EXCEPT !.pc = "report", !.noCapacity = TRUE],
                Failing(p, Other))
  <2>1. PICK r1 : r1 = [run[p] EXCEPT !.pc = "report"]
    OBVIOUS
  <2>2. /\ r1 \in RunStates /\ r1.pc = "report" /\ r1.error = run[p].error
        /\ r1.target = run[p].target /\ Keeps(r1, run[p])
    BY <1>1, <2>1, PhaseTyped DEF Phases
  <2>3. PICK r2 : r2 = [r1 EXCEPT !.noCapacity = TRUE]
    OBVIOUS
  <2>4. /\ r2 \in RunStates /\ r2.pc = r1.pc /\ r2.error = r1.error
        /\ r2.target = r1.target /\ r2.told = r1.told /\ r2.noCapacity = TRUE
    BY <2>2, <2>3 DEF RunStates
  <2>5. PICK next : next = [r2 EXCEPT !.saved = "waiting"]
    OBVIOUS
  <2>6. /\ next \in RunStates /\ next.pc = r2.pc /\ next.error = r2.error
        /\ next.target = r2.target /\ next.noCapacity = r2.noCapacity
        /\ next.saved = "waiting" /\ next.told = r2.told
    <3>1. "waiting" \in Lifecycles
      BY DEF Lifecycles
    <3> QED
      BY <2>4, <2>5, <3>1, SavedTyped
  <2>7. Good(next)
    BY <1>1, <2>2, <2>4, <2>6
       DEF Good, Recorded, Ended, Reported, Resumption, Held, Early, Closed, Ends,
           Keeps, NoError, Error
  <2>8. Save(p, "waiting", r2, Failing(p, Other))
    BY <1>3, <2>1, <2>3
  <2> QED
    BY <1>1, <2>2, <2>4, <2>5, <2>6, <2>7, <2>8, SaveAgrees DEF Held, Lifecycles
<1>4. CASE Save(p, "failed", Failing(p, Other), Failing(p, Other))
  BY <1>1, <1>4, SaveFailsAgrees DEF Held, Lifecycles
<1> QED
  BY <1>2, <1>3, <1>4 DEF WatchEnds

\* A run that an interruption has ended has not recorded a failure before.
LEMMA InterruptedAgrees ==
    ASSUME Agreement, NEW p \in Runs, run[p].pc \in Held, run[p].pc \notin Ends, ~Live(p),
           Becomes(p, Failing(p, Interrupted(p))), UNCHANGED <<record, lock, paused>>
    PROVE  Agreement'
<1>1. run[p] \in RunStates /\ run[p].saved # "failed"
  BY DEF Agreement, Good, Recorded
<1>2. /\ Interrupted(p) \in Errors /\ Interrupted(p) # NoError
      /\ Interrupted(p).kind # "invalid"
  BY <1>1, InterruptedTyped
<1> QED
  BY <1>1, <1>2, FailingAgrees

LEMMA WatchInterruptedAgrees ==
    ASSUME Agreement, NEW p \in Runs, WatchInterrupted(p)
    PROVE  Agreement'
<1>1. /\ Good(run[p]) /\ run[p] \in RunStates /\ run[p].pc = "watch" /\ ~Live(p)
      /\ Finds(run[p]) /\ UNCHANGED <<record, lock, paused>>
  BY DEF Agreement, Good, WatchInterrupted, At
<1>2. CASE /\ record[run[p].target] = "waiting"
           /\ Becomes(p, [run[p] EXCEPT !.pc = "pausing", !.error = Interrupted(p)])
  <2>1. PICK r : r = [run[p] EXCEPT !.pc = "pausing"]
    OBVIOUS
  <2>2. /\ r \in RunStates /\ r.pc = "pausing" /\ r.target = run[p].target
        /\ Keeps(r, run[p])
    BY <1>1, <2>1, PhaseTyped DEF Phases
  <2>3. PICK error : error = Interrupted(p)
    OBVIOUS
  <2>4. error \in Errors /\ error.cause # "none" /\ error.kind = "other"
    BY <1>1, <2>3, InterruptedTyped
  <2>5. PICK next : next = [r EXCEPT !.error = error]
    OBVIOUS
  <2>6. /\ next \in RunStates /\ next.pc = r.pc /\ next.error = error
        /\ next.target = r.target /\ Keeps(next, r)
    BY <2>2, <2>4, <2>5, ErrorTyped
  <2>7. Good(next)
    BY <1>1, <2>2, <2>4, <2>6
       DEF Good, Recorded, Ended, Reported, Resumption, Held, Early, Closed, Ends, Keeps
  <2>8. Finds(next)
    BY <1>1, <1>2, <2>2, <2>6 DEF Finds, Held
  <2>9. Becomes(p, next)
    BY <1>2, <2>1, <2>3, <2>5
  <2> QED
    BY <1>1, <2>2, <2>6, <2>7, <2>8, <2>9, LockedStep DEF Held, Keeps
<1>3. CASE Becomes(p, Failing(p, Interrupted(p)))
  BY <1>1, <1>3, InterruptedAgrees DEF Held, Ends, Closed
<1> QED
  BY <1>2, <1>3 DEF WatchInterrupted

LEMMA NotifyPausedAgrees ==
    ASSUME Agreement, NEW p \in Runs, NotifyPaused(p)
    PROVE  Agreement'
<1> DEFINE target == run[p].target
<1>1. /\ Good(run[p]) /\ run[p] \in RunStates /\ run[p].pc = "pausing"
      /\ Shared /\ run \in [Runs -> RunStates] /\ Holds(p, run[p]) /\ Finds(run[p])
      /\ target \in Targets /\ lock[target] = p /\ record[target] = "waiting"
  BY DEF Agreement, Good, NotifyPaused, At, Holds, Finds, Held
<1>2. PICK trouble \in BOOLEAN, heard \in BOOLEAN :
         /\ Becomes(p, Over(Told(p, "paused", trouble), "return"))
         /\ paused' = [paused EXCEPT ![target] = @ \/ heard]
         /\ UNCHANGED <<record, lock>>
  BY DEF NotifyPaused, Troubles
<1>3. PICK r : r = Told(p, "paused", trouble)
  OBVIOUS
<1>4. /\ r \in RunStates /\ r.error = run[p].error /\ r.target = target
      /\ r.told = {"run_started", "paused"} /\ r.noCapacity = run[p].noCapacity
      /\ r.saved = run[p].saved
  <2>1. r.told = run[p].told \cup ({"paused"} \cap Tracked)
    BY <1>1, <1>3, ToldTyped
  <2>2. r.told = {"run_started", "paused"}
    BY <1>1, <2>1 DEF Good, Reported, Held, Tracked
  <2> QED
    BY <1>1, <1>3, <2>2, ToldTyped
<1>5. PICK next : next = Over(r, "return")
  OBVIOUS
<1>6. /\ next \in RunStates /\ next.pc = "return" /\ next.error = r.error
      /\ next.target = r.target /\ next.noCapacity = r.noCapacity
      /\ next.saved = r.saved /\ next.told = r.told
  BY <1>4, <1>5, OverTyped DEF Phases
<1>7. Good(next)
  BY <1>1, <1>4, <1>6 DEF Good, Recorded, Ended, Reported, Resumption, ClosedBy,
                          Held, Early, Closed, Ends, NoError, Error
<1>8. /\ run' \in [Runs -> RunStates] /\ run'[p] = next
      /\ \A q \in Runs \ {p} : run'[q] = run[q]
  BY <1>1, <1>2, <1>3, <1>5, <1>6 DEF Becomes
<1>9. /\ paused' \in [Targets -> BOOLEAN]
      /\ \A t \in Targets \ {target} : paused'[t] = paused[t]
  BY <1>1, <1>2 DEF Shared
<1>10. Shared'
  BY <1>1, <1>2, <1>9 DEF Shared
<1>11. Holds(p, run[p])' /\ Finds(run[p])'
  BY <1>1, <1>2, <1>4, <1>6, <1>8 DEF Holds, Finds, Held
<1>12. ASSUME NEW q \in Runs \ {p}
       PROVE  Good(run'[q]) /\ Holds(q, run[q])' /\ Finds(run[q])'
  <2>1. Good(run[q]) /\ Holds(q, run[q]) /\ Finds(run[q])
    BY DEF Agreement
  <2>2. run[q].pc \in Held => run[q].target # target /\ run[q].target \in Targets
    BY <1>1, <2>1 DEF Holds
  <2> QED
    BY <1>2, <1>8, <1>9, <2>1, <2>2 DEF Holds, Finds, Held
<1> QED
  BY <1>7, <1>8, <1>10, <1>11, <1>12
     DEF Agreement, Good, Recorded, Ended, Reported, ClosedBy, Resumption

-----------------------------------------------------------------------------
(* The launch, and the instance that is followed.                          *)

LEMMA LaunchOutOfCapacityAgrees ==
    ASSUME Agreement, NEW p \in Runs, LaunchOutOfCapacity(p)
    PROVE  Agreement'
<1>1. /\ Good(run[p]) /\ run[p] \in RunStates /\ run[p].pc = "launch"
      /\ Goes(p, "degraded") /\ UNCHANGED <<record, lock, paused>>
  BY DEF Agreement, Good, LaunchOutOfCapacity, At
<1>2. PICK next : next = [run[p] EXCEPT !.pc = "degraded"]
  OBVIOUS
<1>3. /\ next \in RunStates /\ next.pc = "degraded" /\ next.error = run[p].error
      /\ next.target = run[p].target /\ Keeps(next, run[p])
  BY <1>1, <1>2, PhaseTyped DEF Phases
<1>4. Good(next)
  BY <1>1, <1>3
     DEF Good, Recorded, Ended, Reported, Resumption, Held, Early, Closed, Ends, Keeps
<1> QED
  BY <1>1, <1>2, <1>3, <1>4, GoesOn DEF Goes, Held, Keeps

LEMMA LaunchAgrees ==
    ASSUME Agreement, NEW p \in Runs,
           LaunchAccepted(p) \/ LaunchFails(p) \/ LimitUnclear(p)
    PROVE  Agreement'
<1>1. run[p].pc = "launch" /\ run[p].saved # "failed" /\ UNCHANGED <<lock, paused>>
  BY DEF Agreement, Good, Recorded, LaunchAccepted, LaunchFails, LimitUnclear, At
<1>2. CASE LaunchAccepted(p)
  BY <1>1, <1>2, ProceedsAgrees DEF LaunchAccepted, Proceeds
<1>3. CASE LaunchFails(p)
  <2>1. PICK error \in {Other} \cup GivenUp :
           Save(p, "failed", Failing(p, error), Failing(p, error))
    BY <1>3 DEF LaunchFails
  <2> QED
    BY <1>1, <2>1, SaveFailsAgrees DEF Held, Lifecycles
<1>4. CASE LimitUnclear(p)
  <2>1. PICK error \in {Other} \cup GivenUp : Becomes(p, Failing(p, error))
    BY <1>4 DEF LimitUnclear
  <2>2. UNCHANGED record
    BY <1>4 DEF LimitUnclear
  <2> QED
    BY <1>1, <2>1, <2>2, ErrorsTyped, FailingAgrees DEF Held
<1> QED
  BY <1>2, <1>3, <1>4

LEMMA FollowAgrees ==
    ASSUME Agreement, NEW p \in Runs, InstanceRuns(p) \/ InstanceLost(p) \/ Rotate(p)
    PROVE  Agreement'
<1>1. CASE InstanceRuns(p)
  BY <1>1, ProceedsAgrees DEF InstanceRuns, At, Proceeds
<1>2. CASE InstanceLost(p)
  <2>1. run[p].pc \in Held \ {"reconcile"} /\ "failed" \in Lifecycles
    BY <1>2 DEF InstanceLost, At, Held, Lifecycles
  <2> QED
    BY <1>2, <2>1, SaveFailsAgrees DEF InstanceLost
<1>3. CASE Rotate(p)
  BY <1>3, ProceedsAgrees DEF Rotate, At, Proceeds
<1> QED
  BY <1>1, <1>2, <1>3

LEMMA LaunchInterruptedAgrees ==
    ASSUME Agreement, NEW p \in Runs, LaunchInterrupted(p)
    PROVE  Agreement'
BY InterruptedAgrees DEF LaunchInterrupted, Held, Ends, Closed

-----------------------------------------------------------------------------
(* The end.                                                                *)

LEMMA ReportAgrees ==
    ASSUME Agreement, NEW p \in Runs, Report(p)
    PROVE  Agreement'
<1>1. /\ Good(run[p]) /\ run[p] \in RunStates /\ run[p].pc = "report"
      /\ UNCHANGED <<record, lock, paused>>
  BY DEF Agreement, Good, Report, At
<1>2. run[p].told = {"run_started"} /\ run[p].error = NoError
  BY <1>1 DEF Good, Reported, Ended, Held, Closed
<1>3. CASE run[p].noCapacity
  <2>1. PICK next : next = Over(run[p], "return")
    OBVIOUS
  <2>2. /\ next \in RunStates /\ next.pc = "return" /\ next.error = run[p].error
        /\ next.target = run[p].target /\ next.noCapacity = run[p].noCapacity
        /\ next.saved = run[p].saved /\ next.told = run[p].told
    BY <1>1, <2>1, OverTyped DEF Phases
  <2>3. Good(next)
    BY <1>1, <1>2, <1>3, <2>2 DEF Good, Recorded, Ended, Reported, Resumption, ClosedBy,
                                  Held, Early, Closed, Ends
  <2> QED
    BY <1>1, <1>3, <2>1, <2>2, <2>3, GoesOn DEF Report, Held
<1>4. CASE ~run[p].noCapacity
  <2>1. PICK trouble \in BOOLEAN :
           Becomes(p, Over(Told(p, "instance_running", trouble), "return"))
    BY <1>4 DEF Report, NotifyAndReturn, Troubles
  <2>2. PICK r : r = Told(p, "instance_running", trouble)
    OBVIOUS
  <2>3. r.told = run[p].told \cup ({"instance_running"} \cap Tracked)
    BY <1>1, <2>2, ToldTyped
  <2>4. r.told = {"run_started", "instance_running"}
    BY <1>2, <2>3 DEF Tracked
  <2>5. /\ r \in RunStates /\ r.error = run[p].error /\ r.target = run[p].target
        /\ r.noCapacity = run[p].noCapacity /\ r.saved = run[p].saved
    BY <1>1, <2>2, ToldTyped
  <2>6. PICK next : next = Over(r, "return")
    OBVIOUS
  <2>7. /\ next \in RunStates /\ next.pc = "return" /\ next.error = r.error
        /\ next.target = r.target /\ next.noCapacity = r.noCapacity
        /\ next.saved = r.saved /\ next.told = r.told
    BY <2>5, <2>6, OverTyped DEF Phases
  <2>8. Good(next)
    BY <1>1, <1>2, <1>4, <2>4, <2>5, <2>7
       DEF Good, Recorded, Ended, Reported, Resumption, ClosedBy, Held, Early, Closed, Ends
  <2> QED
    BY <1>1, <2>1, <2>2, <2>5, <2>6, <2>7, <2>8, GoesOn DEF Held
<1> QED
  BY <1>3, <1>4

\* The lock is let go, by the run or with its process.
LEMMA Releases ==
    ASSUME Agreement, NEW p \in Runs, NEW next, Becomes(p, next), Good(next),
           next.pc \notin Held \cup {"lock", "return"},
           lock' = [t \in Targets |-> IF lock[t] = p THEN NoRun ELSE lock[t]],
           UNCHANGED <<record, paused>>
    PROVE  Agreement'
<1>1. Shared /\ run \in [Runs -> RunStates]
  BY DEF Agreement
<1>2. Shared'
  BY <1>1 DEF Shared
<1>3. /\ run' \in [Runs -> RunStates] /\ run'[p] = next
      /\ \A q \in Runs \ {p} : run'[q] = run[q]
  BY <1>1 DEF Becomes, Good
<1>4. \A t \in Targets : lock'[t] # p
  BY CommandAssumption
<1>5. Holds(p, run[p])' /\ Finds(run[p])'
  BY <1>3, <1>4 DEF Holds, Finds, Held
<1>6. ASSUME NEW q \in Runs \ {p}
      PROVE  Good(run'[q]) /\ Holds(q, run[q])' /\ Finds(run[q])'
  <2>1. Good(run[q]) /\ Holds(q, run[q]) /\ Finds(run[q])
    BY DEF Agreement
  <2>2. \A t \in Targets : lock'[t] = q <=> lock[t] = q
    BY CommandAssumption
  <2> QED
    BY <1>3, <2>1, <2>2 DEF Holds, Finds, Held
<1> QED
  BY <1>2, <1>3, <1>5, <1>6
     DEF Agreement, Good, Recorded, Ended, Reported, ClosedBy, Resumption

LEMMA ReturnAgrees ==
    ASSUME Agreement, NEW p \in Runs, Return(p)
    PROVE  Agreement'
<1> DEFINE failed == run[p].error # NoError /\ "paused" \notin run[p].told
           pc == IF failed THEN "terminal" ELSE "exit"
<1>1. Good(run[p]) /\ run[p] \in RunStates /\ run[p].pc = "return"
  BY DEF Agreement, Good, Return, At
<1>2. PICK r1 : r1 = [run[p] EXCEPT !.pc = pc]
  OBVIOUS
<1>3. /\ r1 \in RunStates /\ r1.pc = pc /\ r1.error = run[p].error /\ Keeps(r1, run[p])
  BY <1>1, <1>2, PhaseTyped DEF Phases
<1>4. PICK next : next = [r1 EXCEPT !.noted = run[p].undelivered, !.target = NoTarget]
  OBVIOUS
<1>5. /\ next \in RunStates /\ next.pc = r1.pc /\ next.error = r1.error
      /\ next.noCapacity = r1.noCapacity /\ next.saved = r1.saved /\ next.told = r1.told
      /\ next.undelivered = r1.undelivered /\ next.noted = run[p].undelivered
  BY <1>1, <1>3, <1>4 DEF RunStates
<1>6. Good(next)
  <2>1. \/ pc = "terminal" /\ run[p].error # NoError /\ run[p].told = {"run_started"}
        \/ pc = "exit" /\ ClosedBy(run[p])
    <3>1. /\ "terminal_failure" \notin run[p].told
          /\ \/ ClosedBy(run[p])
             \/ run[p].error # NoError /\ run[p].told = {"run_started"}
      BY <1>1 DEF Good, Reported
    <3> QED
      BY <3>1 DEF ClosedBy
  <2> HIDE DEF failed, pc
  <2> QED
    BY <1>1, <1>3, <1>5, <2>1 DEF Good, Recorded, Ended, Reported, Resumption, ClosedBy,
                                  Held, Early, Closed, Ends, Keeps
<1>7. Becomes(p, next)
  <2>1. next = [run[p] EXCEPT !.noted = run[p].undelivered, !.pc = pc, !.target = NoTarget]
    BY <1>1, <1>2, <1>4 DEF RunStates
  <2> QED
    BY <2>1 DEF Return
<1>8. next.pc \in {"terminal", "exit"}
  BY <1>3, <1>5
<1> QED
  BY <1>6, <1>7, <1>8, Releases DEF Return, Held

LEMMA NotifyFailureAgrees ==
    ASSUME Agreement, NEW p \in Runs, NotifyFailure(p)
    PROVE  Agreement'
<1>1. /\ Good(run[p]) /\ run[p] \in RunStates /\ run[p].pc = "terminal"
      /\ UNCHANGED <<record, lock, paused>>
  BY DEF Agreement, Good, NotifyFailure, At
<1>2. PICK trouble \in BOOLEAN :
         Becomes(p, [Told(p, "terminal_failure", trouble)
                        EXCEPT !.pc = "exit", !.noted = @ \/ trouble])
  BY DEF NotifyFailure, Troubles
<1>3. PICK r : r = Told(p, "terminal_failure", trouble)
  OBVIOUS
<1>4. /\ r \in RunStates /\ r.error = run[p].error /\ r.noted = run[p].noted
      /\ r.noCapacity = run[p].noCapacity /\ r.saved = run[p].saved
      /\ r.undelivered = (run[p].undelivered \/ trouble)
  BY <1>1, <1>3, ToldTyped
<1>5. r.told = {"run_started", "terminal_failure"}
  <2>1. r.told = run[p].told \cup ({"terminal_failure"} \cap Tracked)
    BY <1>1, <1>3, ToldTyped
  <2> QED
    BY <1>1, <2>1 DEF Good, Reported, Tracked
<1>6. PICK r2 : r2 = [r EXCEPT !.pc = "exit"]
  OBVIOUS
<1>7. r2 \in RunStates /\ r2.pc = "exit" /\ r2.error = r.error /\ Keeps(r2, r)
  BY <1>4, <1>6, PhaseTyped DEF Phases
<1>8. PICK next : next = [r2 EXCEPT !.noted = @ \/ trouble]
  OBVIOUS
<1>9. /\ next \in RunStates /\ next.pc = "exit" /\ next.error = r2.error
      /\ next.noCapacity = r2.noCapacity /\ next.saved = r2.saved /\ next.told = r2.told
      /\ next.undelivered = r2.undelivered /\ next.noted = (r2.noted \/ trouble)
  BY <1>7, <1>8 DEF RunStates
<1>10. Becomes(p, next)
  BY <1>2, <1>3, <1>4, <1>6, <1>8 DEF RunStates
<1>11. next.undelivered => next.noted
  BY <1>1, <1>4, <1>7, <1>9 DEF Good, Reported, Keeps
<1>12. Good(next)
  BY <1>1, <1>4, <1>5, <1>7, <1>9, <1>11
     DEF Good, Recorded, Ended, Reported, Resumption, ClosedBy, Held, Early, Closed, Ends, Keeps
<1> QED
  BY <1>1, <1>9, <1>10, <1>12, UnlockedStep DEF Held

LEMMA ExitAgrees ==
    ASSUME Agreement, NEW p \in Runs, Exit(p)
    PROVE  Agreement'
<1>1. /\ Good(run[p]) /\ run[p] \in RunStates /\ run[p].pc = "exit"
      /\ UNCHANGED <<record, lock, paused>>
  BY DEF Agreement, Good, Exit, At
<1>2. PICK code \in {CommandCode(run[p].error, run[p].noCapacity), 1} :
         Becomes(p, [run[p] EXCEPT !.pc = "ended", !.code = code])
  BY DEF Exit
<1>3. code \in Codes
  BY DEF CommandCode, Codes
<1>4. PICK r : r = [run[p] EXCEPT !.pc = "ended"]
  OBVIOUS
<1>5. r \in RunStates /\ r.pc = "ended" /\ r.error = run[p].error /\ Keeps(r, run[p])
  BY <1>1, <1>4, PhaseTyped DEF Phases
<1>6. PICK next : next = [r EXCEPT !.code = code]
  OBVIOUS
<1>7. /\ next \in RunStates /\ next.pc = "ended" /\ next.error = r.error
      /\ next.noCapacity = r.noCapacity /\ next.saved = r.saved /\ next.told = r.told
      /\ next.undelivered = r.undelivered /\ next.noted = r.noted /\ next.code = code
  BY <1>3, <1>5, <1>6 DEF RunStates
<1>8. code \in {CommandCode(next.error, next.noCapacity), 1}
  BY <1>5, <1>7 DEF Keeps
<1>9. Good(next)
  BY <1>1, <1>5, <1>7, <1>8
     DEF Good, Recorded, Ended, Reported, Resumption, ClosedBy, Held, Early, Closed, Ends, Keeps
<1>10. Becomes(p, next)
  BY <1>2, <1>4, <1>6
<1> QED
  BY <1>1, <1>7, <1>9, <1>10, UnlockedStep DEF Held

LEMMA IdleGood == Good(Idle)
<1>1. Idle \in RunStates
  BY DEF Idle, RunStates, Phases, NoError, Error, Causes, Kinds, Codes, NoCode
<1>2. /\ Idle.pc = "idle" /\ Idle.error = NoError /\ ~Idle.noCapacity
      /\ Idle.saved = "nothing" /\ Idle.told = {} /\ ~Idle.undelivered
      /\ Idle.resumes = 0 /\ ~Idle.resumed
  BY DEF Idle
<1> QED
  BY <1>1, <1>2
     DEF Good, Recorded, Ended, Reported, Resumption, Held, Early, Closed, Ends, Keeps

LEMMA LeaveAgrees ==
    ASSUME Agreement, NEW p \in Runs, Leave(p) \/ Crash(p)
    PROVE  Agreement'
<1>1. Becomes(p, Idle) /\ Good(Idle) /\ Idle.pc = "idle"
  BY IdleGood DEF Leave, Crash, Idle
<1>2. CASE Leave(p)
  BY <1>1, <1>2, UnlockedStep DEF Leave, At, Held
<1>3. CASE Crash(p)
  BY <1>1, <1>3, Releases DEF Crash, Held
<1> QED
  BY <1>2, <1>3

LEMMA CtxEndsAgrees ==
    ASSUME Agreement, NEW p \in Runs, NEW cause \in {"canceled", "deadline"},
           CtxEnds(p, cause)
    PROVE  Agreement'
<1>1. /\ Good(run[p]) /\ run[p] \in RunStates /\ Holds(p, run[p]) /\ Finds(run[p])
      /\ run[p].pc # "ended" /\ UNCHANGED <<record, lock, paused>>
  BY DEF Agreement, Good, CtxEnds
<1>2. PICK next : next = [run[p] EXCEPT !.ctx = cause]
  OBVIOUS
<1>3. /\ next \in RunStates /\ next.pc = run[p].pc /\ next.error = run[p].error
      /\ next.target = run[p].target /\ Keeps(next, run[p])
  BY <1>1, <1>2 DEF RunStates, Keeps
<1>4. Recorded(next) /\ Ended(next) /\ Resumption(next)
  BY <1>1, <1>3 DEF Good, Recorded, Ended, Resumption, Keeps
<1>5. Reported(next)
  BY <1>1, <1>3 DEF Good, Reported, ClosedBy, Keeps
<1>6. Holds(p, next) /\ Finds(next)
  BY <1>1, <1>3 DEF Holds, Finds, Keeps
<1>7. Becomes(p, next)
  BY <1>2 DEF CtxEnds
<1> QED
  BY <1>1, <1>3, <1>4, <1>5, <1>6, <1>7, Local DEF Good

-----------------------------------------------------------------------------
LEMMA AgreementInit == Init => Agreement
<1> SUFFICES ASSUME Init PROVE Agreement
  OBVIOUS
<1>1. Good(Idle) /\ Idle.pc = "idle" /\ Idle \in RunStates
  BY IdleGood DEF Good, Idle
<1>2. \A p \in Runs : run[p] = Idle
  BY DEF Init
<1>3. Shared
  BY DEF Shared, Init
<1>4. run \in [Runs -> RunStates]
  BY <1>1 DEF Init
<1>5. \A p \in Runs, t \in Targets : lock[t] # p
  BY CommandAssumption DEF Init
<1>6. \A p \in Runs : Holds(p, run[p]) /\ Finds(run[p])
  BY <1>1, <1>2, <1>5 DEF Holds, Finds, Held
<1> QED
  BY <1>1, <1>2, <1>3, <1>4, <1>6 DEF Agreement

LEMMA AgreementStep == Agreement /\ [Next]_vars => Agreement'
<1> SUFFICES ASSUME Agreement, [Next]_vars PROVE Agreement'
  OBVIOUS
<1>1. CASE UNCHANGED vars
  BY <1>1 DEF vars, Agreement, Shared, Good, Recorded, Ended, Reported, ClosedBy,
              Resumption, Holds, Finds
<1>2. ASSUME NEW p \in Runs,
             \/ Start(p) \/ OwnStep(p) \/ ProviderStep(p)
             \/ Signal(p) \/ Deadline(p) \/ Crash(p)
      PROVE  Agreement'
  <2>1. CASE Start(p)
    BY <2>1, StartAgrees
  <2>2. CASE Prepares(p)
    BY <2>2, ConfigureAgrees, DiscoverAgrees, AnnounceAgrees DEF Prepares
  <2>3. CASE Locks(p)
    BY <2>3, TakeLockAgrees, RefuseAgrees DEF Locks
  <2>4. CASE Reconciles(p)
    BY <2>4, ReconcileAgrees, ReadKeyAgrees DEF Reconciles
  <2>5. CASE Notifying(p)
    <3>1. CASE NotifyWaiting(p)
      BY <3>1, MentionsAgrees DEF NotifyWaiting, At, Mentions
    <3>2. CASE NotifyFound(p)
      BY <3>2, MentionsAgrees DEF NotifyFound, At, Mentions
    <3> QED
      BY <2>5, <3>1, <3>2, NotifyResumedAgrees, NotifyPausedAgrees, NotifyDegradedAgrees
         DEF Notifying
  <2>6. CASE Stopping(p) \/ Rotate(p)
    BY <2>6, WatchInterruptedAgrees, LaunchInterruptedAgrees, FollowAgrees DEF Stopping
  <2>7. CASE Ending(p) \/ Crash(p)
    BY <2>7, ReportAgrees, ReturnAgrees, NotifyFailureAgrees, ExitAgrees, LeaveAgrees
       DEF Ending
  <2>8. CASE ProviderStep(p)
    BY <2>8, WatchWaitsAgrees, WatchEndsAgrees, LaunchAgrees, LaunchOutOfCapacityAgrees,
       FollowAgrees DEF ProviderStep
  <2>9. CASE Signal(p) \/ Deadline(p)
    BY <2>9, CtxEndsAgrees DEF Signal, Deadline
  <2> QED
    BY <1>2, <2>1, <2>2, <2>3, <2>4, <2>5, <2>6, <2>7, <2>8, <2>9 DEF OwnStep
<1> QED
  BY <1>1, <1>2 DEF Next

(* Record, lock, error, code and notifications of every run fit together   *)
(* from its announcement to its end: the inductive invariant.              *)
THEOREM CommandAgrees == Spec => []Agreement
<1>1. Init => Agreement
  BY AgreementInit
<1>2. Agreement /\ [Next]_vars => Agreement'
  BY AgreementStep
<1> QED
  BY <1>1, <1>2, PTL DEF Spec

(* The state of the command is always of its type.                         *)
THEOREM CommandTypes == Spec => []TypeOK
<1>1. Agreement => TypeOK
  BY DEF Agreement, Shared, TypeOK
<1> QED
  BY <1>1, CommandAgrees, PTL

LEMMA AgreementRecords == Agreement => RecordIsOwn
BY DEF Agreement, Holds, RecordIsOwn

LEMMA AgreementCodes == Agreement => CodeTellsRecord
<1> SUFFICES ASSUME Agreement, NEW p \in Runs, At(p, "ended")
             PROVE  /\ run[p].code = 0   => run[p].saved = "running"
                    /\ run[p].code = 3   => run[p].saved \in {"waiting", "provisioning"}
                    /\ run[p].code = 130 => run[p].saved # "failed"
                    /\ run[p].code = 2   => run[p].saved = "nothing"
                    /\ run[p].saved = "failed" => run[p].code \in {1, 4, 124}
  BY DEF CodeTellsRecord
<1> DEFINE error == run[p].error
           noCapacity == run[p].noCapacity
           code == run[p].code
           saved == run[p].saved
<1>1. /\ error = NoError => IF noCapacity THEN saved \in {"waiting", "provisioning"}
                            ELSE saved = "running"
      /\ error.kind = "invalid" => saved = "nothing"
      /\ saved = "failed" => error.cause # "canceled"
      /\ code \in {CommandCode(error, noCapacity), 1}
  BY DEF Agreement, Good, Recorded, Ended, At, Ends, Closed
<1>2. CASE error = NoError
  BY <1>1, <1>2 DEF CommandCode
<1>3. CASE error # NoError
  BY <1>1, <1>3 DEF CommandCode
<1> QED
  BY <1>2, <1>3

(* In every account, whatever else runs in it: a run that ends leaves the  *)
(* record its exit code tells of (commandResult, Runner.Run).              *)
THEOREM CodesTellRecords == Spec => []EndsAsRecorded
<1>1. Agreement => EndsAsRecorded
  BY AgreementRecords, AgreementCodes DEF EndsAsRecorded
<1> QED
  BY <1>1, CommandAgrees, PTL

(* Whoever was told that a wait is paused finds it waiting, and a wait     *)
(* that is taken up again is announced once (Runner.notifyPaused).         *)
THEOREM WaitsToldAsRecorded == Spec => []WaitToldAsRecorded
<1>1. Agreement => WaitToldAsRecorded
  BY DEF Agreement, Shared, Good, Resumption, WaitToldAsRecorded, At
<1> QED
  BY <1>1, CommandAgrees, PTL

(* Every announced run closes with one event, and none is lost unnoticed   *)
(* (the deferred TerminalFailure of Runner.Run).                           *)
THEOREM EndsReported == Spec => []EndReported
<1>1. Agreement => EndReported
  <2> SUFFICES ASSUME Agreement, NEW p \in Runs, run[p].pc = "ended"
               PROVE  /\ "run_started" \in run[p].told =>
                            run[p].told \ {"run_started"} \in Closing(p)
                      /\ run[p].undelivered => run[p].noted
    BY DEF EndReported, At
  <2>1. Reported(run[p])
    BY DEF Agreement, Good
  <2>2. run[p].told = {} \/ ClosedBy(run[p])
    BY <2>1 DEF Reported
  <2>3. CASE ClosedBy(run[p])
    <3> DEFINE rest == run[p].told \ {"run_started"}
    <3>1. /\ run[p].told = {"run_started"} => rest = {}
          /\ \A event \in {"instance_running", "terminal_failure", "paused"} :
                run[p].told = {"run_started", event} => rest = {event}
      OBVIOUS
    <3>2. IF run[p].error = NoError
          THEN rest = IF run[p].noCapacity THEN {} ELSE {"instance_running"}
          ELSE \/ rest = {"terminal_failure"}
               \/ rest = {"paused"} /\ run[p].error.cause # "none"
      BY <2>3, <3>1 DEF ClosedBy
    <3> HIDE DEF rest
    <3>3. rest \in Closing(p)
      BY <3>2 DEF Closing
    <3> QED
      BY <2>1, <3>3 DEF Reported, rest
  <2> QED
    BY <2>1, <2>2, <2>3 DEF Reported
<1> QED
  BY <1>1, CommandAgrees, PTL

=============================================================================
