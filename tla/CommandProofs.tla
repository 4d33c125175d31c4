--------------------------- MODULE CommandProofs ---------------------------
(***************************************************************************)
(* What holds of Command for any setups, any number of processes and any   *)
(* time they run.                                                          *)
(***************************************************************************)
EXTENDS Command, FiniteSetTheorems, TLAPS

(* Any member of Next is one of these.                                     *)
ProbeReads == NoPipeline \/ CacheHit \/ CacheMiss

ProbeDoes == UpStep \/ UpFails \/ ChecksPass \/ ChecksFail \/ DownStep \/ DownFails \/ DownReturns

ProbeWrites == Record \/ RecordFails \/ Write

Announces == SendStart \/ SendSuccess

Decides == TargetPrinted \/ GateOpens \/ EngineReturns \/ VerifyPasses

Returns(e) == GateCloses(e) \/ ProbeReturns(e) \/ EngineFails(e)

Outer == <<engine, ending, process>>

(* Every step is one of these.                                             *)
LEMMA Cases ==
  ASSUME [Next]_vars
  PROVE  \/ \E c \in Setups, cmd \in Commands : Start(c, cmd)
         \/ ProbeReads /\ UNCHANGED Outer
         \/ ProbeDoes /\ UNCHANGED Outer
         \/ ProbeWrites /\ UNCHANGED Outer
         \/ \E c \in Setups : AnotherPasses(c) /\ UNCHANGED Outer
         \/ Announces
         \/ Decides
         \/ \E e \in {Plain, KubernetesError} : TargetFails(e) \/ VerifyFails(e)
         \/ \E u \in plan : EngineSucceeds(u)
         \/ DeliveryFails \/ \E e \in StepErrors : Returns(e)
         \/ Signal \/ Killed \/ Tick
         \/ UNCHANGED vars
BY Zenon DEF Next, CommandStep, ProbeStep, ProbeReads, ProbeDoes, ProbeWrites,
             Announces, Decides, Returns, Outer

(* An aborted command exits with 3, or with what a subprocess exited with. *)
LEMMA AbortCode ==
  ASSUME NEW e \in StepErrors, Abort(e)
  PROVE  /\ pc' = "exited" /\ exit' \in 1..255
         /\ exit' # 0
         /\ e = Plain => exit' = 3 /\ author' = author
         /\ e # Plain => author' = "subprocess"
BY CodesAssumption DEF Abort, StepErrors, CodeOf, Ensure, Plain, ExecutorAborted

-----------------------------------------------------------------------------
(* A probe is skipped only for one that passed.                            *)

TimeOK == clock \in Nat /\ clock > 0 /\ passed \in [Setups -> Nat] /\ cfg \in Setups

Past == \A c \in Setups : passed[c] <= clock

(* What the down pipeline has reached is gone.                             *)
Gone ==
  /\ index \in Nat
  /\ pc = "probeDown" /\ Live =>
       \A i \in 1..Len(cfg.down) : i < index => Thing(cfg.down[i]) \notin remains
  /\ pc = "record" => checked /\ Things(cfg.down) \cap remains = {}

RecordedBy(p, e) ==
  e.valid => /\ e.at \in Nat
             /\ \E c \in Setups : Key(c) = e.key /\ p[c] > 0 /\ e.at <= p[c]

RecordInv ==
  TimeOK /\ Past /\ Gone /\ RecordedBy(passed, entry) /\ RecordedBy(passed, cache)

(* What is on record stays so when another probe passes.                   *)
LEMMA StaysRecorded ==
  ASSUME TimeOK, Past, NEW e, RecordedBy(passed, e), NEW d \in Setups
  PROVE  RecordedBy([passed EXCEPT ![d] = clock], e)
<1> SUFFICES ASSUME e.valid
             PROVE  \E c \in Setups : /\ Key(c) = e.key
                                      /\ [passed EXCEPT ![d] = clock][c] > 0
                                      /\ e.at <= [passed EXCEPT ![d] = clock][c]
  BY DEF RecordedBy
<1>1. PICK c \in Setups : Key(c) = e.key /\ passed[c] > 0 /\ e.at <= passed[c]
  BY DEF RecordedBy
<1>2. e.at \in Nat /\ passed[c] <= clock
  BY DEF RecordedBy, Past
<1>3. [passed EXCEPT ![d] = clock][c] >= passed[c]
  BY <1>2 DEF TimeOK
<1> QED
  BY <1>1, <1>2, <1>3 DEF TimeOK

(* A pass is on record as soon as it is counted.                           *)
LEMMA NewlyRecorded ==
  ASSUME TimeOK, NEW d \in Setups
  PROVE  RecordedBy([passed EXCEPT ![d] = clock], Entry(d, clock))
BY DEF TimeOK, RecordedBy, Entry

(* No entry is nobody's.                                                   *)
LEMMA NothingRecorded ==
  ASSUME NEW p
  PROVE  RecordedBy(p, NoEntry)
BY DEF RecordedBy, NoEntry

(* Stamps stay in the past when another probe passes.                      *)
LEMMA PastStays ==
  ASSUME TimeOK, Past, NEW d \in Setups, passed' = [passed EXCEPT ![d] = clock],
         clock' = clock
  PROVE  Past' /\ passed' \in [Setups -> Nat]
BY DEF TimeOK, Past

(* RecordInv is kept by every step.                                        *)
LEMMA RecordStep == RecordInv /\ [Next]_vars => RecordInv'
<1> SUFFICES ASSUME RecordInv, [Next]_vars
             PROVE  RecordInv'
  OBVIOUS
<1> USE DEF RecordInv
<1> DEFINE Same == UNCHANGED <<clock, passed, cfg>>
<1>0. ASSUME Same
      PROVE  TimeOK' /\ Past'
  BY <1>0 DEF TimeOK, Past
<1>1. ASSUME NEW c \in Setups, NEW cmd \in Commands, Start(c, cmd)
      PROVE  RecordInv'
  BY <1>1 DEF Start, memory, TimeOK, Past, Gone
<1>2. ASSUME ProbeReads, UNCHANGED Outer
      PROVE  RecordInv'
  BY <1>2, <1>0 DEF ProbeReads, NoPipeline, CacheHit, CacheMiss, ProbeEnds, GoTo, Gone, place, memory
<1>3. ASSUME ProbeDoes, UNCHANGED Outer
      PROVE  RecordInv'
  <2>1. UNCHANGED <<memory, place>>
    BY <1>3 DEF ProbeDoes, UpStep, UpFails, ChecksPass, ChecksFail, DownStep, DownFails,
                DownReturns, memory
  <2>2. Gone'
    <3>1. CASE UpStep \/ UpFails
      BY <3>1, <2>1 DEF UpStep, UpFails, StepPasses, ProbeEnds, GoTo, Gone
    <3>2. CASE ChecksPass \/ ChecksFail \/ DownFails
      BY <3>2, <2>1 DEF ChecksPass, ChecksFail, DownFails, ProbeEnds, GoTo, Gone
    <3>3. CASE DownStep
      BY <3>3, <2>1 DEF DownStep, Gone, place, Live, Thing
    <3>4. CASE DownReturns
      BY <3>4, <2>1 DEF DownReturns, ProbePassed, ProbeEnds, GoTo, Gone, place, Live, Cached,
                        Thing, Things
    <3> QED
      BY <1>3, <3>1, <3>2, <3>3, <3>4 DEF ProbeDoes
  <2> QED
    BY <2>1, <2>2, <1>0 DEF memory, place
<1>4. ASSUME ProbeWrites, UNCHANGED Outer
      PROVE  RecordInv'
  <2>1. CASE Record
    <3>1. passed' = [passed EXCEPT ![cfg] = clock] /\ clock' = clock /\ cfg' = cfg
      BY <2>1 DEF Record, Gone, place
    <3>2. RecordedBy(passed', entry') /\ RecordedBy(passed', cache')
      BY <2>1, <3>1, NewlyRecorded, NothingRecorded DEF Record, TimeOK
    <3>3. Past' /\ TimeOK'
      BY <3>1, PastStays DEF TimeOK
    <3> QED
      BY <2>1, <3>2, <3>3 DEF Record, GoTo, Gone
  <2>2. CASE RecordFails
    BY <2>2, <1>0 DEF RecordFails, ProbeEnds, Gone, place, memory
  <2>3. CASE Write
    BY <2>3, <1>0, NothingRecorded DEF Write, ProbeEnds, Gone, place, memory
  <2> QED
    BY <1>4, <2>1, <2>2, <2>3 DEF ProbeWrites
<1>5. ASSUME NEW c \in Setups, AnotherPasses(c), UNCHANGED Outer
      PROVE  RecordInv'
  <2>1. passed' = [passed EXCEPT ![c] = clock] /\ clock' = clock /\ cfg' = cfg
    BY <1>5 DEF AnotherPasses, place
  <2>2. RecordedBy(passed', entry') /\ RecordedBy(passed', cache')
    BY <1>5, <2>1, StaysRecorded, NewlyRecorded DEF AnotherPasses
  <2>3. Past' /\ TimeOK'
    BY <2>1, PastStays DEF TimeOK
  <2>4. Gone'
    BY <1>5 DEF AnotherPasses, Gone, place, progress, Live, Thing, Things
  <2> QED
    BY <2>2, <2>3, <2>4
<1>6. CASE Announces \/ Decides
  BY <1>6, <1>0 DEF Announces, Decides, SendStart, SendSuccess, TargetPrinted, GateOpens,
              EngineReturns, AfterEngine, VerifyPasses, Exit, BeginMain,
              place, progress, memory, Gone
<1>7. ASSUME NEW e \in {Plain, KubernetesError}, TargetFails(e) \/ VerifyFails(e)
      PROVE  RecordInv'
  BY <1>7, <1>0 DEF TargetFails, VerifyFails, Exit, place, progress, memory, Gone
<1>8. ASSUME NEW u \in plan, EngineSucceeds(u)
      PROVE  RecordInv'
  BY <1>8, <1>0 DEF EngineSucceeds, probeVars, place, progress, memory, Gone
<1>9. ASSUME DeliveryFails \/ \E e \in StepErrors : Returns(e)
      PROVE  RecordInv'
  BY <1>9, <1>0 DEF DeliveryFails, Returns, GateCloses, ProbeReturns, EngineFails, Abort, Exit,
              place, progress, memory, Gone
<1>10. CASE Signal
  BY <1>10, <1>0 DEF Signal, place, progress, memory, Gone, Live, Thing, Things
<1>11. CASE Killed
  BY <1>11, <1>0, NothingRecorded DEF Killed, place, progress, Gone
<1>12. CASE Tick
  BY <1>12 DEF Tick, place, progress, Gone, Live, Thing, Things, TimeOK, Past
<1>13. CASE UNCHANGED vars
  BY <1>13, <1>0 DEF vars, probeVars, place, progress, memory, Gone, Live, Thing, Things
<1> QED
  BY <1>1, <1>2, <1>3, <1>4, <1>5, <1>6, <1>7, <1>8, <1>9, <1>10, <1>11, <1>12, <1>13, Cases

(* RecordInv holds at the start.                                           *)
LEMMA RecordInit == Init => RecordInv
BY NothingRecorded DEF Init, RecordInv, TimeOK, Past, Gone

(* The step that skips a probe has found the entry of one that passed.     *)
LEMMA SkipStep ==
  ASSUME RecordInv, [Next]_vars, probe # "skipped", probe' = "skipped"
  PROVE  \E c \in Setups : SameProbe(c, cfg) /\ PassedWithin(c, cfg.ttl)
<1>1. CacheHit
  <2>1. ASSUME ~CacheHit
        PROVE  FALSE
    BY <2>1, Cases DEF ProbeReads, ProbeDoes, ProbeWrites, Announces, Decides,
       Start, NoPipeline, CacheMiss, UpStep, UpFails, ChecksPass, ChecksFail, DownStep,
       DownFails, DownReturns, Record, RecordFails, Write, AnotherPasses, SendStart, SendSuccess,
       TargetPrinted, GateOpens, EngineReturns, VerifyPasses, TargetFails, VerifyFails,
       Returns, GateCloses, ProbeReturns, EngineSucceeds, EngineFails, DeliveryFails, Signal, Killed, Tick,
       StepPasses, GoTo, ProbeEnds, vars, probeVars, progress
  <2> QED
    BY <2>1
<1>2. cache.valid /\ cache.key = Key(cfg) /\ clock < cache.at + cfg.ttl
  BY <1>1 DEF CacheHit, Fresh
<1>3. PICK c \in Setups : Key(c) = Key(cfg) /\ passed[c] > 0 /\ cache.at <= passed[c]
  BY <1>2 DEF RecordInv, RecordedBy
<1>4. SameProbe(c, cfg)
  BY <1>3 DEF SameProbe, Key
<1>5. cfg.ttl \in Nat
  BY SetupsAssumption DEF RecordInv, TimeOK, Setup
<1>6. PassedWithin(c, cfg.ttl)
  BY <1>2, <1>3, <1>5 DEF PassedWithin, RecordInv, RecordedBy, TimeOK
<1> QED
  BY <1>4, <1>6

(* A probe is skipped only for one of the same fingerprint that has passed *)
(* within cache_ttl, whatever fails, is killed or writes the file beside.  *)
THEOREM SkipsAreEarned == Spec => SkipIsEarned
<1>1. RecordInv /\ [Next]_vars =>
        [(probe # "skipped" /\ probe' = "skipped") =>
           \E c \in Setups : SameProbe(c, cfg) /\ PassedWithin(c, cfg.ttl)]_vars
  BY SkipStep
<1> QED
  BY <1>1, RecordInit, RecordStep, PTL DEF Spec, SkipIsEarned

-----------------------------------------------------------------------------
(* The gate holds, and the exit code tells how far the command came.       *)

BeforeMain == ProbePoints \cup {"target", "start"}

AfterMain == {"verify", "success"}

(* Nothing is done before the gate, and the gate lets nobody through.      *)
GateInv ==
  /\ pc \in BeforeMain => done = {} /\ outcome = "none"
  /\ probe \in {"none", "skipped", "ok"} \cup Failed
  /\ pc = "probed" => probe # "none"
  /\ (done # {} \/ pc \in {"main"} \cup AfterMain) /\ Gated /\ cfg.failFast
       => probe \in {"ok", "skipped"}

(* GateInv is kept by every step.                                          *)
LEMMA GateStep == GateInv /\ [Next]_vars => GateInv'
<1> SUFFICES ASSUME GateInv, [Next]_vars
             PROVE  GateInv'
  OBVIOUS
<1> USE DEF GateInv, Gated, Live, Failed, BeforeMain, AfterMain, ProbePoints, place, progress, engine
<1>1. ASSUME NEW c \in Setups, NEW cmd \in Commands, Start(c, cmd)
      PROVE  GateInv'
  BY <1>1 DEF Start
<1>2. ASSUME ProbeReads \/ ProbeWrites, UNCHANGED Outer
      PROVE  GateInv'
  BY <1>2 DEF ProbeReads, ProbeWrites, NoPipeline, CacheHit, CacheMiss, Record, RecordFails, Write,
              ProbeEnds, GoTo, Outer
<1>3. ASSUME ProbeDoes, UNCHANGED Outer
      PROVE  GateInv'
  BY <1>3 DEF ProbeDoes, UpStep, UpFails, ChecksPass, ChecksFail, DownStep, DownFails,
              DownReturns, StepPasses, ProbeEnds, GoTo, Outer
<1>4. ASSUME NEW c \in Setups, AnotherPasses(c), UNCHANGED Outer
      PROVE  GateInv'
  BY <1>4 DEF AnotherPasses, Outer
<1>5. CASE Announces
  BY <1>5 DEF Announces, SendStart, SendSuccess, ShouldGate, BeginMain, Exit
<1>6. CASE Decides
  BY <1>6 DEF Decides, TargetPrinted, GateOpens, EngineReturns, AfterEngine, VerifyPasses,
              BeginMain
<1>7. ASSUME NEW e \in {Plain, KubernetesError}, TargetFails(e) \/ VerifyFails(e)
      PROVE  GateInv'
  BY <1>7 DEF TargetFails, VerifyFails, Exit
<1>8. ASSUME NEW u \in plan, EngineSucceeds(u)
      PROVE  GateInv'
  BY <1>8 DEF EngineSucceeds, probeVars
<1>9. CASE DeliveryFails \/ \E e \in StepErrors : Returns(e)
  BY <1>9 DEF DeliveryFails, Returns, GateCloses, ProbeReturns, EngineFails, Abort, Exit,
              Pipeline!Fail
<1>10. CASE Signal \/ Killed \/ Tick
  BY <1>10 DEF Signal, Killed, Tick
<1>11. CASE UNCHANGED vars
  BY <1>11 DEF vars, probeVars
<1> QED
  BY <1>1, <1>2, <1>3, <1>4, <1>5, <1>6, <1>7, <1>8, <1>9, <1>10, <1>11, Cases

(* Under fail_fast a gated command does nothing its probe did not clear.   *)
THEOREM NothingPassesTheGate == Spec => []GateHolds
<1>1. Init => GateInv
  BY DEF Init, GateInv, BeforeMain, AfterMain, ProbePoints
<1>2. GateInv => GateHolds
  BY DEF GateInv, GateHolds
<1> QED
  BY <1>1, <1>2, GateStep, PTL DEF Spec

(* What each point of a process knows of the command's progress.           *)
ProgressInv ==
  /\ pc \in {"target", "start"} => probe = "none"
  /\ pc = "target" => remains = found
  /\ pc = "start" => command # "probe"
  /\ pc \in BeforeMain => ~verified
  /\ pc = "main" => command # "probe" /\ outcome \in {"running", "succeeded"} /\ ~verified
  /\ pc \in AfterMain => command # "probe" /\ outcome = "succeeded"
  /\ pc = "verify" => ShouldAutoVerify /\ ~verified
  /\ pc = "success" /\ ShouldAutoVerify => verified
  /\ pc # "exited" => author = "kzero"

(* What the exit code says, but for the announcement that goes with a 4.   *)
CodeTells ==
  pc = "exited" =>
    /\ exit = 0 <=> AllDone
    /\ author = "subprocess" => outcome = "failed" \/ probe = "broken"
    /\ author = "kzero" =>
         /\ exit \in 0..4
         /\ exit \in {1, 2} => \/ outcome = "succeeded"
                               \/ outcome = "none" /\ probe = "none" /\ remains = found
         /\ exit = 4 => outcome = "failed"

ExitInv == GateInv /\ ProgressInv /\ CodeTells

(* ExitInv is kept by every step.                                          *)
LEMMA ExitStep == ExitInv /\ [Next]_vars => ExitInv'
<1> SUFFICES ASSUME ExitInv, [Next]_vars
             PROVE  ProgressInv' /\ CodeTells'
  BY GateStep DEF ExitInv
<1> USE DEF ExitInv, ProgressInv, CodeTells, AllDone, Gated, Live, Failed, ShouldAutoVerify,
            BeforeMain, AfterMain, ProbePoints, place, progress, engine
<1>1. ASSUME NEW c \in Setups, NEW cmd \in Commands, Start(c, cmd)
      PROVE  ProgressInv' /\ CodeTells'
  BY <1>1 DEF Start
<1>2. ASSUME ProbeReads \/ ProbeWrites \/ ProbeDoes, UNCHANGED Outer
      PROVE  ProgressInv' /\ CodeTells'
  <2>1. pc \in ProbePoints /\ pc' \in ProbePoints
    BY <1>2 DEF ProbeReads, ProbeWrites, ProbeDoes, NoPipeline, CacheHit, CacheMiss, Record,
                RecordFails, Write, UpStep, UpFails, ChecksPass, ChecksFail, DownStep, DownFails,
                DownReturns, StepPasses, ProbeEnds, GoTo
  <2> QED
    BY <1>2, <2>1 DEF Outer, ending, status, process
<1>3. ASSUME NEW c \in Setups, AnotherPasses(c), UNCHANGED Outer
      PROVE  ProgressInv' /\ CodeTells'
  BY <1>3 DEF AnotherPasses, Outer, ending, status, process
<1>4. CASE Announces
  BY <1>4 DEF Announces, SendStart, SendSuccess, BeginMain, Exit, GateInv, status, process
<1>5. CASE Decides
  BY <1>5 DEF Decides, TargetPrinted, GateOpens, EngineReturns, AfterEngine, VerifyPasses,
              BeginMain, ending, status, process
<1>6. ASSUME NEW e \in {Plain, KubernetesError}, TargetFails(e) \/ VerifyFails(e)
      PROVE  ProgressInv' /\ CodeTells'
  BY <1>6 DEF TargetFails, VerifyFails, Exit, CodeOf, Ensure, ConfigError, KubernetesError,
              ExecutorAborted, Plain, GateInv, process
<1>7. ASSUME NEW u \in plan, EngineSucceeds(u)
      PROVE  ProgressInv' /\ CodeTells'
  BY <1>7 DEF EngineSucceeds, Pipeline!Succeed, probeVars, ending, status, process
<1>8. ASSUME NEW e \in StepErrors, Returns(e)
      PROVE  ProgressInv' /\ CodeTells'
  <2>1. CASE GateCloses(e)
    <3>1. e # Plain => probe = "broken"
      BY <2>1 DEF GateCloses, ProbeErrors
    <3> QED
      BY <2>1, <3>1, AbortCode DEF GateCloses, GateInv, process
  <2>2. CASE ProbeReturns(e) /\ probe \in Failed
    <3>1. e # Plain => probe = "broken"
      BY <2>2 DEF ProbeReturns, ProbeErrors
    <3> QED
      BY <2>2, <3>1, AbortCode DEF ProbeReturns, GateInv, process
  <2>3. CASE ProbeReturns(e) /\ probe \notin Failed
    BY <2>3 DEF ProbeReturns, Exit, GateInv, process
  <2>4. CASE EngineFails(e)
    BY <2>4, AbortCode DEF EngineFails, Pipeline!Fail
  <2> QED
    BY <1>8, <2>1, <2>2, <2>3, <2>4 DEF Returns
<1>11. CASE DeliveryFails
  BY <1>11 DEF DeliveryFails, Pipeline!Fail, Exit, CodeOf, NotifyFailed, Ensure, Plain
<1>9. CASE Signal \/ Killed \/ Tick
  BY <1>9 DEF Signal, Killed, Tick, Running, ending, status, process
<1>10. CASE UNCHANGED vars
  BY <1>10 DEF vars, probeVars, ending, status, process
<1> QED
  BY <1>1, <1>2, <1>3, <1>4, <1>5, <1>6, <1>7, <1>8, <1>9, <1>10, <1>11, Cases

(* In every reachable state what has been achieved fits the place.         *)
LEMMA ExitHolds == Spec => []ExitInv
<1>1. Init => ExitInv
  BY DEF Init, ExitInv, GateInv, ProgressInv, CodeTells, BeforeMain, AfterMain, ProbePoints
<1> QED
  BY <1>1, ExitStep, PTL DEF Spec

-----------------------------------------------------------------------------
(* Types.                                                                  *)

(* What TypeOK says of all that is not a flag, part by part.               *)
PlaceOK ==
  /\ cfg \in Setups /\ command \in Commands
  /\ pc \in ProbePoints \cup {"idle", "target", "start", "main", "verify", "success",
                              "exited", "killed"}
  /\ index \in Nat \ {0} /\ ctx \in {"live", "signal"}
  /\ probe \in {"none", "skipped", "ok"} \cup Failed

MemoryOK ==
  /\ entry \in Entries /\ cache \in Entries
  /\ clock \in Nat /\ passed \in [Setups -> Nat]

WorldOK == remains \subseteq Clusters \X Refs /\ found \subseteq Clusters \X Refs

EngineOK ==
  /\ plan \subseteq Unit /\ done \subseteq plan
  /\ outcome \in {"none", "running", "succeeded", "failed"}

EndingOK ==
  /\ sent \in Seq({"start", "failure", "success"})
  /\ exit \in 0..255 /\ author \in {"kzero", "subprocess"}
  /\ starts \in 0..MaxStarts

DataOK == PlaceOK /\ MemoryOK /\ WorldOK /\ EngineOK /\ EndingOK

(* While a probe sets up, it is at a step of its pipeline.                 *)
AtStep == pc = "probeUp" => index \in 1..Len(cfg.up)

(* A setup has finitely many steps, each a thing on its cluster.           *)
LEMMA SetupType ==
  ASSUME NEW c \in Setups
  PROVE  /\ Len(c.up) \in Nat /\ Len(c.down) \in Nat
         /\ c.up # << >> => Len(c.up) > 0
         /\ \A i \in 1..Len(c.up) : <<c.cluster, c.up[i]>> \in Clusters \X Refs
         /\ Key(c) \in Keys
<1>1. /\ c.up \in Seq(Refs) /\ c.down \in Seq(Refs) /\ c.cluster \in Clusters
      /\ c.name \in Names /\ c.checks \subseteq Checks
  BY SetupsAssumption DEF Setup
<1>2. Len(c.up) \in Nat /\ Len(c.down) \in Nat /\ (c.up # << >> => Len(c.up) > 0)
  BY <1>1
<1>3. \A i \in 1..Len(c.up) : c.up[i] \in Refs
  BY <1>1
<1>4. Key(c) \in Keys
  BY <1>1 DEF Key, Keys
<1> QED
  BY <1>1, <1>2, <1>3, <1>4

(* What WriteOK makes is an entry, and none is one as well.                *)
LEMMA EntryType ==
  ASSUME NEW c \in Setups, NEW t \in Nat
  PROVE  Entry(c, t) \in Entries /\ NoEntry \in Entries
BY SetupType DEF Entry, Entries, NoEntry

(* No step leaves a flag that is not a Boolean.                            *)
LEMMA FlagsStep == FlagsOK /\ [Next]_vars => FlagsOK'
<1> SUFFICES ASSUME FlagsOK, [Next]_vars
             PROVE  FlagsOK'
  OBVIOUS
<1> USE DEF FlagsOK, place, progress, memory, engine, ending, status, process, probeVars
<1>1. CASE UNCHANGED <<checked, verified>>
  BY <1>1, Zenon
<1>2. CASE \E c \in Setups, cmd \in Commands : Start(c, cmd)
  BY <1>2, Zenon DEF Start
<1>3. CASE (ChecksPass \/ ProbeReads \/ ProbeDoes \/ ProbeWrites) /\ UNCHANGED Outer
  BY <1>3, Zenon DEF ProbeReads, ProbeDoes, ProbeWrites, NoPipeline, CacheHit, CacheMiss, UpStep,
     UpFails, ChecksPass, ChecksFail, DownStep, DownFails, DownReturns, Record, RecordFails, Write,
     Outer
<1>4. CASE VerifyPasses
  BY <1>4, Zenon DEF VerifyPasses
<1>5. CASE TargetPrinted \/ GateOpens \/ EngineReturns \/ Announces
  BY <1>5, <1>1, Zenon DEF TargetPrinted, GateOpens, EngineReturns, Announces, SendStart,
     SendSuccess
<1>6. CASE \/ \E c \in Setups : AnotherPasses(c) /\ UNCHANGED Outer
           \/ Signal \/ Killed \/ Tick \/ UNCHANGED vars
  BY <1>6, <1>1, Zenon DEF AnotherPasses, Outer, Signal, Killed, Tick, vars
<1>7. CASE \/ \E e \in {Plain, KubernetesError} : TargetFails(e) \/ VerifyFails(e)
           \/ \E u \in plan : EngineSucceeds(u)
           \/ DeliveryFails \/ \E e \in StepErrors : Returns(e)
  BY <1>7, <1>1, Zenon DEF TargetFails, VerifyFails, EngineSucceeds, DeliveryFails, Returns,
     GateCloses, ProbeReturns, EngineFails
<1> QED
  BY <1>2, <1>3, <1>4, <1>5, <1>6, <1>7, Cases, Zenon DEF Decides

(* Everything else keeps its type.                                         *)
LEMMA DataStep == DataOK /\ AtStep /\ [Next]_vars => DataOK' /\ AtStep'
<1> SUFFICES ASSUME DataOK, AtStep, [Next]_vars
             PROVE  DataOK' /\ AtStep'
  OBVIOUS
<1> USE DEF DataOK, PlaceOK, MemoryOK, WorldOK, EngineOK, EndingOK, AtStep,
            ProbePoints, Failed, place, progress, memory, engine, ending, status, process, Outer
<1>1. ASSUME NEW c \in Setups, NEW cmd \in Commands, Start(c, cmd)
      PROVE  DataOK' /\ AtStep'
  <2>1. plan' \subseteq Unit
    BY <1>1 DEF Start, PlanOf, PhaseUnits, UnitAt, Unit, Phases, Kinds
  <2>2. starts' \in 0..MaxStarts
    BY <1>1, BoundsAssumption DEF Start
  <2> QED
    BY <1>1, <2>1, <2>2 DEF Start
<1>2. ASSUME ProbeReads, UNCHANGED Outer
      PROVE  DataOK' /\ AtStep'
  BY <1>2, SetupType DEF ProbeReads, NoPipeline, CacheHit, CacheMiss, ProbeEnds, GoTo
<1>3. ASSUME UpStep \/ UpFails, UNCHANGED Outer
      PROVE  DataOK' /\ AtStep'
  <2>1. remains' \subseteq Clusters \X Refs
    BY <1>3, SetupType DEF UpStep, UpFails, Thing
  <2>2. CASE UpStep
    BY <1>3, <2>1, <2>2, SetupType DEF UpStep, StepPasses, GoTo
  <2>3. CASE UpFails
    BY <1>3, <2>1, <2>3 DEF UpFails, ProbeEnds
  <2> QED
    BY <1>3, <2>2, <2>3
<1>4. ASSUME \/ ChecksPass \/ ChecksFail \/ DownStep \/ DownFails \/ DownReturns,
             UNCHANGED Outer
      PROVE  DataOK' /\ AtStep'
  <2>1. remains' \subseteq remains
    BY <1>4 DEF ChecksPass, ChecksFail, DownStep, DownFails, DownReturns
  <2>2. /\ UNCHANGED <<cfg, command, ctx, entry, cache, clock, passed>>
        /\ pc' \in ProbePoints \ {"probeUp"} /\ index' \in Nat \ {0}
        /\ probe' \in {"none", "skipped", "ok"} \cup Failed
    BY <1>4 DEF ChecksPass, ChecksFail, DownStep, DownFails, DownReturns, ProbeEnds, GoTo
  <2> QED
    BY <1>4, <2>1, <2>2
<1>5. ASSUME ProbeWrites, UNCHANGED Outer
      PROVE  DataOK' /\ AtStep'
  <2>1. entry' \in Entries /\ cache' \in Entries /\ passed' \in [Setups -> Nat]
    BY <1>5, EntryType DEF ProbeWrites, Record, RecordFails, Write
  <2>2. /\ UNCHANGED <<cfg, command, ctx, clock, remains>>
        /\ pc' \in ProbePoints \ {"probeUp"} /\ index' \in Nat \ {0}
        /\ probe' \in {"none", "skipped", "ok"} \cup Failed
    BY <1>5 DEF ProbeWrites, Record, RecordFails, Write, ProbeEnds, GoTo
  <2> QED
    BY <1>5, <2>1, <2>2
<1>6. ASSUME NEW c \in Setups, AnotherPasses(c), UNCHANGED Outer
      PROVE  DataOK' /\ AtStep'
  <2>1. cache' \in Entries /\ passed' \in [Setups -> Nat]
    BY <1>6, EntryType DEF AnotherPasses
  <2> QED
    BY <1>6, <2>1 DEF AnotherPasses
<1>7. CASE SendStart
  <2>1. sent' \in Seq({"start", "failure", "success"})
    <3>1. <<"start">> \in Seq({"start", "failure", "success"})
      OBVIOUS
    <3> QED
      BY <1>7, <3>1 DEF SendStart
  <2>2. /\ UNCHANGED <<place, progress, memory, remains, verified, status, process, plan, done>>
        /\ pc' \in {"probe", "main"} /\ outcome' \in {outcome, "running"}
    BY <1>7 DEF SendStart, BeginMain
  <2> QED
    BY <2>1, <2>2
<1>8. CASE SendSuccess
  BY <1>8 DEF SendSuccess, Exit
<1>9. CASE Decides
  <2>1. /\ UNCHANGED <<place, progress, memory, remains, plan, done, sent, status, process>>
        /\ pc' \in {"probe", "start", "main", "verify", "success"}
        /\ outcome' \in {outcome, "running"}
    BY <1>9 DEF Decides, TargetPrinted, GateOpens, EngineReturns, AfterEngine, VerifyPasses,
                BeginMain
  <2> QED
    BY <2>1
<1>10. ASSUME NEW e \in {Plain, KubernetesError}, TargetFails(e) \/ VerifyFails(e)
       PROVE  DataOK' /\ AtStep'
  <2>1. exit' \in {1, 2, 3} /\ UNCHANGED author /\ pc' = "exited"
    BY <1>10 DEF TargetFails, VerifyFails, Exit, CodeOf, Ensure, ConfigError, KubernetesError,
                 ExecutorAborted, Plain
  <2>2. UNCHANGED <<place, progress, memory, remains, engine, sent, process>>
    BY <1>10 DEF TargetFails, VerifyFails
  <2> QED
    BY <2>1, <2>2
<1>11. ASSUME NEW u \in plan, EngineSucceeds(u)
       PROVE  DataOK' /\ AtStep'
  <2>1. /\ UNCHANGED <<probeVars, ending, process, plan>>
        /\ done' \subseteq plan /\ outcome' \in {"running", "succeeded"}
    BY <1>11 DEF EngineSucceeds, Pipeline!Succeed
  <2> QED
    BY <2>1 DEF probeVars
<1>12. CASE DeliveryFails \/ \E e \in StepErrors : EngineFails(e)
  <2>1. sent' \in Seq({"start", "failure", "success"})
    <3>1. sent' \in {sent, Append(sent, "failure")}
      BY <1>12 DEF DeliveryFails, EngineFails
    <3> QED
      BY <3>1
  <2>2. exit' \in 0..255 /\ author' \in {"kzero", "subprocess"} /\ pc' = "exited"
    BY <1>12, AbortCode DEF DeliveryFails, EngineFails, Exit, CodeOf, Ensure, NotifyFailed, Plain
  <2>3. outcome' = "failed" /\ UNCHANGED <<plan, done, place, progress, memory, remains, process>>
    BY <1>12 DEF DeliveryFails, EngineFails, Pipeline!Fail
  <2> QED
    BY <2>1, <2>2, <2>3
<1>16. ASSUME NEW e \in StepErrors, GateCloses(e) \/ ProbeReturns(e)
       PROVE  DataOK' /\ AtStep'
  <2>1. exit' \in 0..255 /\ author' \in {"kzero", "subprocess"} /\ pc' = "exited"
    BY <1>16, AbortCode DEF GateCloses, ProbeReturns, Exit
  <2>2. UNCHANGED <<place, progress, memory, remains, engine, sent, process>>
    BY <1>16 DEF GateCloses, ProbeReturns
  <2> QED
    BY <2>1, <2>2
<1>13. CASE Signal \/ Tick
  <2>1. /\ UNCHANGED <<cfg, command, pc, progress, entry, cache, passed, remains>>
        /\ UNCHANGED <<engine, sent, status, process>>
        /\ ctx' \in {ctx, "signal"} /\ clock' \in {clock, clock + 1}
    BY <1>13 DEF Signal, Tick
  <2> QED
    BY <2>1
<1>14. CASE Killed
  BY <1>14, EntryType DEF Killed
<1>15. CASE UNCHANGED vars
  BY <1>15 DEF vars, probeVars
<1> QED
  BY <1>1, <1>2, <1>3, <1>4, <1>5, <1>6, <1>7, <1>8, <1>9, <1>10, <1>11, <1>12, <1>13, <1>14,
     <1>15, <1>16, Cases DEF ProbeDoes, Announces, Returns

(* Every variable keeps its type.                                          *)
LEMMA TypeHolds == Spec => [](TypeOK /\ DataOK /\ AtStep)
<1>1. Init => FlagsOK
  BY Zenon DEF Init, FlagsOK
<1>2. ASSUME Init
      PROVE  DataOK /\ AtStep
  <2>1. NoEntry \in Entries
    BY DEF Entries
  <2> QED
    BY <1>2, <2>1, BoundsAssumption
       DEF Init, DataOK, PlaceOK, MemoryOK, WorldOK, EngineOK, EndingOK, AtStep
<1>3. FlagsOK /\ DataOK => TypeOK
  BY DEF TypeOK, DataOK, PlaceOK, MemoryOK, WorldOK, EngineOK, EndingOK
<1> QED
  BY <1>1, <1>2, <1>3, FlagsStep, DataStep, PTL DEF Spec

(* Every variable of a process, of its probe and of the world keeps its    *)
(* type, for any setups.                                                   *)
THEOREM TypeCorrect == Spec => []TypeOK
BY TypeHolds, PTL

-----------------------------------------------------------------------------
(* Alerts.                                                                 *)

Started == IF Notifies THEN <<"start">> ELSE << >>

(* What has been sent where the process is.                                *)
Closed ==
  \/ sent \in {<< >>, <<"start">>}
  \/ sent = Append(<<"start">>, "failure") /\ outcome = "failed" /\ exit # 0
  \/ sent = Append(<<"start">>, "success") /\ AllDone /\ outcome = "succeeded" /\ exit = 0

SentInv ==
  /\ pc \in {"idle", "target", "start"} => sent = << >>
  /\ pc \in ProbePoints \cup {"killed"} => sent \in {<< >>, <<"start">>}
  /\ pc \in ProbePoints /\ command # "probe" => sent = Started
  /\ pc \in {"main"} \cup AfterMain => sent = Started
  /\ pc = "exited" => Closed
  /\ pc = "exited" /\ author = "kzero" /\ exit = 4 => sent = Append(<<"start">>, "failure")

(* What is sent stays true as long as nothing it speaks of changes.        *)
LEMMA StaysSent ==
  ASSUME SentInv, UNCHANGED <<cfg, command, sent, pc, outcome, status, probe, verified>>
  PROVE  SentInv'
BY DEF SentInv, Closed, Started, Notifies, Live, AllDone, Gated, ShouldAutoVerify, status

(* SentInv is kept by every step.                                          *)
LEMMA SentStep == DataOK /\ ExitInv /\ SentInv /\ [Next]_vars => SentInv'
<1> SUFFICES ASSUME DataOK, ExitInv, SentInv, [Next]_vars
             PROVE  SentInv'
  OBVIOUS
<1> USE DEF place, progress, memory, engine, ending, status, process, Outer
<1>1. ASSUME NEW c \in Setups, NEW cmd \in Commands, Start(c, cmd)
      PROVE  SentInv'
  BY <1>1 DEF Start, SentInv, ProbePoints, AfterMain
<1>2. ASSUME ProbeReads \/ ProbeWrites \/ ProbeDoes, UNCHANGED Outer
      PROVE  SentInv'
  <2>1. /\ pc \in ProbePoints /\ pc' \in ProbePoints
        /\ UNCHANGED <<cfg, command, sent>>
    BY <1>2 DEF ProbeReads, ProbeWrites, ProbeDoes, NoPipeline, CacheHit, CacheMiss, Record,
                RecordFails, Write, UpStep, UpFails, ChecksPass, ChecksFail, DownStep, DownFails,
                DownReturns, StepPasses, ProbeEnds, GoTo, ProbePoints
  <2> QED
    BY <2>1 DEF SentInv, ProbePoints, AfterMain, Started, Notifies, Live
<1>3. ASSUME NEW c \in Setups, AnotherPasses(c), UNCHANGED Outer
      PROVE  SentInv'
  BY <1>3, StaysSent DEF AnotherPasses
<1>4. CASE SendStart
  <2>1. /\ pc = "start" /\ sent = << >> /\ pc' \in {"probe", "main"}
        /\ UNCHANGED <<cfg, command>> /\ sent' = Started
    BY <1>4 DEF SendStart, BeginMain, SentInv, Started
  <2> QED
    BY <2>1 DEF SentInv, ProbePoints, AfterMain, Started, Notifies, Live
<1>5. CASE SendSuccess
  <2>1. pc = "success" /\ sent = Started /\ exit' = 0 /\ pc' = "exited"
    BY <1>5 DEF SendSuccess, Exit, SentInv, AfterMain
  <2>2. /\ sent' = IF Notifies THEN Append(sent, "success") ELSE sent
        /\ UNCHANGED <<cfg, command, outcome, probe, verified>>
    BY <1>5 DEF SendSuccess
  <2>3. outcome' = "succeeded" /\ AllDone'
    BY <2>1, <2>2 DEF ExitInv, GateInv, ProgressInv, AfterMain, AllDone, Gated, Live, ShouldAutoVerify
  <2>4. sent' \in {<< >>, Append(<<"start">>, "success")}
    BY <2>1, <2>2 DEF Started
  <2> QED
    BY <2>1, <2>3, <2>4 DEF SentInv, Closed, ProbePoints, AfterMain
<1>6. CASE TargetPrinted \/ GateOpens \/ EngineReturns \/ VerifyPasses
  <2>1. /\ UNCHANGED <<cfg, command, sent>>
        /\ \/ pc = "target" /\ pc' = "start"
           \/ pc = "target" /\ pc' = "probe" /\ command = "probe"
           \/ /\ pc \in ProbePoints \cup {"main"} \cup AfterMain
              /\ pc \in ProbePoints => command # "probe"
              /\ pc' \in {"main"} \cup AfterMain
    BY <1>6 DEF TargetPrinted, GateOpens, EngineReturns, AfterEngine, VerifyPasses, BeginMain,
                ProbePoints, AfterMain
  <2> QED
    BY <2>1 DEF SentInv, ProbePoints, AfterMain, Started, Notifies, Live
<1>7. CASE \/ \E e \in StepErrors : GateCloses(e) \/ ProbeReturns(e)
           \/ \E e \in {Plain, KubernetesError} : TargetFails(e) \/ VerifyFails(e)
  <2>1. pc \in ProbePoints \cup {"target", "verify"} /\ sent' = sent /\ pc' = "exited"
    BY <1>7, AbortCode DEF GateCloses, ProbeReturns, TargetFails, VerifyFails, Exit, ProbePoints
  <2>2. ~(author' = "kzero" /\ exit' = 4)
    BY <1>7, AbortCode DEF GateCloses, ProbeReturns, TargetFails, VerifyFails, Exit, CodeOf, Ensure,
       ConfigError, KubernetesError, ExecutorAborted, Plain
  <2> QED
    BY <2>1, <2>2 DEF SentInv, Closed, ProbePoints, AfterMain, Started
<1>8. ASSUME NEW u \in plan, EngineSucceeds(u)
      PROVE  SentInv'
  <2>1. pc = "main" /\ pc' = pc /\ UNCHANGED <<cfg, command, sent>>
    BY <1>8 DEF EngineSucceeds, probeVars
  <2> QED
    BY <2>1 DEF SentInv, ProbePoints, AfterMain, Started, Notifies, Live
<1>9. ASSUME NEW e \in StepErrors, EngineFails(e)
      PROVE  SentInv'
  <2>1. pc = "main" /\ sent = Started /\ pc' = "exited" /\ outcome' = "failed"
    BY <1>9, AbortCode DEF EngineFails, Pipeline!Fail, SentInv
  <2>2. exit' # 0 /\ ~(author' = "kzero" /\ exit' = 4)
    BY <1>9, AbortCode DEF EngineFails
  <2>3. sent' \in {<< >>, <<"start">>, Append(<<"start">>, "failure")}
    BY <1>9, <2>1 DEF EngineFails, Started
  <2> QED
    BY <2>1, <2>2, <2>3 DEF SentInv, Closed, ProbePoints, AfterMain
<1>13. CASE DeliveryFails
  <2>1. pc = "main" /\ sent = <<"start">> /\ pc' = "exited" /\ outcome' = "failed"
    BY <1>13 DEF DeliveryFails, Exit, Pipeline!Fail, SentInv, Started
  <2>2. exit' = 4 /\ sent' = Append(<<"start">>, "failure")
    BY <1>13, <2>1 DEF DeliveryFails, Exit, CodeOf, Ensure, NotifyFailed, Plain
  <2> QED
    BY <2>1, <2>2 DEF SentInv, Closed, ProbePoints, AfterMain
<1>10. CASE Signal \/ Tick
  BY <1>10, StaysSent DEF Signal, Tick
<1>11. CASE Killed
  <2>1. Running /\ pc' = "killed" /\ sent' = sent
    BY <1>11 DEF Killed
  <2>2. pc \in {"target", "start", "main"} \cup ProbePoints \cup AfterMain
    BY <2>1 DEF DataOK, PlaceOK, Running, AfterMain
  <2>3. sent' \in {<< >>, <<"start">>}
    BY <2>1, <2>2 DEF SentInv, Started
  <2> QED
    BY <2>1, <2>3 DEF SentInv, ProbePoints, AfterMain
<1>12. CASE UNCHANGED vars
  BY <1>12, StaysSent DEF vars, probeVars
<1> QED
  BY <1>1, <1>2, <1>3, <1>4, <1>5, <1>6, <1>7, <1>8, <1>9, <1>10, <1>11, <1>12, <1>13, Cases
     DEF Announces, Decides, Returns

(* In every reachable state the events that were sent fit the place.       *)
LEMMA SentHolds == Spec => []SentInv
<1>1. Init => SentInv
  BY DEF Init, SentInv, ProbePoints, AfterMain
<1> QED
  BY <1>1, SentStep, TypeHolds, ExitHolds, PTL DEF Spec

(* The events of each list of alerts a process may have sent.              *)
LEMMA EventsOf ==
  /\ sent = << >> => Events = {}
  /\ sent = <<"start">> => Events = {"start"}
  /\ \A e : sent = Append(<<"start">>, e) => Events = {"start", e}
<1>1. ASSUME sent = << >>
      PROVE  Events = {}
  BY <1>1 DEF Events
<1>2. ASSUME sent = <<"start">>
      PROVE  Events = {"start"}
  BY <1>2 DEF Events
<1>3. ASSUME NEW e, sent = Append(<<"start">>, e)
      PROVE  Events = {"start", e}
  <2>1. Len(sent) = 2 /\ sent[1] = "start" /\ sent[2] = e
    BY <1>3
  <2>2. 1..2 = {1, 2}
    OBVIOUS
  <2> QED
    BY <2>1, <2>2 DEF Events
<1> QED
  BY <1>1, <1>2, <1>3

(* One event, and two of them.                                             *)
LEMMA Counted ==
  ASSUME NEW e, e # "start"
  PROVE  Cardinality({"start"}) = 1 /\ Cardinality({"start", e}) = 2
<1>1. IsFiniteSet({"start"}) /\ Cardinality({"start"}) = 1
  BY FS_Singleton
<1>2. Cardinality({"start"} \cup {e}) = Cardinality({"start"}) + 1
  BY <1>1, FS_AddElement
<1>3. {"start"} \cup {e} = {"start", e}
  OBVIOUS
<1> QED
  BY <1>1, <1>2, <1>3

(* The exit code is 0 exactly when all that was asked for is done; kzero's *)
(* own codes say what was touched; any other code is that of a subprocess  *)
(* of a pipeline or a probe that failed.                                   *)
THEOREM ExitCodesTell == Spec => []ExitCodeTells
<1>1. ExitInv /\ SentInv => ExitCodeTells
  <2>1. sent = Append(<<"start">>, "failure") => "failure" \in Events
    BY EventsOf
  <2> QED
    BY <2>1 DEF ExitInv, CodeTells, SentInv, ExitCodeTells
<1> QED
  BY <1>1, ExitHolds, SentHolds, PTL

(* Success is announced last, once and only when all that was asked for is *)
(* done; a failure only of the pipeline; and always after the start.       *)
THEOREM EventsAreTrue == Spec => []EventsTellOutcome
<1>1. DataOK /\ SentInv => EventsTellOutcome
  <2> SUFFICES ASSUME DataOK, SentInv
               PROVE  EventsTellOutcome
    OBVIOUS
  <2>1. Closed
    BY DEF SentInv, Closed, DataOK, PlaceOK, Started, AfterMain
  <2>2. CASE sent = << >>
    BY <2>2, EventsOf DEF EventsTellOutcome
  <2>3. CASE sent = <<"start">>
    <3>1. Events = {"start"} /\ Cardinality({"start"}) = 1
      BY <2>3, EventsOf, Counted, "failure" # "start"
    <3>2. Head(sent) = "start" /\ Len(sent) = 1
      BY <2>3
    <3> QED
      BY <3>1, <3>2 DEF EventsTellOutcome
  <2>4. CASE sent = Append(<<"start">>, "failure") /\ outcome = "failed" /\ exit # 0
    <3>1. Events = {"start", "failure"}
      BY <2>4, EventsOf
    <3>2. Cardinality(Events) = 2
      BY <3>1, Counted
    <3>3. Head(sent) = "start" /\ Len(sent) = 2
      BY <2>4
    <3> QED
      BY <2>4, <3>1, <3>2, <3>3 DEF EventsTellOutcome
  <2>5. CASE sent = Append(<<"start">>, "success") /\ AllDone /\ outcome = "succeeded" /\ exit = 0
    <3>1. Events = {"start", "success"}
      BY <2>5, EventsOf
    <3>2. Cardinality(Events) = 2
      BY <3>1, Counted
    <3>3. Head(sent) = "start" /\ Len(sent) = 2
      BY <2>5
    <3> QED
      BY <2>5, <3>1, <3>2, <3>3 DEF EventsTellOutcome
  <2> QED
    BY <2>1, <2>2, <2>3, <2>4, <2>5 DEF Closed
<1> QED
  BY <1>1, TypeHolds, SentHolds, PTL

-----------------------------------------------------------------------------
(* What probes leave behind.                                               *)

(* Where a probe has begun and not come to its result.                     *)
Inside == ProbePoints \ {"probe", "probed"}

(* Only what its up pipeline names is there and was not; nothing unless it *)
(* has gone up and has not, or not successfully, come down.                *)
LitterInv ==
  /\ remains \subseteq found \cup Things(cfg.up)
  /\ ~Live => remains \subseteq found
  /\ pc \in ProbePoints \ {"probed"} => probe = "none"
  /\ probe = "skipped" => remains \subseteq found
  /\ probe = "none" /\ pc \notin Inside \cup {"killed"} => remains \subseteq found
  /\ Live /\ (probe = "ok" \/ pc \in {"record", "write"})
       => Things(cfg.down) \cap remains = {}
  /\ command # "probe" /\ ~Gated => pc \notin ProbePoints /\ probe = "none"

(* It is kept by whatever touches neither the world nor the probe.         *)
LEMMA StaysClean ==
  ASSUME LitterInv, UNCHANGED <<cfg, command, probe, remains, found>>,
         \/ pc' = pc
         \/ pc' = "killed"
         \/ pc \notin Inside \cup {"killed"} /\ pc' \notin ProbePoints
         \/ /\ pc \notin Inside \cup {"killed"}
            /\ pc' = "probe" /\ probe = "none" /\ (command = "probe" \/ Gated)
  PROVE  LitterInv'
BY DEF LitterInv, Live, Gated, Things, Thing, Inside, ProbePoints

(* Within a probe the same holds if what is new is of its up pipeline.     *)
LEMMA ProbeStaysClean ==
  ASSUME LitterInv, UNCHANGED <<cfg, command, found>>,
         pc \in ProbePoints \ {"probed"}, pc' \in ProbePoints,
         remains' \subseteq remains \cup Things(cfg.up),
         remains' \subseteq remains \/ Live,
         \/ pc' \in Inside /\ probe' = probe
         \/ pc' = "probed" /\ probe' \in Failed,
         pc' \in {"record", "write"} /\ Live => Things(cfg.down) \cap remains' = {}
  PROVE  LitterInv'
<1>1. probe = "none" /\ (command = "probe" \/ Gated)
  BY DEF LitterInv
<1>2. remains' \subseteq found' \cup Things(cfg.up)' /\ (~Live' => remains' \subseteq found')
  BY DEF LitterInv, Live, Things, Thing
<1>3. (Live' <=> Live) /\ (Gated' <=> Gated)
  BY DEF Live, Gated
<1>4. Live' /\ (probe' = "ok" \/ pc' \in {"record", "write"}) => Things(cfg.down)' \cap remains' = {}
  BY <1>1 DEF Live, Failed, Things, Thing
<1>5. pc' \in ProbePoints \ {"probed"} => probe' = "none"
  BY <1>1 DEF Inside
<1>6. probe' # "skipped" /\ (probe' = "none" => pc' \in Inside)
  BY <1>1 DEF Failed
<1>7. command' = "probe" \/ Gated'
  BY <1>1, <1>3
<1> QED
  BY <1>2, <1>4, <1>5, <1>6, <1>7 DEF LitterInv

(* LitterInv is kept by every step.                                        *)
LEMMA LitterStep ==
  DataOK /\ AtStep /\ RecordInv /\ ProgressInv /\ LitterInv /\ [Next]_vars => LitterInv'
<1> SUFFICES ASSUME DataOK, AtStep, RecordInv, ProgressInv, LitterInv, [Next]_vars
             PROVE  LitterInv'
  OBVIOUS
<1> USE DEF Failed, place, progress, memory, engine, ending, status, process, Outer
<1>1. ASSUME NEW c \in Setups, NEW cmd \in Commands, Start(c, cmd)
      PROVE  LitterInv'
  BY <1>1 DEF Start, LitterInv, ProbePoints, Inside
<1>2. ASSUME ProbeReads, UNCHANGED Outer
      PROVE  LitterInv'
  <2>1. CASE NoPipeline \/ CacheMiss
    BY <1>2, <2>1, ProbeStaysClean DEF NoPipeline, CacheMiss, ProbeEnds, GoTo, ProbePoints, Inside
  <2>2. CASE CacheHit
    <3>1. /\ pc = "probe" /\ pc' = "probed" /\ probe' = "skipped"
          /\ UNCHANGED <<cfg, command, remains, found>>
      BY <1>2, <2>2 DEF CacheHit, ProbeEnds
    <3>2. remains \subseteq found /\ (command = "probe" \/ Gated)
      BY <3>1 DEF LitterInv, Inside, ProbePoints
    <3> QED
      BY <3>1, <3>2 DEF LitterInv, Gated, Live
  <2> QED
    BY <1>2, <2>1, <2>2 DEF ProbeReads
<1>3. ASSUME UpStep \/ UpFails, UNCHANGED Outer
      PROVE  LitterInv'
  <2>1. pc = "probeUp" /\ Thing(cfg.up[index]) \in Things(cfg.up)
    BY <1>3 DEF UpStep, UpFails, AtStep, Things
  <2>2. /\ remains' \subseteq remains \cup {Thing(cfg.up[index])}
        /\ remains' \subseteq remains \/ Live
        /\ UNCHANGED <<cfg, command, found>>
    BY <1>3 DEF UpStep, UpFails
  <2>3. \/ pc' \in {"probeUp", "checks"} /\ probe' = probe
        \/ pc' = "probed" /\ probe' \in Failed
    BY <1>3 DEF UpStep, UpFails, StepPasses, GoTo, ProbeEnds
  <2> QED
    BY <2>1, <2>2, <2>3, ProbeStaysClean DEF ProbePoints, Inside
<1>4. ASSUME ChecksPass \/ ChecksFail \/ DownStep \/ DownFails, UNCHANGED Outer
      PROVE  LitterInv'
  <2>1. pc \in {"checks", "probeDown"} /\ remains' \subseteq remains /\ UNCHANGED <<cfg, command, found>>
    BY <1>4 DEF ChecksPass, ChecksFail, DownStep, DownFails
  <2>2. \/ pc' = "probeDown" /\ probe' = probe
        \/ pc' = "probed" /\ probe' \in Failed
    BY <1>4 DEF ChecksPass, ChecksFail, DownStep, DownFails, GoTo, ProbeEnds
  <2> QED
    BY <2>1, <2>2, ProbeStaysClean DEF ProbePoints, Inside
<1>5. ASSUME DownReturns, UNCHANGED Outer
      PROVE  LitterInv'
  <2>1. pc = "probeDown" /\ index > Len(cfg.down) /\ UNCHANGED <<cfg, command, remains, found>>
    BY <1>5 DEF DownReturns
  <2>2. Live => Things(cfg.down) \cap remains = {}
    <3>1. Len(cfg.down) \in Nat /\ index \in Nat
      BY SetupType DEF DataOK, PlaceOK
    <3>2. \A i \in 1..Len(cfg.down) : i < index
      BY <2>1, <3>1
    <3> QED
      BY <2>1, <3>2 DEF RecordInv, Gone, Things
  <2>3. CASE pc' = "probed" /\ probe' = "ok"
    <3>1. /\ command = "probe" \/ Gated
          /\ remains \subseteq found \cup Things(cfg.up)
          /\ ~Live => remains \subseteq found
      BY <2>1 DEF LitterInv, ProbePoints
    <3> QED
      BY <2>1, <2>2, <2>3, <3>1 DEF LitterInv, Live, Gated, Things, Thing
  <2>4. CASE \/ pc' = "record" /\ probe' = probe
             \/ pc' = "probed" /\ probe' \in Failed
    BY <2>1, <2>2, <2>4, ProbeStaysClean DEF ProbePoints, Inside
  <2> QED
    BY <1>5, <2>3, <2>4 DEF DownReturns, ProbeEnds, GoTo
<1>6. ASSUME ProbeWrites, UNCHANGED Outer
      PROVE  LitterInv'
  <2>1. pc \in {"record", "write"} /\ UNCHANGED <<cfg, command, remains, found>>
    BY <1>6 DEF ProbeWrites, Record, RecordFails, Write
  <2>2. Live => Things(cfg.down) \cap remains = {}
    BY <2>1 DEF LitterInv
  <2>3. CASE pc' = "probed" /\ probe' = "ok"
    <3>1. /\ command = "probe" \/ Gated
          /\ remains \subseteq found \cup Things(cfg.up)
          /\ ~Live => remains \subseteq found
      BY <2>1 DEF LitterInv, ProbePoints
    <3> QED
      BY <2>1, <2>2, <2>3, <3>1 DEF LitterInv, Live, Gated, Things, Thing
  <2>4. CASE pc' = "write" /\ probe' = probe
    BY <2>1, <2>2, <2>4, ProbeStaysClean DEF ProbePoints, Inside
  <2> QED
    BY <1>6, <2>3, <2>4 DEF ProbeWrites, Record, RecordFails, Write, ProbeEnds, GoTo
<1>7. ASSUME NEW c \in Setups, AnotherPasses(c), UNCHANGED Outer
      PROVE  LitterInv'
  BY <1>7, StaysClean DEF AnotherPasses
<1>8. CASE SendStart
  <2>1. /\ pc = "start" /\ probe = "none" /\ UNCHANGED <<cfg, command, probe, remains, found>>
        /\ \/ pc' = "probe" /\ Gated
           \/ pc' = "main"
    BY <1>8 DEF SendStart, ShouldGate, Gated, BeginMain, ProgressInv
  <2> QED
    BY <2>1, StaysClean DEF ProbePoints, Inside
<1>9. CASE TargetPrinted
  <2>1. /\ pc = "target" /\ probe = "none" /\ UNCHANGED <<cfg, command, probe, remains, found>>
        /\ \/ pc' = "probe" /\ command = "probe"
           \/ pc' = "start"
    BY <1>9 DEF TargetPrinted, ProgressInv
  <2> QED
    BY <2>1, StaysClean DEF ProbePoints, Inside
<1>10. CASE \/ GateOpens \/ EngineReturns \/ VerifyPasses \/ SendSuccess
            \/ \E e \in {Plain, KubernetesError} : TargetFails(e) \/ VerifyFails(e)
            \/ DeliveryFails \/ \E e \in StepErrors : Returns(e)
  <2>1. /\ pc \in {"probed", "main", "verify", "success", "target"}
        /\ pc' \in {"main", "verify", "success", "exited"}
        /\ UNCHANGED <<cfg, command, probe, remains, found>>
    BY <1>10 DEF GateOpens, EngineReturns, AfterEngine, VerifyPasses, SendSuccess, TargetFails,
                 VerifyFails, DeliveryFails, Returns, GateCloses, ProbeReturns, EngineFails,
                 BeginMain, Exit, Abort
  <2> QED
    BY <2>1, StaysClean DEF ProbePoints, Inside
<1>11. CASE (\E u \in plan : EngineSucceeds(u)) \/ Signal \/ Tick \/ UNCHANGED vars
  BY <1>11, StaysClean DEF EngineSucceeds, Signal, Tick, vars, probeVars
<1>12. CASE Killed
  BY <1>12, StaysClean DEF Killed
<1> QED
  BY <1>1, <1>2, <1>3, <1>4, <1>5, <1>6, <1>7, <1>8, <1>9, <1>10, <1>11, <1>12, Cases
     DEF ProbeDoes, Announces, Decides

(* In every reachable state what a probe may have left is known.           *)
LEMMA LitterHolds == Spec => [](LitterInv /\ ExitInv)
<1>1. Init => LitterInv
  BY DEF Init, LitterInv, ProbePoints, Inside
<1>2. ExitInv => ProgressInv
  BY DEF ExitInv
<1> QED
  BY <1>1, <1>2, LitterStep, TypeHolds, RecordInit, RecordStep, ExitHolds, PTL DEF Spec

(* What a probe that passed has set up is gone, and a command that exits   *)
(* with 0 leaves nothing behind that it has not found, if its down         *)
(* pipeline covers what goes up and a failed probe counts.                 *)
THEOREM NothingIsLeftBehind == Spec => []NoLitter
<1>1. LitterInv /\ ExitInv => NoLitter
  <2> SUFFICES ASSUME LitterInv, ExitInv, pc = "exited", Covered
               PROVE  /\ probe = "ok" /\ Live => Things(cfg.up) \cap remains = {}
                      /\ exit = 0 /\ cfg.failFast => remains \subseteq found
    BY DEF NoLitter
  <2>1. probe = "ok" /\ Live => Things(cfg.up) \cap remains = {}
    BY DEF LitterInv, Covered
  <2>2. probe = "ok" => remains \subseteq found
    BY <2>1 DEF LitterInv
  <2>3. probe \in {"none", "skipped"} => remains \subseteq found
    BY DEF LitterInv, Inside, ProbePoints
  <2>4. exit = 0 /\ cfg.failFast => probe \in {"none", "skipped", "ok"}
    BY DEF ExitInv, GateInv, CodeTells, AllDone, Failed, LitterInv
  <2> QED
    BY <2>1, <2>2, <2>3, <2>4
<1> QED
  BY <1>1, LitterHolds, PTL

=============================================================================
