--------------------------- MODULE UpdaterProofs ---------------------------
(* Theorems about Updater, for any releases, signatures, units, requirements, *)
(* ways a build may behave, and any number of interruptions.                  *)
EXTENDS Updater, TLAPS

\* A run that has begun knows what it moves to and what it would go back to.
RunKnows ==
  updater.pc # "idle" =>
    updater.latest \in Releases /\ updater.current \in Releases /\ updater.rollback_unit \in Units

Typed == TypeOK /\ RunKnows

\* Until it records a verdict, a run is about a release that carries none.
NotYetJudged ==
  updater.pc \notin {"idle", "rollback", "reunit", "rerestart"} => updater.latest \notin rejected

\* What is on disk at each point of a run, and what it would go back to.
OfVerified(u) == \E r \in accepted : u = UnitOf[r]
Under(pcs) == updater.pc \in pcs

\* Whatever went astray before, a run that goes well ends on the release it is about.
Forward ==
  /\ Under({"prerequisite", "unit", "stamp", "restart", "verify"}) => head = updater.latest
  /\ Under({"stamp", "restart", "verify"}) => unit = UnitOf[head]
  /\ Under({"verify"}) => process.build = updater.latest

\* A run that was not cut short keeps the unit it found, until it installs its own.
UnitSound ==
  "interrupted" \notin astray =>
    /\ Under({"idle", "checkout", "prerequisite"}) => OfVerified(unit)
    /\ ~ Under({"idle"}) => OfVerified(updater.rollback_unit)
    /\ Under({"rerestart"}) => unit = updater.rollback_unit

\* Nothing went astray: there is a verified release to return to.
Restored == unit = UnitOf[head] /\ head \in accepted \ rejected
CanReturn ==
  /\ updater.current \in accepted \ rejected
  /\ updater.rollback_unit = UnitOf[updater.current]
  /\ updater.latest # updater.current
CodeSound ==
  astray = {} =>
    /\ Under({"idle", "checkout"}) => Restored
    /\ ~ Under({"idle"}) => CanReturn
    /\ Under({"prerequisite"}) => unit = updater.rollback_unit
    /\ Under({"checkout", "reunit", "rerestart"}) => head = updater.current
    /\ Under({"rerestart"}) => unit = updater.rollback_unit
    /\ ~ Under({"reject", "rollback", "reunit", "rerestart"}) => process.build \notin rejected

Sound == Forward /\ UnitSound /\ CodeSound

IInv == Typed /\ NotYetJudged /\ Sound

LEMMA InitIInv == Init => IInv
<1> SUFFICES ASSUME Init PROVE IInv
  OBVIOUS
<1> USE UpdaterAssumption
<1>1. TypeOK
  BY DEF Init, TypeOK, Units, UpdaterState, IdleUpdater
<1>2. RunKnows /\ NotYetJudged /\ Sound
  BY DEF Init, RunKnows, NotYetJudged, Sound, Forward, UnitSound, CodeSound, OfVerified, Under,
     Restored, IdleUpdater
<1>3. QED
  BY <1>1, <1>2 DEF IInv, Typed

\* What the service is started from is on the disk.
LEMMA StartedType ==
  ASSUME TypeOK
  PROVE  Started \in [up : BOOLEAN, build : Releases, unit : Units]
  BY DEF TypeOK, Started

LEMMA TypedStep ==
  ASSUME Typed, [Next]_vars
  PROVE  Typed'
<1> USE UpdaterAssumption
<1> USE DEF Typed, TypeOK, RunKnows, UpdaterState, world, disk
<1>1. CASE Publish
  BY <1>1 DEF Publish
<1>2. CASE ToStable
  BY <1>2 DEF ToStable
<1>3. CASE Prepare
  BY <1>3 DEF Prepare
<1>4. CASE Heartbeat
  <2>1. status' \in [by : Releases, fatal : BOOLEAN, fresh : BOOLEAN, recent : BOOLEAN]
    <3>1. PICK fatal \in BOOLEAN :
            status' = [by |-> process.build, fatal |-> fatal, fresh |-> TRUE, recent |-> TRUE]
      BY <1>4, Zenon DEF Heartbeat
    <3>2. process.build \in Releases
      OBVIOUS
    <3>3. QED
      BY <3>1, <3>2
  <2>2. UNCHANGED <<world, disk, process, updater, accepted, astray, faults>>
    BY <1>4 DEF Heartbeat
  <2>3. QED
    BY <2>1, <2>2
<1>5. CASE SecondPasses
  BY <1>5 DEF SecondPasses
<1>6. CASE Die
  BY <1>6 DEF Die
<1>7. CASE Respawn
  BY <1>7, StartedType DEF Respawn
<1>8. CASE Crash
  <2>1. process' \in [up : BOOLEAN, build : Releases, unit : Units]
    BY <1>8 DEF Crash
  <2>2. faults' \in 0..MaxFaults
    BY <1>8 DEF Crash
  <2>3. UNCHANGED <<world, disk, status, updater, accepted, astray>>
    BY <1>8 DEF Crash
  <2>4. QED
    BY <2>1, <2>2, <2>3
<1>9. CASE Begin
  BY <1>9 DEF Begin, SavedUnit, Selected, Acceptable
<1>10. CASE CheckOut
  BY <1>10 DEF CheckOut, CheckoutFails, Goto, IdleUpdater
<1>11. CASE StandDown
  <2>1. updater' \in UpdaterState /\ RunKnows'
    BY <1>11 DEF StandDown, IdleUpdater
  <2>2. head' \in Releases /\ faults' \in 0..MaxFaults
        /\ astray' \subseteq {"interrupted", "unrestored"}
    <3>1. updater.current \in Releases /\ CodeRestored
      BY <1>11 DEF StandDown
    <3>2. CASE head' = updater.current /\ UNCHANGED <<astray, faults>>
      BY <3>1, <3>2
    <3>3. CASE CheckoutFails /\ astray' = astray \cup {"unrestored"}
      BY <3>3 DEF CheckoutFails
    <3>4. QED
      BY <3>1, <3>2, <3>3 DEF CodeRestored
  <2>3. UNCHANGED <<world, unit, rejected, process, status, accepted>>
    BY <1>11 DEF StandDown
  <2>4. QED
    BY <2>1, <2>2, <2>3
<1>12. CASE InstallDependencies
  BY <1>12 DEF InstallDependencies, Goto
<1>13. CASE InstallUnit
  BY <1>13 DEF InstallUnit, Goto, Units
<1>14. CASE Stamp
  BY <1>14 DEF Stamp, Goto
<1>15. CASE Restart
  <2>1. process' \in [up : BOOLEAN, build : Releases, unit : Units]
    BY <1>15, StartedType DEF Restart
  <2>2. updater' \in UpdaterState /\ RunKnows'
    BY <1>15 DEF Restart, Goto
  <2>3. QED
    BY <1>15, <2>1, <2>2 DEF Restart
<1>16. CASE VerifyFails
  BY <1>16 DEF VerifyFails, Stopped, Faulty, TimedOut, Goto
<1>17. CASE VerifiedHealthy
  BY <1>17 DEF VerifiedHealthy, IdleUpdater
<1>18. CASE RecordRejected
  BY <1>18 DEF RecordRejected, Goto
<1>19. CASE RollBackCode
  BY <1>19 DEF RollBackCode, CodeRestored, CheckoutFails, Goto
<1>20. CASE RollBackUnit
  BY <1>20 DEF RollBackUnit, UnitRestored, Goto
<1>21. CASE RestartRestored
  BY <1>21, StartedType DEF RestartRestored, ServiceRestarted, IdleUpdater
<1>22. CASE Interrupt
  BY <1>22, StartedType DEF Interrupt, IdleUpdater
<1>23. CASE UNCHANGED vars
  BY <1>23 DEF vars
<1>24. QED
  BY <1>1, <1>2, <1>3, <1>4, <1>5, <1>6, <1>7, <1>8, <1>9, <1>10, <1>11, <1>12, <1>13, <1>14,
     <1>15, <1>16, <1>17, <1>18, <1>19, <1>20, <1>21, <1>22, <1>23 DEF Next, Receiver, Run

\* Only RecordRejected adds a verdict, and it is the last step of a run about it.
LEMMA NotYetJudgedStep ==
  ASSUME Typed, NotYetJudged, [Next]_vars
  PROVE  NotYetJudged'
<1> USE DEF Typed, TypeOK, UpdaterState, NotYetJudged, world, disk
<1>1. CASE Publish \/ ToStable \/ Prepare \/ Receiver \/ Crash \/ UNCHANGED vars
  <2>1. UNCHANGED <<updater, rejected>>
    BY <1>1 DEF Publish, ToStable, Prepare, Receiver, Heartbeat, SecondPasses, Die, Respawn, Crash, vars
  <2>2. QED
    BY <2>1
<1>2. CASE Begin
  BY <1>2 DEF Begin, Selected, Acceptable
<1>3. CASE CheckOut \/ InstallDependencies \/ InstallUnit \/ Stamp \/ Restart
  BY <1>3 DEF CheckOut, IdleUpdater, InstallDependencies, InstallUnit, Stamp, Restart, Goto
<1>4. CASE VerifyFails
  BY <1>4 DEF VerifyFails, Stopped, Faulty, TimedOut, Goto
<1>5. CASE RecordRejected \/ RollBackCode \/ RollBackUnit
  BY <1>5 DEF RecordRejected, RollBackCode, RollBackUnit, Goto
<1>6. CASE StandDown \/ VerifiedHealthy \/ RestartRestored \/ Interrupt
  BY <1>6 DEF StandDown, VerifiedHealthy, RestartRestored, Interrupt, IdleUpdater
<1>7. QED
  BY <1>1, <1>2, <1>3, <1>4, <1>5, <1>6 DEF Next, Receiver, Run

LEMMA SoundStep ==
  ASSUME IInv, [Next]_vars
  PROVE  Sound'
<1> USE DEF IInv, Typed, TypeOK, RunKnows, UpdaterState, Sound, Forward, UnitSound, CodeSound,
            OfVerified, Under, Restored, CanReturn, world, disk
<1>1. CASE Publish \/ ToStable \/ Prepare \/ Heartbeat \/ SecondPasses \/ UNCHANGED vars
  BY <1>1 DEF Publish, ToStable, Prepare, Heartbeat, SecondPasses, vars
<1>2. CASE Die \/ Crash
  BY <1>2 DEF Die, Crash
<1>3. CASE Respawn
  BY <1>3 DEF Respawn, Started, NotYetJudged
<1>4. CASE Interrupt
  BY <1>4 DEF Interrupt, IdleUpdater
<1>5. CASE Begin
  BY <1>5 DEF Begin, Selected, Acceptable, SavedUnit
<1>6. CASE CheckOut
  BY <1>6 DEF CheckOut, CheckoutFails, IdleUpdater, Goto
<1>7. CASE StandDown
  BY <1>7 DEF StandDown, CodeRestored, CheckoutFails, IdleUpdater
<1>8. CASE InstallDependencies
  BY <1>8 DEF InstallDependencies, Goto
<1>9. CASE InstallUnit
  BY <1>9 DEF InstallUnit, Goto
<1>10. CASE Stamp
  BY <1>10 DEF Stamp, Goto
<1>11. CASE Restart
  BY <1>11 DEF Restart, Started, NotYetJudged, Goto
<1>12. CASE VerifyFails
  BY <1>12 DEF VerifyFails, Stopped, Faulty, TimedOut, Goto
<1>13. CASE VerifiedHealthy
  BY <1>13 DEF VerifiedHealthy, IdleUpdater, NotYetJudged
<1>14. CASE RecordRejected
  BY <1>14 DEF RecordRejected, Goto
<1>15. CASE RollBackCode
  BY <1>15 DEF RollBackCode, CodeRestored, CheckoutFails, Goto
<1>16. CASE RollBackUnit
  BY <1>16 DEF RollBackUnit, UnitRestored, Goto
<1>17. CASE RestartRestored
  BY <1>17 DEF RestartRestored, ServiceRestarted, Started, IdleUpdater
<1>18. QED
  BY <1>1, <1>2, <1>3, <1>4, <1>5, <1>6, <1>7, <1>8, <1>9, <1>10, <1>11, <1>12, <1>13, <1>14,
     <1>15, <1>16, <1>17 DEF Next, Receiver, Run

\* Every reachable state of the updater and its receiver satisfies the invariant
\* above, whatever the releases do.
THEOREM Inductive == Spec => []IInv
<1>1. IInv /\ [Next]_vars => IInv'
  BY TypedStep, NotYetJudgedStep, SoundStep DEF IInv
<1>2. QED
  BY InitIInv, <1>1, PTL DEF Spec

\* The variables keep their types.
THEOREM TypeCorrect == Spec => []TypeOK
<1>1. IInv => TypeOK
  BY DEF IInv, Typed
<1>2. QED
  BY Inductive, <1>1, PTL

\* Between runs the unit installed is that of a release verified here, a failed
\* checkout notwithstanding; and unless a run since the last verified one was cut
\* short or could not go back, it is the unit of the code checked out, which is a
\* verified release that update.sh has not rejected.
THEOREM CodeAndUnitAgree == Spec => []DiskAgrees
<1>1. IInv => DiskAgrees
  BY DEF IInv, Sound, UnitSound, CodeSound, OfVerified, Under, Restored, DiskAgrees
<1>2. QED
  BY Inductive, <1>1, PTL

\* A release that update.sh rejected is off the receiver by the end of the run that
\* rejected it: the service has been restarted from the code put back, and systemd
\* had nothing else to restart it from.
THEOREM RejectedIsStopped == Spec => []RejectedDoesNotRun
<1>1. IInv => RejectedDoesNotRun
  BY DEF IInv, Sound, CodeSound, Under, RejectedDoesNotRun
<1>2. QED
  BY Inductive, <1>1, PTL
=============================================================================
