------------------------------ MODULE Updater ------------------------------
(***************************************************************************)
(* update.sh against the receiver it updates: a nightly script moves the   *)
(* checkout to the newest signed release its channel accepts, restarts the *)
(* service, waits for a status file of the new build, and puts code and    *)
(* unit back when that goes badly.  The receiver meanwhile runs, writes    *)
(* its status, dies and is restarted by systemd with whatever is on disk.  *)
(*                                                                         *)
(* A step of the script is one change that an interruption or the receiver *)
(* can come between.  Time is abstracted to what the script compares: is   *)
(* the status file of the second of RESTART_AT, or later?                  *)
(***************************************************************************)
EXTENDS Integers

CONSTANTS
  Releases,      \* release tags: [version, rc], rc = 0 for a final release
  Initial,       \* the release the receiver was provisioned with
  Signed,        \* the tags whose signature verifies against the pinned key
  Demanding,     \* releases whose unit needs host state a checkout cannot create
  UnitOf,        \* release -> the service unit it ships
  Requirements,  \* release -> its requirements.txt
  Natures,       \* how a build may behave on this receiver
  MaxFaults,     \* power cuts, killed updates, failed checkouts, crashes of a good
                 \* build (a bound)
  NONE

Units == {UnitOf[r] : r \in Releases}

ASSUME UpdaterAssumption ==
  /\ Releases \subseteq [version : Nat, rc : Nat]
  /\ Initial \in Releases
  /\ Signed \subseteq Releases /\ Demanding \subseteq Releases
  /\ Natures \subseteq {"good", "faulty", "mute", "dies", "refuses"}
  /\ "good" \in Natures
  /\ MaxFaults \in Nat
  /\ NONE \notin Releases /\ NONE \notin Units

VARIABLES
  published,   \* the tags the release repository has
  nature,      \* release -> how it behaves here: fixed, but nobody knows
  channel,     \* what the channel file says
  prepared,    \* whether the host state Demanding releases need is there
  head,        \* the release checked out in INSTALL_DIR
  unit,        \* the unit at UNIT_PATH
  process,     \* the receiver: what it was started from
  status,      \* status.json: who wrote it and what it says
  rejected,    \* REJECTED_FILE
  updater,     \* where update.sh is
  accepted,    \* history: releases a run of update.sh verified healthy
  astray,      \* history: what went wrong with the script since a run last verified a
               \* release: one was cut short, a checkout back failed
  faults

vars == <<published, nature, channel, prepared, head, unit, process, status, rejected,
          updater, accepted, astray, faults>>
world == <<published, nature, channel, prepared>>
disk == <<head, unit, rejected>>

IdleUpdater == [pc |-> "idle", latest |-> NONE, current |-> NONE, rollback_unit |-> NONE]
UpdaterState ==
  [pc : {"idle", "checkout", "prerequisite", "unit", "stamp", "restart", "verify",
         "reject", "rollback", "reunit", "rerestart"},
   latest : Releases \cup {NONE}, current : Releases \cup {NONE},
   rollback_unit : Units \cup {NONE}]

TypeOK ==
  /\ published \subseteq Releases
  /\ nature \in [Releases -> Natures]
  /\ channel \in {"stable", "canary"}
  /\ prepared \in BOOLEAN
  /\ head \in Releases /\ unit \in Units
  /\ process \in [up : BOOLEAN, build : Releases, unit : Units]
  /\ status \in [by : Releases, fatal : BOOLEAN, fresh : BOOLEAN, recent : BOOLEAN]
  /\ rejected \subseteq Releases
  /\ updater \in UpdaterState
  /\ accepted \subseteq Releases
  /\ astray \subseteq {"interrupted", "unrestored"}
  /\ faults \in 0..MaxFaults

Init ==
  /\ published = {Initial}
  /\ nature \in [Releases -> Natures] /\ nature[Initial] = "good"
  /\ channel \in {"stable", "canary"}
  /\ prepared = (Initial \in Demanding)
  /\ head = Initial /\ unit = UnitOf[Initial]
  /\ process = [up |-> TRUE, build |-> Initial, unit |-> UnitOf[Initial]]
  /\ status = [by |-> Initial, fatal |-> FALSE, fresh |-> FALSE, recent |-> FALSE]
  /\ rejected = {}
  /\ updater = IdleUpdater
  /\ accepted = {Initial}
  /\ astray = {}
  /\ faults = 0

-----------------------------------------------------------------------------
(* The world: releases appear, operators choose and prepare.               *)

Publish ==
  /\ \E r \in Releases \ published : published' = published \cup {r}
  /\ UNCHANGED <<nature, channel, prepared, disk, process, status, updater, accepted, astray, faults>>

ToStable ==
  /\ channel = "canary"
  /\ channel' = "stable"
  /\ UNCHANGED <<published, nature, prepared, disk, process, status, updater, accepted, astray, faults>>

Prepare ==
  /\ ~ prepared
  /\ prepared' = TRUE
  /\ UNCHANGED <<published, nature, channel, disk, process, status, updater, accepted, astray, faults>>

-----------------------------------------------------------------------------
(* The receiver under systemd.                                             *)

\* The service started from what is on disk; a unit it cannot run fails to start.
Started == [up |-> nature[head] # "refuses", build |-> head, unit |-> unit]

\* write_status_file: a faulty build shows its fault once it has heard something.
Heartbeat ==
  /\ process.up
  /\ nature[process.build] \in {"good", "faulty"}
  /\ \E fatal \in IF nature[process.build] = "faulty" THEN BOOLEAN ELSE {FALSE} :
       status' = [by |-> process.build, fatal |-> fatal, fresh |-> TRUE, recent |-> TRUE]
  /\ UNCHANGED <<world, disk, process, updater, accepted, astray, faults>>

\* The clock leaves the second the status file was written in.
SecondPasses ==
  /\ status.recent
  /\ status' = [status EXCEPT !.recent = FALSE]
  /\ UNCHANGED <<world, disk, process, updater, accepted, astray, faults>>

Die ==
  /\ process.up
  /\ nature[process.build] = "dies"
  /\ process' = [process EXCEPT !.up = FALSE]
  /\ UNCHANGED <<world, disk, status, updater, accepted, astray, faults>>

Crash ==
  /\ process.up
  /\ faults < MaxFaults
  /\ faults' = faults + 1
  /\ process' = [process EXCEPT !.up = FALSE]
  /\ UNCHANGED <<world, disk, status, updater, accepted, astray>>

\* Restart=on-failure
Respawn ==
  /\ ~ process.up
  /\ Started.up
  /\ process' = Started
  /\ UNCHANGED <<world, disk, status, updater, accepted, astray, faults>>

-----------------------------------------------------------------------------
(* update.sh: choosing a release.                                          *)

\* versionsort.suffix=-rc: a candidate sorts below the release it precedes.
CandidateAbove(a, b) == a.version > b.version \/ (a.version = b.version /\ a.rc > b.rc)
Above(a, b) ==
  \/ a.version > b.version
  \/ a.version = b.version /\ b.rc # 0 /\ (a.rc = 0 \/ a.rc > b.rc)

AnyTag == {r \in published : channel = "canary" \/ r.rc = 0}
Acceptable == {r \in published : (channel = "canary" \/ r.rc = 0) /\ r \notin rejected}

\* What select_release prints.
Selected(r) == r \in Acceptable /\ \A s \in Acceptable : s = r \/ Above(r, s)

\* The copy of the unit kept for a rollback, or an empty file.
SavedUnit == unit

\* From the start of the script to the rollback point: there is a release to move
\* to, and its signature verifies.  Every other way through exits without a change.
Begin ==
  /\ updater.pc = "idle"
  /\ \E r \in Signed \ {head} :
       /\ Selected(r)
       /\ updater' = [pc |-> "checkout", latest |-> r, current |-> head,
                      rollback_unit |-> SavedUnit]
  /\ UNCHANGED <<world, disk, process, status, accepted, astray, faults>>

-----------------------------------------------------------------------------
(* update.sh: applying it.                                                 *)

Goto(pc) == updater' = [updater EXCEPT !.pc = pc]

\* git checkout --force: a full disk or a lock left behind fails it, and what was
\* checked out stays.
CheckoutFails ==
  /\ faults < MaxFaults
  /\ faults' = faults + 1
  /\ UNCHANGED head

\* A failed checkout ends the script.
CheckOut ==
  /\ updater.pc = "checkout"
  /\ \/ head' = updater.latest /\ Goto("prerequisite") /\ UNCHANGED faults
     \/ CheckoutFails /\ updater' = IdleUpdater
  /\ UNCHANGED <<world, unit, rejected, process, status, accepted, astray>>

\* git checkout "$CURRENT_COMMIT" || log "WARNING: ...": the script carries on.
CodeRestored ==
  \/ head' = updater.current /\ UNCHANGED <<astray, faults>>
  \/ CheckoutFails /\ astray' = astray \cup {"unrestored"}

unmet_prerequisite == head \in Demanding /\ ~ prepared

\* The release needs something the host lacks: back to the previous commit, and
\* no verdict on the release.
StandDown ==
  /\ updater.pc = "prerequisite"
  /\ unmet_prerequisite
  /\ CodeRestored
  /\ updater' = IdleUpdater
  /\ UNCHANGED <<world, unit, rejected, process, status, accepted>>

\* pip3, when requirements.txt changed; it may fail.
InstallDependencies ==
  /\ updater.pc = "prerequisite"
  /\ ~ unmet_prerequisite
  /\ \/ Goto("unit")
     \/ Requirements[updater.current] # Requirements[head] /\ Goto("reject")
  /\ UNCHANGED <<world, disk, process, status, accepted, astray, faults>>

InstallUnit ==
  /\ updater.pc = "unit"
  /\ unit' = UnitOf[head]
  /\ Goto("stamp")
  /\ UNCHANGED <<world, head, rejected, process, status, accepted, astray, faults>>

\* RESTART_AT="$(date +%s)": whole seconds, so a status file written in this very
\* second still counts as written afterwards.
Stamp ==
  /\ updater.pc = "stamp"
  /\ status' = [status EXCEPT !.fresh = status.recent]
  /\ Goto("restart")
  /\ UNCHANGED <<world, disk, process, accepted, astray, faults>>

Restart ==
  /\ updater.pc = "restart"
  /\ process' = Started
  /\ Goto(IF Started.up THEN "verify" ELSE "reject")
  /\ UNCHANGED <<world, disk, status, accepted, astray, faults>>

-----------------------------------------------------------------------------
(* update.sh: did it actually work.                                        *)

Stopped == updater.pc = "verify" /\ ~ process.up /\ Goto("reject")

Faulty == updater.pc = "verify" /\ process.up /\ status.fresh /\ status.fatal /\ Goto("reject")

\* HEALTH_TIMEOUT, two heartbeats and the warmup, passes without a status file only
\* under a build that writes none or does not live to write it.
TimedOut == /\ updater.pc = "verify"
            /\ process.up /\ ~ status.fresh
            /\ nature[process.build] \in {"mute", "dies"}
            /\ Goto("reject")

VerifyFails == /\ Stopped \/ Faulty \/ TimedOut
               /\ UNCHANGED <<world, disk, process, status, accepted, astray, faults>>

VerifiedHealthy ==
  /\ updater.pc = "verify"
  /\ process.up /\ status.fresh /\ ~ status.fatal
  /\ updater' = IdleUpdater
  /\ accepted' = accepted \cup {updater.latest}
  /\ astray' = {}
  /\ UNCHANGED <<world, disk, process, status, faults>>

-----------------------------------------------------------------------------
(* restore: the verdict, the code, the unit, the service.                  *)

RecordRejected ==
  /\ updater.pc = "reject"
  /\ rejected' = rejected \cup {updater.latest}
  /\ Goto("rollback")
  /\ UNCHANGED <<world, head, unit, process, status, accepted, astray, faults>>

RollBackCode ==
  /\ updater.pc = "rollback"
  /\ CodeRestored
  /\ Goto("reunit")
  /\ UNCHANGED <<world, unit, rejected, process, status, accepted>>

UnitKept == unit
UnitRestored == updater.rollback_unit

RollBackUnit ==
  /\ updater.pc = "reunit"
  /\ unit' = UnitRestored
  /\ Goto("rerestart")
  /\ UNCHANGED <<world, head, rejected, process, status, accepted, astray, faults>>

\* The exit code of this restart only changes what is logged.
RestartSkipped == process
ServiceRestarted == Started

RestartRestored ==
  /\ updater.pc = "rerestart"
  /\ process' = ServiceRestarted
  /\ updater' = IdleUpdater
  /\ UNCHANGED <<world, disk, status, accepted, astray, faults>>

\* The script is killed (TimeoutStartSec), or the power goes and the service starts
\* again from the disk.  The next run knows nothing of this one.
Interrupt ==
  /\ updater.pc # "idle"
  /\ faults < MaxFaults
  /\ faults' = faults + 1
  /\ updater' = IdleUpdater
  /\ process' \in {process, Started}
  /\ astray' = astray \cup {"interrupted"}
  /\ UNCHANGED <<world, disk, status, accepted>>

Receiver == Heartbeat \/ SecondPasses \/ Die \/ Respawn

Run == \/ Begin \/ CheckOut \/ StandDown \/ InstallDependencies \/ InstallUnit \/ Stamp
       \/ Restart \/ VerifyFails \/ VerifiedHealthy
       \/ RecordRejected \/ RollBackCode \/ RollBackUnit \/ RestartRestored

Next == Publish \/ ToStable \/ Prepare \/ Receiver \/ Crash \/ Run \/ Interrupt

Spec == Init /\ [][Next]_vars

\* The timer fires every night and the script runs on; a live receiver writes its
\* status; systemd restarts one that failed.  Nothing obliges anybody to publish.
Fairness == WF_vars(Run) /\ WF_vars(Heartbeat) /\ WF_vars(Respawn)

FairSpec == Spec /\ Fairness

-----------------------------------------------------------------------------
(* Properties.                                                             *)

\* Between runs the unit at UNIT_PATH is one whose release was verified here, even
\* where the checkout back failed and left the release's code beside it; and unless
\* a run since the last verified one was cut short or could not go back, the
\* checkout is a verified release, not rejected since, with its own unit ("rolls
\* code *and* unit back if it does not").  The next verified run puts right what
\* went astray.
DiskAgrees ==
  updater.pc = "idle" =>
    /\ "interrupted" \notin astray => \E r \in accepted : unit = UnitOf[r]
    /\ astray = {} => unit = UnitOf[head] /\ head \in accepted \ rejected

\* Between runs the receiver is not running a release it has rejected, whichever way
\* systemd restarted it while the script was at work, under the same proviso.
RejectedDoesNotRun ==
  updater.pc = "idle" /\ astray = {} => process.build \notin rejected

\* Once nothing new is published the receiver is left alone: a release that fails
\* here is not tried again "every night, indefinitely, restarting the service twice
\* each time", whatever was interrupted or failed.
RestartsCease == <>[](updater.pc \notin {"restart", "rerestart"})

\* The release this receiver should have: the newest final one it has not rejected,
\* with a good signature, working here, and with the host prepared.
Wanted(r) ==
  /\ r \in (published \cap Signed) \ rejected
  /\ r.rc = 0
  /\ \A s \in Acceptable : s.version <= r.version
  /\ nature[r] = "good"
  /\ r \in Demanding => prepared
  /\ astray = {}

\* Such a release ends up installed, running and verified, for as long as it is the
\* one wanted: a broken release before it, a prerelease of it or a switch of
\* channel does not keep it out.
WantedArrives ==
  \A r \in Releases :
    Wanted(r) ~> (head = r /\ process.build = r /\ r \in accepted) \/ ~ Wanted(r)
=============================================================================
