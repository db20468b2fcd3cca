------------------------------- MODULE Claim -------------------------------
(***************************************************************************)
(* Who the receiver is.  radio_tracker.py generates its identity once,     *)
(* keeps it in device_credentials.json, registers it with the central      *)
(* server and picks up an API key when a person has claimed it; the server *)
(* hands the key out once.  migrate_state.py moves the file, and the queue *)
(* of detections, from the install directory to the state directory.       *)
(*                                                                         *)
(* The sync thread and the main thread both load the credentials; the      *)
(* process may be killed, a write may fail and the power may be cut        *)
(* between any two steps.  The server and the operator are external.       *)
(***************************************************************************)
EXTENDS Naturals

CONSTANTS
  Ids,            \* device ids (as many as can be remembered at once: a bound)
  MaxMigrations,  \* runs of migrate_state.py (a bound)
  MaxFaults,      \* kills, power cuts, failed writes and lost answers (a bound)
  ABSENT, TORN, NONE

Creds == [id : Ids, key : BOOLEAN]
Content == Creds \cup {ABSENT, TORN}
Threads == {"main", "sync"}

ASSUME ClaimAssumption ==
  /\ Ids # {} /\ MaxMigrations \in Nat /\ MaxFaults \in Nat
  /\ {ABSENT, TORN, NONE} \cap Creds = {}
  /\ ABSENT # TORN /\ ABSENT # NONE /\ TORN # NONE
  /\ {ABSENT, TORN} \cap {"rows", "new"} = {}

VARIABLES
  disk,       \* directory -> its credential file, the .tmp beside it, its outbox.db
  state_dir,  \* whether /var/lib/cielotrack exists
  unit,       \* whether the installed unit names a StateDirectory
  process,    \* the receiver: its shared credentials and where its threads are
  server,     \* device ids: registered, claimed, and whose key waits for pick-up
  seen,       \* the devices whose heartbeat has arrived
  migration,  \* where migrate_state.py is, and what its run knows
  unflushed,  \* what a power cut may still undo
  cut,        \* whether the power was ever cut
  faults

vars == <<disk, state_dir, unit, process, server, seen, migration, unflushed, cut, faults>>
operator == <<state_dir, unit, migration>>
outside == <<operator, server, seen>>

Directory == [creds : Content, tmp : Content, queue : {"rows", "new", ABSENT, TORN}]
Process == [dir : {"install", "state"}, creds : Creds \cup {NONE},
            lock : Threads \cup {"free"}, draft : Creds \cup {NONE},
            pc : [Threads -> {"down", "boot", "init", "get", "load", "open", "write", "replace",
                              "beat", "ask", "status", "reply", "dead"}]]

TypeOK ==
  /\ disk \in [{"install", "state", "aside"} -> Directory]
  /\ state_dir \in BOOLEAN
  /\ unit \in {"old", "new"}
  /\ process \in Process
  /\ server \in [registered : SUBSET Ids, claimed : SUBSET Ids, pending : SUBSET Ids]
  /\ seen \subseteq Ids
  /\ migration \in [pc : {"idle", "look", "copying", "copied", "done"},
                    file : {"creds", "queue"}, ok : BOOLEAN, clean : BOOLEAN,
                    runs : 0..MaxMigrations]
  /\ unflushed \in [dir : {"install", "state"}, before : Content] \cup {NONE}
  /\ cut \in BOOLEAN
  /\ faults \in 0..MaxFaults

Nothing == [creds |-> ABSENT, tmp |-> ABSENT, queue |-> ABSENT]
Down == [dir |-> "install", creds |-> NONE, lock |-> "free", draft |-> NONE,
         pc |-> [t \in Threads |-> "down"]]

FirstId == CHOOSE i \in Ids : TRUE

\* A receiver of the old layout that has run before, claimed or not, or a new one
\* under either unit.
Init ==
  /\ \E old \in {Nothing} \cup [creds : {[id |-> FirstId, key |-> k] : k \in BOOLEAN},
                                tmp : {ABSENT}, queue : {"rows"}] :
       /\ disk = [d \in {"install", "state", "aside"} |-> IF d = "install" THEN old ELSE Nothing]
       /\ server = [registered |-> IF old = Nothing THEN {} ELSE {old.creds.id},
                    claimed |-> IF old # Nothing /\ old.creds.key THEN {old.creds.id} ELSE {},
                    pending |-> {}]
       /\ unit \in IF old = Nothing THEN {"old", "new"} ELSE {"old"}
  /\ state_dir = FALSE
  /\ process = Down
  /\ seen = {}
  /\ migration = [pc |-> "idle", file |-> "creds", ok |-> TRUE, clean |-> TRUE, runs |-> 0]
  /\ unflushed = NONE
  /\ cut = FALSE /\ faults = 0

Fault == faults < MaxFaults /\ faults' = faults + 1

-----------------------------------------------------------------------------
(* Starting.                                                               *)

Running == process.pc["main"] # "down"

\* systemd starts the receiver, and creates its StateDirectory; state_directory()
\* falls back to the default directory wherever it exists.
Boot ==
  /\ ~ Running
  /\ migration.pc = "idle"
  /\ process' = [Down EXCEPT !.dir = IF unit = "new" \/ state_dir THEN "state" ELSE "install",
                             !.pc["main"] = "boot"]
  /\ state_dir' = (state_dir \/ unit = "new")
  /\ UNCHANGED <<disk, unit, server, seen, migration, unflushed, cut, faults>>

\* stranded_credentials
Stranded == /\ process.dir = "state"
            /\ disk["state"].creds = ABSENT
            /\ disk["install"].creds # ABSENT

\* main: refuse_if_credentials_stranded, then the sync thread is started.
Start ==
  /\ process.pc["main"] = "boot"
  /\ process' = IF Stranded THEN Down
                ELSE [process EXCEPT !.pc = [main |-> "get", sync |-> "init"]]
  /\ UNCHANGED <<disk, outside, unflushed, cut, faults>>

\* init_outbox_db on the sync thread: it creates the table where there is none.
InitOutbox ==
  /\ process.pc["sync"] = "init"
  /\ process' = [process EXCEPT !.pc["sync"] = "get"]
  /\ disk' = IF disk[process.dir].queue = "rows" THEN disk
             ELSE [disk EXCEPT ![process.dir].queue = "new"]
  /\ UNCHANGED <<outside, unflushed, cut, faults>>

\* It raises, outside the loop's try: the thread ends and the process runs on.
InitOutboxFails ==
  /\ process.pc["sync"] = "init"
  /\ Fault
  /\ process' = [process EXCEPT !.pc["sync"] = "dead"]
  /\ UNCHANGED <<disk, outside, unflushed, cut>>

-----------------------------------------------------------------------------
(* get_credentials, under _credentials_lock.                               *)

\* What a thread does once it has the credentials: heartbeat_loop, central_sync_loop.
Loop(t) == IF t = "main" THEN "beat" ELSE "ask"

Get(t) ==
  /\ process.pc[t] = "get"
  /\ process.lock = "free"
  /\ process' = IF process.creds # NONE THEN [process EXCEPT !.pc[t] = Loop(t)]
                ELSE [process EXCEPT !.pc[t] = "load", !.lock = t]
  /\ UNCHANGED <<disk, outside, unflushed, cut, faults>>

\* What disk[dir].creds has to be for a fresh identity to be generated.
AbsentOrTorn == disk[process.dir].creds \in {ABSENT, TORN} /\ ~ Stranded
NoIdentity == disk[process.dir].creds = ABSENT /\ ~ Stranded

\* An existing file of the right shape.
LoadExisting(t) ==
  /\ process.pc[t] = "load"
  /\ disk[process.dir].creds \in Creds
  /\ process' = [process EXCEPT !.creds = disk[process.dir].creds, !.lock = "free",
                                !.pc[t] = Loop(t)]
  /\ UNCHANGED <<disk, outside, unflushed, cut, faults>>

\* An exception on thread t: the main thread takes the process with it, the sync
\* thread just ends.
Raised(t) == IF t = "main" THEN Down
             ELSE [process EXCEPT !.pc[t] = "dead", !.lock = "free", !.draft = NONE]

\* SystemExit: the file is unreadable, or left behind in the install directory.
Refuse(t) ==
  /\ process.pc[t] = "load"
  /\ disk[process.dir].creds \notin Creds
  /\ ~ NoIdentity
  /\ process' = Raised(t)
  /\ UNCHANGED <<disk, outside, unflushed, cut, faults>>

\* The ids that anything remembers: uuid4 never returns one of them.
Known == server.registered
         \cup {c.id : c \in Creds \cap UNION {{disk[d].creds, disk[d].tmp} : d \in DOMAIN disk}}

Generate(t) ==
  /\ process.pc[t] = "load"
  /\ NoIdentity
  /\ Ids # Known
  /\ process' = [process EXCEPT !.draft = [id |-> CHOOSE i \in Ids \ Known : TRUE, key |-> FALSE], !.pc[t] = "open"]
  /\ UNCHANGED <<disk, outside, unflushed, cut, faults>>

-----------------------------------------------------------------------------
(* save_credentials: of a new identity, or of one that has its key now.    *)

\* The credential file itself truncated and written.
OpenInPlace(t) ==
  /\ process.pc[t] = "open"
  /\ disk' = [disk EXCEPT ![process.dir].creds = TORN, ![process.dir].tmp = TORN]
  /\ process' = [process EXCEPT !.pc[t] = "write"]
  /\ UNCHANGED <<outside, unflushed, cut, faults>>

\* os.open with O_TRUNC
OpenTemporary(t) ==
  /\ process.pc[t] = "open"
  /\ disk' = [disk EXCEPT ![process.dir].tmp = TORN]
  /\ process' = [process EXCEPT !.pc[t] = "write"]
  /\ UNCHANGED <<outside, unflushed, cut, faults>>

WriteTemporary(t) ==
  /\ process.pc[t] = "write"
  /\ disk' = [disk EXCEPT ![process.dir].tmp = process.draft]
  /\ process' = [process EXCEPT !.pc[t] = "replace"]
  /\ UNCHANGED <<outside, unflushed, cut, faults>>

\* os.replace; nothing is flushed to the disk.
Replace(t) ==
  /\ process.pc[t] = "replace"
  /\ disk' = [disk EXCEPT ![process.dir].creds = disk[process.dir].tmp, ![process.dir].tmp = ABSENT]
  /\ unflushed' = [dir |-> process.dir, before |-> disk[process.dir].creds]
  /\ process' = IF process.creds = NONE
                THEN [process EXCEPT !.creds = process.draft, !.draft = NONE, !.lock = "free",
                                     !.pc[t] = Loop(t)]
                ELSE [process EXCEPT !.draft = NONE, !.pc[t] = "ask"]
  /\ UNCHANGED <<outside, cut, faults>>

\* OSError: ensure_claimed catches it and the key stays in memory; a new identity is
\* nobody's yet.
SaveFails(t) ==
  /\ process.pc[t] \in {"open", "write", "replace"}
  /\ Fault
  /\ process' = IF process.creds = NONE THEN Raised(t)
                ELSE [process EXCEPT !.draft = NONE, !.pc[t] = "ask"]
  /\ UNCHANGED <<disk, outside, unflushed, cut>>

-----------------------------------------------------------------------------
(* ensure_claimed on the sync thread, heartbeat_loop on the other.         *)

\* POST /v1/devices/claim
Register ==
  /\ process.pc["sync"] = "ask"
  /\ ~ process.creds.key
  /\ server' = [server EXCEPT !.registered = @ \cup {process.creds.id}]
  /\ process' = [process EXCEPT !.pc["sync"] = "status"]
  /\ UNCHANGED <<disk, operator, seen, unflushed, cut, faults>>

\* GET .../status: a waiting key is handed out, and erased on the server.
Status ==
  /\ process.pc["sync"] = "status"
  /\ server' = [server EXCEPT !.pending = @ \ {process.creds.id}]
  /\ process' = [process EXCEPT !.pc["sync"] =
                   IF process.creds.id \in server.pending THEN "reply" ELSE "ask"]
  /\ UNCHANGED <<disk, operator, seen, unflushed, cut, faults>>

\* creds["api_key"] = ..., in the dictionary both threads share.
TakeKeyInCopy ==
  /\ process.pc["sync"] = "reply"
  /\ process' = [process EXCEPT !.draft = [process.creds EXCEPT !.key = TRUE], !.pc["sync"] = "open"]
  /\ UNCHANGED <<disk, outside, unflushed, cut, faults>>
TakeKey ==
  /\ process.pc["sync"] = "reply"
  /\ process' = [process EXCEPT !.creds.key = TRUE, !.draft = [process.creds EXCEPT !.key = TRUE],
                                !.pc["sync"] = "open"]
  /\ UNCHANGED <<disk, outside, unflushed, cut, faults>>

\* The server cannot be reached, or its answer is lost.
Unanswered ==
  /\ process.pc["sync"] \in {"status", "reply"}
  /\ Fault
  /\ process' = [process EXCEPT !.pc["sync"] = "ask"]
  /\ UNCHANGED <<disk, outside, unflushed, cut>>

\* heartbeat_loop, which never ends.
Heartbeat ==
  /\ process.pc["main"] = "beat"
  /\ seen' = IF process.creds.key THEN seen \cup {process.creds.id} ELSE seen
  /\ UNCHANGED <<disk, operator, process, server, unflushed, cut, faults>>

-----------------------------------------------------------------------------
(* The operator, the owner, the updater and the weather.                   *)

\* The owner enters the claim code that the running receiver shows.  That takes
\* longer than the kernel takes to flush a new identity.
ClaimDevice ==
  /\ process.creds # NONE
  /\ process.creds.id \in server.registered \ server.claimed
  /\ unflushed = NONE
  /\ server' = [server EXCEPT !.claimed = @ \cup {process.creds.id},
                              !.pending = @ \cup {process.creds.id}]
  /\ UNCHANGED <<disk, operator, process, seen, unflushed, cut, faults>>

\* update.sh installs a unit with a StateDirectory, unless unmet_prerequisite says
\* that the identity is still in the install directory.
TakeUnit ==
  /\ unit = "old"
  /\ ~ (disk["install"].creds # ABSENT /\ disk["state"].creds = ABSENT)
  /\ unit' = "new"
  /\ process' = Down
  /\ UNCHANGED <<disk, state_dir, server, seen, migration, unflushed, cut, faults>>

\* "sudo mv .tmp", as refuse_if_credentials_unreadable suggests.
Salvage ==
  /\ ~ Running
  /\ \E d \in {"install", "state"} :
       /\ disk[d].creds = TORN /\ disk[d].tmp \in Creds
       /\ disk' = [disk EXCEPT ![d].creds = disk[d].tmp, ![d].tmp = ABSENT]
  /\ UNCHANGED <<outside, process, unflushed, cut, faults>>

Kill ==
  /\ Running
  /\ Fault
  /\ process' = Down
  /\ UNCHANGED <<disk, outside, unflushed, cut>>

Flush ==
  /\ unflushed # NONE
  /\ unflushed' = NONE
  /\ UNCHANGED <<disk, outside, process, cut, faults>>

\* What was not flushed may be there, be as it was before, or be a file of zeroes.
PowerCut ==
  /\ Fault
  /\ cut' = TRUE
  /\ process' = Down
  /\ migration' = [migration EXCEPT !.pc = "idle", !.ok = FALSE]
  /\ disk' \in IF unflushed = NONE THEN {disk}
               ELSE {[disk EXCEPT ![unflushed.dir].creds = c] :
                       c \in {disk[unflushed.dir].creds, unflushed.before, TORN}}
  /\ unflushed' = NONE
  /\ UNCHANGED <<state_dir, unit, server, seen>>

-----------------------------------------------------------------------------
(* migrate_state.py --apply, with the service stopped.                     *)

source == disk["install"][migration.file]
destination == disk["state"][migration.file]

\* The operator stops the service and starts the script, which creates the directory.
Migrate ==
  /\ migration.pc = "idle"
  /\ migration.runs < MaxMigrations
  /\ migration' = [pc |-> "look", file |-> "creds", ok |-> TRUE,
                   clean |-> disk["state"].creds = ABSENT /\ disk["state"].queue = ABSENT,
                   runs |-> migration.runs + 1]
  /\ state_dir' = TRUE
  /\ process' = Down
  /\ UNCHANGED <<disk, unit, server, seen, unflushed, cut, faults>>

\* On to the next file, this one's verdict being ok.
NextFile(ok) ==
  migration' = [migration EXCEPT !.ok = @ /\ ok, !.file = "queue",
                                 !.pc = IF migration.file = "creds" THEN "look" ELSE "done"]

\* "nothing at the old location", "already in the state directory"
SkipOrKeep ==
  /\ migration.pc = "look"
  /\ source = ABSENT \/ destination # ABSENT
  /\ NextFile(TRUE)
  /\ UNCHANGED <<disk, state_dir, unit, process, server, seen, unflushed, cut, faults>>

\* shutil.copy2 or the backup API creates the destination ...
Copy ==
  /\ migration.pc = "look"
  /\ source # ABSENT /\ destination = ABSENT
  /\ disk' = [disk EXCEPT !["state"][migration.file] = TORN]
  /\ migration' = [migration EXCEPT !.pc = "copying"]
  /\ UNCHANGED <<state_dir, unit, process, server, seen, unflushed, cut, faults>>

\* ... and fills it.
Copied ==
  /\ migration.pc = "copying"
  /\ disk' = [disk EXCEPT !["state"][migration.file] = source]
  /\ unflushed' = IF migration.file = "creds" THEN [dir |-> "state", before |-> TORN] ELSE unflushed
  /\ migration' = [migration EXCEPT !.pc = "copied"]
  /\ UNCHANGED <<state_dir, unit, process, server, seen, cut, faults>>

\* The disk is full: FAILED, and what was copied stays.
FailureIgnored == TRUE
FailureCounts == FALSE
CopyFails ==
  /\ migration.pc = "copying"
  /\ Fault
  /\ NextFile(FailureCounts)
  /\ UNCHANGED <<disk, state_dir, unit, process, server, seen, unflushed, cut>>

\* verify, then os.replace of the original into pre-migration.
Verified == destination # TORN
SetAside ==
  /\ migration.pc = "copied"
  /\ Verified
  /\ disk' = [disk EXCEPT !["aside"][migration.file] = source, !["install"][migration.file] = ABSENT]
  /\ NextFile(TRUE)
  /\ UNCHANGED <<state_dir, unit, process, server, seen, unflushed, cut, faults>>

VerifyFails ==
  /\ migration.pc = "copied"
  /\ ~ Verified
  /\ NextFile(FailureCounts)
  /\ UNCHANGED <<disk, state_dir, unit, process, server, seen, unflushed, cut, faults>>

Finish ==
  /\ migration.pc = "done"
  /\ migration' = [migration EXCEPT !.pc = "idle"]
  /\ UNCHANGED <<disk, state_dir, unit, process, server, seen, unflushed, cut, faults>>

Interrupted ==
  /\ migration.pc # "idle"
  /\ Fault
  /\ migration' = [migration EXCEPT !.pc = "idle", !.ok = FALSE]
  /\ UNCHANGED <<disk, state_dir, unit, process, server, seen, unflushed, cut>>

Save(t) == OpenTemporary(t) \/ WriteTemporary(t) \/ Replace(t)

Receiver == \/ Boot \/ Start \/ InitOutbox
            \/ \E t \in Threads : Get(t) \/ LoadExisting(t) \/ Refuse(t) \/ Generate(t) \/ Save(t)
            \/ Register \/ Status \/ TakeKey

Migration == \/ SkipOrKeep \/ Copy \/ Copied \/ CopyFails \/ SetAside \/ VerifyFails
             \/ Finish

Next == \/ Receiver \/ Heartbeat
        \/ InitOutboxFails \/ Unanswered \/ (\E t \in Threads : SaveFails(t))
        \/ ClaimDevice \/ TakeUnit \/ Salvage \/ Migrate \/ Migration \/ Interrupted
        \/ Kill \/ PowerCut \/ Flush

Spec == Init /\ [][Next]_vars

\* systemd restarts the receiver, its threads run, and a migration that was started
\* goes on.  Nothing obliges the owner to claim the receiver.
Fairness == /\ WF_vars(Boot) /\ WF_vars(Start) /\ WF_vars(InitOutbox)
            /\ \A t \in Threads : WF_vars(Get(t) \/ LoadExisting(t) \/ Generate(t) \/ Save(t))
            /\ WF_vars(Register \/ Status \/ TakeKey)
            /\ WF_vars(Heartbeat) /\ WF_vars(Migration)

FairSpec == Spec /\ Fairness

-----------------------------------------------------------------------------
(* Properties.                                                             *)

\* A receiver that somebody has claimed never runs as another device, whatever is
\* killed, cut, torn, moved or salvaged ("losing it is silent": it would register as a
\* stranger).
StaysItself ==
  process.creds # NONE /\ server.claimed # {} => process.creds.id \in server.claimed

\* Some file still holds a claimed identity whole, unless the power was cut.
IdentityOnDisk ==
  ~ cut => \A i \in server.claimed : \E d \in DOMAIN disk :
    \E c \in {disk[d].creds, disk[d].tmp} : c \in Creds /\ c.id = i

\* A migration that found nothing in the state directory and says that everything
\* moved has moved it: no identity and no queue is left behind.
SuccessMeansMoved ==
  [][Finish /\ migration.ok /\ migration.clean =>
       /\ disk["install"].creds = ABSENT /\ disk["install"].queue = ABSENT
       /\ disk["state"].creds = disk["aside"].creds
       /\ disk["state"].queue = disk["aside"].queue]_vars

\* The API key of device i is still to be had: the server keeps it for pick-up, the
\* receiver is receiving, saving or holding it, or it has been saved.
KeyExists(i) ==
  \/ i \in server.pending
  \/ process.pc["sync"] = "reply" /\ process.creds.id = i
  \/ [id |-> i, key |-> TRUE] \in
       {process.draft, process.creds, disk["install"].creds, disk["state"].creds}

\* Once its owner has claimed it, the receiver reports itself alive, without a restart
\* and through migrations and updates, unless something fails or the service is stopped
\* while the one copy of the key is on its way to the disk.
ClaimedReports ==
  \A i \in Ids :
    i \in server.pending /\ faults = 0 ~> i \in seen \/ faults > 0 \/ ~ KeyExists(i)
=============================================================================
