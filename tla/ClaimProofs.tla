---------------------------- MODULE ClaimProofs ----------------------------
(* Theorems about Claim, for any ids, faults and migrations.               *)
EXTENDS Claim, TLAPS

\* The three states of a file.
Absent(d) == disk[d].creds = ABSENT
Claimed == server.claimed # {}
Saving == {"open", "write", "replace"}

\* Which directory is in use: the state directory, once it exists, for good; and none while
\* the files are moved.
InPlace ==
  /\ ~ state_dir => Absent("state") /\ disk["state"].tmp = ABSENT
  /\ Running => (process.dir = "state" <=> state_dir)
  /\ ~ Running => process = Down
  /\ migration.pc # "idle" => ~ Running /\ state_dir

\* What the threads know: the shared credentials are those of the file; who saves a new
\* identity has the lock, and there was none to load.
InHand ==
  /\ process.creds # NONE => /\ Running /\ disk[process.dir].creds \in Creds
                             /\ disk[process.dir].creds.id = process.creds.id
  /\ \A t \in Threads :
       /\ process.pc[t] = "load" => process.creds = NONE
       /\ process.pc[t] \in {"beat", "ask", "status", "reply"} => process.creds # NONE
       /\ process.pc[t] \in {"load"} \cup Saving /\ process.creds = NONE => process.lock = t
       /\ process.pc[t] \in Saving =>
            /\ process.draft \in Creds
            /\ IF process.creds # NONE THEN t = "sync" /\ process.draft.id = process.creds.id
               ELSE Absent(process.dir) /\ ~ Stranded /\ ~ Claimed
       /\ process.pc[t] = "replace" => disk[process.dir].tmp = process.draft

\* The identities that the receiver may come to run as: in its credential files, in what a
\* power cut may bring back, in a temporary file beside one, and in hand.
MayReturn(c) ==
  \/ c \in {disk["install"].creds, disk["state"].creds, process.creds}
  \/ \E d \in {"install", "state"} : ~ Absent(d) /\ c = disk[d].tmp
  \/ unflushed # NONE /\ c = unflushed.before
Identities == {c.id : c \in {e \in Creds : MayReturn(e)}}

\* They are one, and it is the claimed one when somebody has claimed the receiver.
OneIdentity == \A i, j \in Identities \cup server.claimed : i = j

\* A claimed identity leaves a file behind it wherever the receiver looks.
Kept == Claimed => ~ Absent("install") \/ ~ Absent("state")

\* What a power cut may undo.
Undoable ==
  unflushed # NONE =>
    /\ ~ Absent(unflushed.dir)
    /\ unflushed.before = ABSENT =>
         /\ ~ Claimed
         /\ unflushed.dir = "state" => Absent("install") /\ disk["aside"].creds = ABSENT

\* Nothing is salvaged into a state directory that the identity has yet to be moved to.
NoRival == ~ Absent("install") /\ Absent("state") => disk["state"].tmp = ABSENT

\* Without a power cut only migrate_state.py leaves a torn file, and never the only one.
Whole ==
  ~ cut => /\ disk["install"].creds # TORN
           /\ disk["state"].creds = TORN => ~ Absent("install")

\* How far migrate_state.py has come.
Moving ==
  /\ migration.pc \in {"copying", "copied"} => source # ABSENT /\ destination # ABSENT
  /\ migration.pc = "copied" /\ migration.file = "creds" /\ unflushed # NONE =>
       unflushed.dir = "state"
  /\ Absent("state") => disk["aside"].creds = ABSENT
  /\ disk["state"].queue = ABSENT => disk["aside"].queue = ABSENT

\* ... when it found the state directory empty and nothing has gone wrong.
MovedCreds == /\ Absent("install") /\ disk["state"].creds # TORN
              /\ disk["state"].creds = disk["aside"].creds
MovedQueue == disk["install"].queue = ABSENT /\ disk["state"].queue = disk["aside"].queue
MovesAll ==
  migration.pc # "idle" /\ migration.ok /\ migration.clean =>
    /\ migration.file = "creds" =>
         /\ disk["state"].queue = ABSENT
         /\ migration.pc = "look" => Absent("state")
         /\ migration.pc # "look" => disk["state"].tmp = ABSENT
         /\ migration.pc = "copied" /\ destination # TORN => destination = source
    /\ migration.file = "queue" =>
         /\ MovedCreds
         /\ migration.pc = "look" => disk["state"].queue = ABSENT
         /\ migration.pc = "copied" => destination = source
    /\ migration.pc = "done" => migration.file = "queue" /\ MovedQueue

IInv == /\ TypeOK /\ InPlace /\ InHand /\ OneIdentity /\ Kept /\ Undoable /\ NoRival /\ Whole
        /\ Moving /\ MovesAll

-----------------------------------------------------------------------------
(* What a step leaves alone.                                               *)

Migrations == [pc : {"idle", "look", "copying", "copied", "done"}, file : {"creds", "queue"},
               ok : BOOLEAN, clean : BOOLEAN, runs : 0..MaxMigrations]

LEMMA DownType == Down \in Process
  BY DEF Down, Process, Threads

LEMMA AfterRaised ==
  ASSUME process \in Process, NEW t \in Threads
  PROVE  Raised(t) \in Process
<1>1. CASE t = "main"
  BY <1>1, DownType DEF Raised
<1>2. CASE t = "sync"
  BY <1>2 DEF Raised, Process, Threads
<1>3. QED
  BY <1>1, <1>2 DEF Threads

\* The receiver's identity is one as long as no new one turns up.
LEMMA NoNewIdentity ==
  ASSUME OneIdentity, server'.claimed \subseteq server.claimed \cup Identities,
         \A c \in Creds : MayReturn(c)' => c.id \in Identities \cup server.claimed
  PROVE  OneIdentity'
<1>1. Identities' \subseteq Identities \cup server.claimed
  BY DEF Identities
<1>2. QED
  BY <1>1 DEF OneIdentity

\* A step of the receiver that touches no file.
LEMMA NoFileTouched ==
  ASSUME IInv, TypeOK', InPlace', InHand', UNCHANGED <<disk, migration, unflushed, cut>>,
         server'.claimed = server.claimed,
         process'.creds \in Creds => process'.creds.id \in Identities
  PROVE  IInv'
<1>1. OneIdentity'
  <2>1. \A c \in Creds : MayReturn(c)' => c.id \in Identities \cup server.claimed
    BY DEF MayReturn, Absent, Identities
  <2>2. QED
    BY <2>1, NoNewIdentity DEF IInv
<1>2. Kept' /\ Undoable' /\ NoRival' /\ Whole'
  BY DEF IInv, Kept, Undoable, NoRival, Whole, Absent, Claimed
<1>3. Moving' /\ MovesAll'
  BY DEF IInv, Moving, MovesAll, MovedCreds, MovedQueue, Absent, source, destination
<1>4. QED
  BY <1>1, <1>2, <1>3 DEF IInv

LEMMA InHandIsKnown == IInv /\ process.creds \in Creds => process.creds.id \in Identities
  BY DEF Identities, MayReturn

LEMMA BootIInv == ASSUME IInv, Boot PROVE IInv'
<1> DEFINE dir == IF unit = "new" \/ state_dir THEN "state" ELSE "install"
<1>1. /\ process' = [Down EXCEPT !.dir = dir, !.pc["main"] = "boot"]
      /\ state_dir' = (state_dir \/ unit = "new") /\ migration.pc = "idle"
      /\ UNCHANGED <<disk, unit, server, seen, migration, unflushed, cut, faults>>
  BY DEF Boot
<1>2. /\ dir \in {"install", "state"} /\ state_dir' \in BOOLEAN
      /\ dir = "state" <=> state_dir'
      /\ ~ state_dir' => ~ state_dir
  BY <1>1 DEF IInv, TypeOK
<1> HIDE DEF dir
<1>3. /\ process'.dir = dir /\ process'.creds = NONE /\ process'.draft = NONE /\ process'.lock = "free"
      /\ process'.pc = [t \in Threads |-> IF t = "main" THEN "boot" ELSE "down"]
      /\ process' \in Process
  BY <1>1, <1>2 DEF Down, Process, Threads
<1>4. TypeOK'
  BY <1>1, <1>3 DEF IInv, TypeOK
<1>5. InPlace'
  <2>1. Running' /\ (process'.dir = "state" <=> state_dir')
    BY <1>2, <1>3 DEF Running, Threads
  <2>2. ~ state_dir' => Absent("state")' /\ disk'["state"].tmp = ABSENT
    BY <1>1, <1>2 DEF IInv, InPlace, Absent
  <2>3. migration'.pc = "idle"
    BY <1>1
  <2>4. QED
    BY <2>1, <2>2, <2>3 DEF InPlace
<1>6. InHand'
  BY <1>1, <1>3 DEF InHand, Threads, Saving
<1>7. QED
  BY <1>1, <1>3, <1>4, <1>5, <1>6, NoFileTouched, ClaimAssumption

LEMMA DownIInv ==
  ASSUME IInv, process' = Down, TypeOK', migration.pc = "idle",
         UNCHANGED <<disk, state_dir, server, migration, unflushed, cut>>
  PROVE  IInv'
<1>1. InPlace' /\ InHand'
  BY DEF IInv, InPlace, InHand, Running, Absent, Down, Threads, Saving
<1>2. QED
  BY <1>1, NoFileTouched, ClaimAssumption DEF Down

LEMMA StartIInv == ASSUME IInv, Start PROVE IInv'
<1>1. UNCHANGED <<disk, state_dir, unit, server, seen, migration, unflushed, cut, faults>>
  BY DEF Start, outside, operator
<1>2. process' \in Process /\ process'.creds \in {NONE, process.creds}
  BY DownType DEF Start, Process, Down, Threads, IInv, TypeOK
<1>3. TypeOK'
  BY <1>1, <1>2 DEF IInv, TypeOK
<1>4. InPlace' /\ InHand'
  BY DEF IInv, TypeOK, InPlace, InHand, Start, Running, Absent, Down, Process, Threads,
     Saving, outside, operator
<1>5. QED
  BY <1>1, <1>2, <1>3, <1>4, NoFileTouched, InHandIsKnown, ClaimAssumption

-----------------------------------------------------------------------------
(* Where the threads are.                                                  *)

\* While a thread runs, so does the receiver.
LEMMA Up == ASSUME IInv, NEW t \in Threads, process.pc[t] # "down" PROVE Running
  BY DEF IInv, InPlace, Running, Down, Threads

LEMMA StaysInPlace ==
  ASSUME IInv, Running, UNCHANGED <<disk, state_dir, migration>>,
         process' = Down \/ (process'.dir = process.dir /\ process'.pc["main"] # "down")
  PROVE  InPlace'
<1>1. CASE process' = Down
  BY <1>1 DEF IInv, InPlace, Running, Absent, Down, Threads
<1>2. CASE process'.dir = process.dir /\ process'.pc["main"] # "down"
  BY <1>2 DEF IInv, InPlace, Running, Absent
<1>3. QED
  BY <1>1, <1>2

\* There is an id that nothing remembers, and the new identity has it.
LEMMA NewType ==
  ASSUME TypeOK, Ids # Known
  PROVE  [id |-> CHOOSE i \in Ids \ Known : TRUE, key |-> FALSE] \in Creds
<1>1. Known \subseteq Ids
  BY DEF TypeOK, Known, Creds
<1>2. \E i \in Ids : i \notin Known
  BY <1>1
<1>3. (CHOOSE i \in Ids \ Known : TRUE) \in Ids
  BY <1>2
<1>4. QED
  BY <1>3 DEF Creds

\* Where there is nothing to load, nobody has claimed the receiver.
LEMMA NoneToLoad ==
  ASSUME IInv, Running, Absent(process.dir), ~ Stranded
  PROVE  ~ Claimed
<1>1. process.dir \in {"install", "state"}
  BY DEF IInv, TypeOK, Process
<1>2. CASE process.dir = "state"
  BY <1>2 DEF IInv, Kept, Stranded, Absent
<1>3. CASE process.dir = "install"
  BY <1>3 DEF IInv, Kept, InPlace, Absent
<1>4. QED
  BY <1>1, <1>2, <1>3

\* The thread goes on, and nothing else changes but its lock, its draft and the
\* credentials in hand.
LEMMA AcquireIInv ==
  ASSUME IInv, NEW t \in Threads, Get(t) \/ LoadExisting(t) \/ Refuse(t) \/ Generate(t)
  PROVE  IInv'
<1>1. UNCHANGED <<disk, state_dir, unit, server, seen, migration, unflushed, cut, faults>>
  BY DEF Get, LoadExisting, Refuse, Generate, outside, operator
<1>2. process' \in Process
  <2>1. process \in Process /\ process.pc[t] \in {"get", "load"}
    BY DEF IInv, TypeOK, Get, LoadExisting, Refuse, Generate
  <2>2. CASE Get(t)
    BY <2>1, <2>2 DEF Get, Process, Loop, Threads
  <2>3. CASE LoadExisting(t)
    BY <2>1, <2>3 DEF LoadExisting, Process, Loop, Threads
  <2>4. CASE Refuse(t)
    BY <2>1, <2>4, AfterRaised DEF Refuse
  <2>5. CASE Generate(t)
    <3>1. [id |-> CHOOSE i \in Ids \ Known : TRUE, key |-> FALSE] \in Creds
      BY <2>5, NewType DEF Generate, IInv
    <3>2. QED
      BY <2>1, <2>5, <3>1 DEF Generate, Process, Threads
  <2>6. QED
    BY <2>2, <2>3, <2>4, <2>5
<1>3. TypeOK'
  BY <1>1, <1>2 DEF IInv, TypeOK
<1>4. InPlace'
  <2>1. process \in Process /\ Running
    BY Up DEF IInv, TypeOK, Get, LoadExisting, Refuse, Generate
  <2>2. CASE Refuse(t) /\ t = "main"
    BY <1>1, <2>1, <2>2, StaysInPlace DEF Refuse, Raised
  <2>3. CASE Refuse(t) /\ t = "sync"
    <3>1. process'.dir = process.dir /\ process'.pc["main"] # "down"
      BY <2>1, <2>3 DEF Refuse, Raised, Process, Threads, Running
    <3>2. QED
      BY <1>1, <2>1, <3>1, StaysInPlace
  <2>4. CASE Get(t) \/ LoadExisting(t) \/ Generate(t)
    <3>1. process'.dir = process.dir /\ process'.pc["main"] # "down"
      <4>1. CASE Get(t)
        BY <2>1, <4>1 DEF Get, Loop, Process, Threads, Running
      <4>2. CASE LoadExisting(t)
        BY <2>1, <4>2 DEF LoadExisting, Loop, Process, Threads, Running
      <4>3. CASE Generate(t)
        BY <2>1, <4>3 DEF Generate, Process, Threads, Running
      <4>4. QED
        BY <2>4, <4>1, <4>2, <4>3
    <3>2. QED
      BY <1>1, <2>1, <3>1, StaysInPlace
  <2>5. QED
    BY <2>2, <2>3, <2>4 DEF Threads
<1>5. InHand'
  <2>1. CASE Get(t)
    BY <2>1 DEF IInv, TypeOK, InHand, Get, Running, Absent, Claimed, Stranded, Loop,
       Process, Threads, Saving, outside, operator
  <2>2. CASE LoadExisting(t)
    <3>1. /\ process \in Process /\ Running /\ disk[process.dir].creds \in Creds
          /\ process.pc[t] = "load" /\ process.creds = NONE /\ process.lock = t
      BY <2>2, Up DEF LoadExisting, IInv, TypeOK, InHand
    <3>2. /\ process'.creds = disk[process.dir].creds /\ process'.dir = process.dir
          /\ process'.pc["main"] # "down"
          /\ \A u \in Threads : process'.pc[u] = IF u = t THEN Loop(t) ELSE process.pc[u]
      BY <2>2, <3>1 DEF LoadExisting, Process, Threads, Running, Loop
    <3>3. \A u \in Threads : process.pc[u] \in {"load"} \cup Saving => u = t
      BY <3>1 DEF IInv, InHand
    <3>4. \A u \in Threads : process'.pc[u] \notin {"load"} \cup Saving
      BY <3>2, <3>3 DEF Loop, Saving
    <3>5. process'.creds # NONE /\ Running'
      BY <3>1, <3>2, ClaimAssumption DEF Running
    <3>6. QED
      BY <1>1, <3>1, <3>2, <3>4, <3>5 DEF InHand, Saving
  <2>3. CASE Refuse(t)
    BY <2>3 DEF IInv, TypeOK, InHand, Refuse, Raised, Down, Running, Absent, Claimed,
       Stranded, Process, Threads, Saving, outside, operator
  <2>4. CASE Generate(t)
    <3> DEFINE new == [id |-> CHOOSE i \in Ids \ Known : TRUE, key |-> FALSE]
    <3>1. /\ process \in Process /\ process.pc[t] = "load" /\ process.creds = NONE /\ process.lock = t
          /\ Absent(process.dir) /\ ~ Stranded
      BY <2>4 DEF Generate, NoIdentity, Absent, IInv, TypeOK, InHand
    <3>2. process' = [process EXCEPT !.draft = new, !.pc[t] = "open"]
      BY <2>4 DEF Generate
    <3> HIDE DEF new
    <3>3. /\ process'.creds = NONE /\ process'.dir = process.dir /\ process'.lock = t /\ process'.draft = new
          /\ \A u \in Threads : process'.pc[u] = IF u = t THEN "open" ELSE process.pc[u]
      BY <3>1, <3>2 DEF Process, Threads
    <3>4. new \in Creds
      BY <2>4, NewType DEF new, Generate, IInv
    <3>5. ~ Claimed
      BY <2>4, <3>1, Up, NoneToLoad DEF Generate
    <3>6. \A u \in Threads : process.pc[u] \in {"load"} \cup Saving => u = t
      BY <3>1 DEF IInv, InHand
    <3>7. Absent(process.dir)' /\ ~ Stranded' /\ ~ Claimed'
      BY <1>1, <3>1, <3>3, <3>5 DEF Absent, Stranded, Claimed
    <3>8. QED
      BY <1>1, <3>1, <3>3, <3>4, <3>6, <3>7 DEF IInv, InHand, Saving
  <2>5. QED
    BY <2>1, <2>2, <2>3, <2>4
<1>6. process'.creds \in Creds => process'.creds.id \in Identities
  <2>1. process'.creds \in {NONE, process.creds, disk[process.dir].creds}
    <3>1. process \in Process
      BY DEF IInv, TypeOK
    <3>2. Raised(t).creds \in {NONE, process.creds}
      BY <3>1 DEF Raised, Down, Process
    <3>3. QED
      BY <3>1, <3>2 DEF Get, LoadExisting, Refuse, Generate, Process
  <2>2. process.dir \in {"install", "state"}
    BY DEF IInv, TypeOK, Process
  <2>3. QED
    BY <2>1, <2>2, ClaimAssumption DEF Identities, MayReturn
<1>7. QED
  BY <1>1, <1>3, <1>4, <1>5, <1>6, NoFileTouched

\* The outbox could not be created, a save failed, a request or its answer was lost.
LEMMA FailureIInv ==
  ASSUME IInv, InitOutboxFails \/ Unanswered \/ \E t \in Threads : SaveFails(t)
  PROVE  IInv'
<1>1. /\ UNCHANGED <<disk, state_dir, unit, server, seen, migration, unflushed, cut>>
      /\ Fault
  BY DEF InitOutboxFails, Unanswered, SaveFails, outside, operator
<1>2. process' \in Process /\ process'.creds \in {NONE, process.creds}
  <2>1. process \in Process
    BY DEF IInv, TypeOK
  <2>2. CASE InitOutboxFails \/ Unanswered
    BY <2>1, <2>2 DEF InitOutboxFails, Unanswered, Process, Threads
  <2>3. ASSUME NEW t \in Threads, SaveFails(t)
        PROVE  process' \in Process /\ process'.creds \in {NONE, process.creds}
    <3>1. Raised(t) \in Process /\ Raised(t).creds \in {NONE, process.creds}
      BY <2>1, AfterRaised DEF Raised, Down, Process
    <3>2. [process EXCEPT !.draft = NONE, !.pc[t] = "ask"] \in Process
      BY <2>1 DEF Process, Threads
    <3>3. [process EXCEPT !.draft = NONE, !.pc[t] = "ask"].creds = process.creds
      BY <2>1 DEF Process
    <3>4. QED
      BY <2>3, <3>1, <3>2, <3>3 DEF SaveFails
  <2>4. QED
    BY <2>2, <2>3
<1>3. TypeOK'
  BY <1>1, <1>2, ClaimAssumption DEF Fault, IInv, TypeOK
<1>4. InPlace' /\ InHand'
  <2>1. process \in Process /\ Running
    BY Up DEF IInv, TypeOK, InitOutboxFails, Unanswered, SaveFails, Threads
  <2>2. CASE process' = Down
    BY <1>1, <2>1, <2>2, StaysInPlace DEF InHand, Down, Threads, Saving
  <2>3. CASE InitOutboxFails \/ Unanswered
    <3>1. /\ process'.dir = process.dir /\ process'.creds = process.creds /\ process'.draft = process.draft
          /\ process'.lock = process.lock /\ process'.pc["main"] = process.pc["main"]
          /\ \/ process'.pc["sync"] = "dead"
             \/ process'.pc["sync"] = "ask" /\ process.pc["sync"] \in {"status", "reply"}
      BY <2>1, <2>3 DEF InitOutboxFails, Unanswered, Process, Threads
    <3>2. InHand'
      BY <1>1, <3>1 DEF IInv, InHand, Threads, Saving, Absent, Stranded, Claimed, Running
    <3>3. QED
      BY <1>1, <2>1, <3>1, <3>2, StaysInPlace DEF Running
  <2>4. ASSUME NEW t \in Threads, SaveFails(t), process' # Down
        PROVE  InPlace' /\ InHand'
    <3>1. t = "sync" /\ process.pc[t] \in Saving
      BY <2>4 DEF SaveFails, Saving, Raised, IInv, InHand, Threads
    <3>2. /\ process'.dir = process.dir /\ process'.creds = process.creds
          /\ process'.pc["main"] = process.pc["main"] /\ process'.draft = NONE
          /\ \/ process'.pc["sync"] = "dead" /\ process.creds = NONE
             \/ process'.pc["sync"] = "ask" /\ process.creds # NONE /\ process'.lock = process.lock
      BY <2>1, <2>4, <3>1 DEF SaveFails, Raised, Process, Threads
    <3>3. process.pc["main"] \notin Saving /\ (process.creds = NONE => process.pc["main"] # "load")
      BY <3>1 DEF IInv, InHand, Threads, Saving
    <3>4. InHand'
      BY <1>1, <3>2, <3>3 DEF IInv, InHand, Threads, Saving, Running
    <3>5. QED
      BY <1>1, <2>1, <3>2, <3>4, StaysInPlace DEF Running
  <2>5. QED
    BY <2>2, <2>3, <2>4
<1>5. QED
  BY <1>1, <1>2, <1>3, <1>4, NoFileTouched, InHandIsKnown, ClaimAssumption

\* The claim is asked for and the key picked up.
LEMMA AskIInv == ASSUME IInv, Register \/ Status \/ TakeKey PROVE IInv'
<1>1. /\ UNCHANGED <<disk, state_dir, unit, seen, migration, unflushed, cut, faults>>
      /\ server'.claimed = server.claimed
  BY DEF Register, Status, TakeKey, outside, operator, IInv, TypeOK
<1>2. process \in Process /\ process.creds \in Creds
  BY DEF Register, Status, TakeKey, IInv, TypeOK, InHand, Threads, Process
<1>3. server' \in [registered : SUBSET Ids, claimed : SUBSET Ids, pending : SUBSET Ids]
  BY <1>2 DEF Register, Status, TakeKey, outside, IInv, TypeOK, Creds
<1>4. /\ [process.creds EXCEPT !.key = TRUE] \in Creds
      /\ [process.creds EXCEPT !.key = TRUE].id = process.creds.id
  BY <1>2 DEF Creds
<1>5. /\ process' \in Process /\ process'.creds \in Creds /\ process'.creds.id = process.creds.id
      /\ process'.dir = process.dir /\ process'.lock = process.lock
      /\ process'.pc["main"] = process.pc["main"]
      /\ \/ process'.pc["sync"] \in {"status", "reply", "ask"}
         \/ process'.pc["sync"] = "open" /\ process'.draft = process'.creds
  <2>1. CASE Register \/ Status
    BY <2>1, <1>2 DEF Register, Status, Process, Threads
  <2>2. CASE TakeKey
    <3> DEFINE c == [process.creds EXCEPT !.key = TRUE]
    <3>1. c \in Creds /\ c.id = process.creds.id
      BY <1>4
    <3>2. process' = [process EXCEPT !.creds = c, !.draft = c, !.pc["sync"] = "open"]
      BY <2>2 DEF TakeKey
    <3> HIDE DEF c
    <3>3. QED
      BY <1>2, <3>1, <3>2 DEF Process, Threads
  <2>3. QED
    BY <2>1, <2>2
<1>6. TypeOK'
  BY <1>1, <1>3, <1>5 DEF IInv, TypeOK
<1>7. process.creds # NONE /\ Running /\ process.pc["sync"] \notin Saving
  BY <1>2, ClaimAssumption DEF Register, Status, TakeKey, IInv, InHand, Threads, Saving
<1>8. InPlace'
  BY <1>1, <1>5, <1>7 DEF IInv, InPlace, Running, Absent
<1>9. InHand'
  BY <1>1, <1>2, <1>5, <1>7, ClaimAssumption DEF IInv, InHand, Running, Absent, Saving, Threads
<1>10. QED
  BY <1>1, <1>2, <1>5, <1>6, <1>8, <1>9, NoFileTouched, InHandIsKnown

LEMMA StoppedIInv == ASSUME IInv, Kill \/ TakeUnit PROVE IInv'
<1>1. /\ UNCHANGED <<disk, state_dir, server, seen, migration, unflushed, cut>>
      /\ process' = Down /\ faults' \in 0..MaxFaults /\ unit' \in {"old", "new"}
  BY ClaimAssumption DEF Kill, TakeUnit, outside, operator, Fault, IInv, TypeOK
<1>2. TypeOK'
  BY <1>1, DownType DEF IInv, TypeOK
<1>3. InPlace' /\ InHand'
  BY <1>1 DEF IInv, InPlace, InHand, Running, Absent, Down, Threads, Saving
<1>4. QED
  BY <1>1, <1>2, <1>3, NoFileTouched, ClaimAssumption DEF Down

LEMMA HeartbeatIInv == ASSUME IInv, Heartbeat PROVE IInv'
<1>1. UNCHANGED <<disk, state_dir, unit, process, server, migration, unflushed, cut, faults>>
  BY DEF Heartbeat, operator
<1>2. process.creds \in Creds
  BY DEF Heartbeat, IInv, TypeOK, InHand, Threads, Process
<1>3. TypeOK'
  BY <1>1, <1>2 DEF Heartbeat, IInv, TypeOK, Creds
<1>4. InPlace' /\ InHand'
  BY <1>1 DEF IInv, InPlace, InHand, Running, Absent, Claimed, Stranded
<1>5. QED
  BY <1>1, <1>3, <1>4, NoFileTouched, InHandIsKnown

\* Only an identity that the receiver has is ever claimed.
LEMMA ClaimDeviceIInv == ASSUME IInv, ClaimDevice PROVE IInv'
<1> DEFINE i == process.creds.id
<1>1. /\ UNCHANGED <<disk, state_dir, unit, process, seen, migration, cut, faults, unflushed>>
      /\ unflushed = NONE /\ process.creds # NONE /\ i \in server.registered
      /\ server' = [server EXCEPT !.claimed = @ \cup {i}, !.pending = @ \cup {i}]
  BY DEF ClaimDevice, operator
<1>2. process.creds \in Creds /\ i \in Ids /\ i \in Identities
  BY <1>1, InHandIsKnown DEF IInv, TypeOK, Process, Creds
<1> HIDE DEF i
<1>3. /\ server' \in [registered : SUBSET Ids, claimed : SUBSET Ids, pending : SUBSET Ids]
      /\ server'.claimed = server.claimed \cup {i}
  BY <1>1, <1>2 DEF IInv, TypeOK
<1>4. TypeOK'
  BY <1>1, <1>3 DEF IInv, TypeOK
<1>5. InPlace'
  BY <1>1 DEF IInv, InPlace, Running, Absent
<1>6. InHand'
  BY <1>1 DEF IInv, InHand, Running, Absent, Stranded, Saving
<1>7. OneIdentity'
  <2>1. \A c \in Creds : MayReturn(c)' => c.id \in Identities \cup server.claimed
    BY <1>1 DEF MayReturn, Absent, Identities
  <2>2. QED
    BY <1>2, <1>3, <2>1, NoNewIdentity DEF IInv
<1>8. Kept'
  <2>1. disk[process.dir].creds \in Creds /\ process.dir \in {"install", "state"}
    BY <1>1 DEF IInv, InHand, TypeOK, Process
  <2>2. QED
    BY <1>1, <2>1, ClaimAssumption DEF Kept, Absent
<1>9. Undoable' /\ NoRival' /\ Whole'
  BY <1>1 DEF IInv, Undoable, NoRival, Whole, Absent
<1>10. Moving' /\ MovesAll'
  BY <1>1 DEF IInv, Moving, MovesAll, MovedCreds, MovedQueue, Absent, source, destination
<1>11. QED
  BY <1>4, <1>5, <1>6, <1>7, <1>8, <1>9, <1>10 DEF IInv

-----------------------------------------------------------------------------
(* The receiver's files.                                                   *)

\* Files are only moved while the receiver is stopped.
LEMMA NotMoving == IInv /\ Running => migration.pc = "idle"
  BY DEF IInv, InPlace

LEMMA InitOutboxIInv == ASSUME IInv, InitOutbox PROVE IInv'
<1> DEFINE d == process.dir
<1>1. /\ process \in Process /\ d \in {"install", "state"} /\ Running /\ migration.pc = "idle"
      /\ disk \in [{"install", "state", "aside"} -> Directory]
  BY Up, NotMoving DEF InitOutbox, Threads, IInv, TypeOK, Process
<1>2. /\ UNCHANGED <<state_dir, unit, server, seen, migration, unflushed, cut, faults>>
      /\ process' = [process EXCEPT !.pc["sync"] = "get"]
      /\ disk' = disk \/ disk' = [disk EXCEPT ![d].queue = "new"]
  BY DEF InitOutbox, outside, operator
<1> HIDE DEF d
<1>3. /\ disk' \in [{"install", "state", "aside"} -> Directory]
      /\ \A e \in {"install", "state", "aside"} : /\ disk'[e].creds = disk[e].creds
                                                  /\ disk'[e].tmp = disk[e].tmp
                                                  /\ disk'[e].queue \in {disk[e].queue, "new"}
      /\ disk'["aside"] = disk["aside"]
  BY <1>1, <1>2 DEF Directory
<1>4. /\ process' \in Process /\ process'.dir = d /\ process'.creds = process.creds
      /\ process'.lock = process.lock /\ process'.draft = process.draft
      /\ process'.pc["main"] = process.pc["main"] /\ process'.pc["sync"] = "get"
  BY <1>1, <1>2 DEF Process, Threads, d
<1>5. TypeOK'
  BY <1>2, <1>3, <1>4 DEF IInv, TypeOK
<1>6. InPlace'
  BY <1>1, <1>2, <1>3, <1>4 DEF IInv, InPlace, Running, Absent, d
<1>7. InHand'
  BY <1>1, <1>2, <1>3, <1>4 DEF IInv, InHand, Threads, Saving, Absent, Stranded, Claimed,
     Running, d
<1>8. OneIdentity'
  <2>1. \A c \in Creds : MayReturn(c)' => c.id \in Identities \cup server.claimed
    BY <1>2, <1>3, <1>4 DEF MayReturn, Absent, Identities
  <2>2. QED
    BY <1>2, <2>1, NoNewIdentity DEF IInv
<1>9. Kept' /\ NoRival' /\ Whole' /\ Undoable'
  <2>1. unflushed # NONE => unflushed.dir \in {"install", "state"}
    BY DEF IInv, TypeOK
  <2>2. QED
    BY <1>2, <1>3, <2>1 DEF IInv, Kept, NoRival, Whole, Undoable, Absent, Claimed
<1>10. Moving' /\ MovesAll'
  <2>1. disk'["state"].queue = ABSENT => disk'["aside"].queue = ABSENT
    BY <1>3, ClaimAssumption DEF IInv, Moving
  <2>2. QED
    BY <1>1, <1>2, <1>3, <2>1 DEF IInv, Moving, MovesAll, Absent
<1>11. QED
  BY <1>5, <1>6, <1>7, <1>8, <1>9, <1>10 DEF IInv

\* What a thread that saves may rely on.
LEMMA Writer ==
  ASSUME IInv, NEW t \in Threads, process.pc[t] \in Saving
  PROVE  /\ process \in Process /\ process.dir \in {"install", "state"} /\ Running
         /\ disk \in [{"install", "state", "aside"} -> Directory] /\ migration.pc = "idle"
         /\ process.draft \in Creds
         /\ process.creds # NONE => /\ t = "sync" /\ process.draft.id = process.creds.id
                                    /\ ~ Absent(process.dir)
         /\ process.creds = NONE => /\ Absent(process.dir) /\ ~ Stranded /\ ~ Claimed
                                    /\ process.lock = t
         /\ process.dir = "state" <=> state_dir
         /\ \A u \in Threads : process.pc[u] \in Saving => u = t
<1>1. process \in Process /\ process.dir \in {"install", "state"} /\ Running
      /\ disk \in [{"install", "state", "aside"} -> Directory] /\ migration.pc = "idle"
  BY Up, NotMoving DEF IInv, TypeOK, Process, Saving
<1>2. process.creds # NONE => ~ Absent(process.dir)
  BY ClaimAssumption DEF IInv, InHand, Absent
<1>3. QED
  BY <1>1, <1>2 DEF IInv, InHand, InPlace, Saving

\* Where the receiver writes, nothing moves and the other directories stay.
LEMMA WriteKeeps ==
  ASSUME IInv, Running, disk' \in [{"install", "state", "aside"} -> Directory],
         UNCHANGED <<state_dir, migration, server, cut>>,
         \A e \in {"install", "state", "aside"} : /\ e # process.dir => disk'[e] = disk[e]
                                                  /\ disk'[e].queue = disk[e].queue,
         disk'[process.dir].creds = disk[process.dir].creds \/ disk'[process.dir].creds \in Creds,
         process'.dir = process.dir, process'.pc["main"] # "down",
         Absent(process.dir) => ~ Stranded
  PROVE  InPlace' /\ Kept' /\ NoRival' /\ Whole' /\ Moving' /\ MovesAll'
<1>1. /\ process.dir \in {"install", "state"} /\ migration.pc = "idle"
      /\ process.dir = "state" <=> state_dir
  BY NotMoving DEF IInv, TypeOK, Process, InPlace
<1>2. InPlace'
  BY <1>1 DEF IInv, InPlace, Running, Absent
<1>3. Kept'
  BY <1>1, ClaimAssumption DEF IInv, Kept, Absent, Claimed
<1>4. Whole'
  BY <1>1, ClaimAssumption DEF IInv, Whole, Absent
<1>5. Moving' /\ MovesAll'
  BY <1>1, ClaimAssumption DEF IInv, Moving, MovesAll, Absent
<1>6. NoRival'
  <2>1. CASE process.dir = "install"
    BY <1>1, <2>1 DEF IInv, InPlace, NoRival, Absent
  <2>2. CASE process.dir = "state"
    BY <1>1, <2>2, ClaimAssumption DEF IInv, NoRival, Absent, Stranded
  <2>3. QED
    BY <1>1, <2>1, <2>2
<1>7. QED
  BY <1>2, <1>3, <1>4, <1>5, <1>6

LEMMA TemporaryIInv ==
  ASSUME IInv, NEW t \in Threads, OpenTemporary(t) \/ WriteTemporary(t)
  PROVE  IInv'
<1>0. PICK d \in {"install", "state"} : d = process.dir
  BY DEF IInv, TypeOK, Process
<1>1. /\ process.pc[t] \in Saving
      /\ UNCHANGED <<state_dir, unit, server, seen, migration, unflushed, cut, faults>>
      /\ \/ /\ process.pc[t] = "open" /\ process' = [process EXCEPT !.pc[t] = "write"]
            /\ disk' = [disk EXCEPT ![d].tmp = TORN]
         \/ /\ process.pc[t] = "write" /\ process' = [process EXCEPT !.pc[t] = "replace"]
            /\ disk' = [disk EXCEPT ![d].tmp = process.draft]
  BY <1>0 DEF OpenTemporary, WriteTemporary, Saving, outside, operator
<1>2. /\ process \in Process /\ d \in {"install", "state"} /\ Running
      /\ disk \in [{"install", "state", "aside"} -> Directory]
      /\ process.draft \in Creds /\ (Absent(d) => ~ Stranded)
      /\ process.creds # NONE => process.draft.id = process.creds.id
      /\ process.creds = NONE => Absent(d) /\ process.lock = t
      /\ \A u \in Threads : process.pc[u] \in Saving => u = t
  BY <1>0, <1>1, Writer
<1>3. /\ disk' \in [{"install", "state", "aside"} -> Directory]
      /\ \A e \in {"install", "state", "aside"} : /\ e # d => disk'[e] = disk[e]
                                                  /\ disk'[e].queue = disk[e].queue
                                                  /\ disk'[e].creds = disk[e].creds
      /\ disk'[d].tmp \in {TORN, process.draft}
      /\ process.pc[t] = "write" => disk'[d].tmp = process.draft
  BY <1>1, <1>2 DEF Directory, Content
<1>4. /\ process' \in Process /\ process'.dir = d /\ process'.creds = process.creds
      /\ process'.lock = process.lock /\ process'.draft = process.draft
      /\ \A u \in Threads : u # t => process'.pc[u] = process.pc[u]
      /\ \/ process'.pc[t] = "write"
         \/ process'.pc[t] = "replace" /\ process.pc[t] = "write"
  BY <1>0, <1>1, <1>2 DEF Process, Threads
<1>5. TypeOK'
  BY <1>1, <1>3, <1>4 DEF IInv, TypeOK
<1>6. InPlace' /\ Kept' /\ NoRival' /\ Whole' /\ Moving' /\ MovesAll'
  <2>1. process'.pc["main"] # "down"
    BY <1>2, <1>4 DEF Running, Threads
  <2>2. QED
    BY <1>0, <1>1, <1>2, <1>3, <1>4, <2>1, WriteKeeps
<1>7. InHand'
  <2>1. Absent(d)' <=> Absent(d)
    BY <1>2, <1>3 DEF Absent
  <2>2. Stranded' <=> Stranded
    BY <1>0, <1>2, <1>3, <1>4 DEF Stranded
  <2>3. Running'
    BY <1>2, <1>4 DEF Running, Threads
  <2>4. \A u \in Threads : u # t => process'.pc[u] \notin Saving
    BY <1>2, <1>4
  <2>5. process'.pc[t] \in Saving /\ process.pc[t] \in Saving
    BY <1>1, <1>4 DEF Saving
  <2>6. IInv /\ d = process.dir /\ Claimed' = Claimed /\ disk'[d].creds = disk[d].creds
    BY <1>0, <1>1, <1>2, <1>3 DEF Claimed
  <2>7. process'.creds # NONE => /\ Running' /\ disk'[d].creds \in Creds
                                 /\ disk'[d].creds.id = process'.creds.id
    BY <1>4, <2>3, <2>6 DEF IInv, InHand
  <2>8. ASSUME NEW u \in Threads
        PROVE  /\ process'.pc[u] = "load" => process'.creds = NONE
               /\ process'.pc[u] \in {"beat", "ask", "status", "reply"} => process'.creds # NONE
               /\ process'.pc[u] \in {"load"} \cup Saving /\ process'.creds = NONE => process'.lock = u
    BY <1>2, <1>4, <2>5 DEF IInv, InHand, Saving
  <2>9. /\ process'.draft \in Creds
        /\ IF process'.creds # NONE THEN t = "sync" /\ process'.draft.id = process'.creds.id
           ELSE Absent(d)' /\ ~ Stranded' /\ ~ Claimed'
    BY <1>4, <2>1, <2>2, <2>5, <2>6 DEF IInv, InHand
  <2>10. process'.pc[t] = "replace" => disk'[d].tmp = process'.draft
    BY <1>3, <1>4
  <2>11. QED
    BY <1>4, <2>4, <2>7, <2>8, <2>9, <2>10 DEF InHand, Saving
<1>8. OneIdentity'
  <2>1. ASSUME NEW c \in Creds, MayReturn(c)'
        PROVE  c.id \in Identities \cup server.claimed
    <3>1. CASE c = disk'[d].tmp /\ ~ Absent(d)'
      <4>1. c = process.draft /\ process.creds \in Creds /\ process.draft.id = process.creds.id
        BY <1>2, <1>3, <3>1, ClaimAssumption DEF Absent, Process
      <4>2. QED
        BY <4>1, InHandIsKnown
    <3>2. CASE ~ (c = disk'[d].tmp /\ ~ Absent(d)')
      BY <1>1, <1>2, <1>3, <1>4, <2>1, <3>2 DEF MayReturn, Absent, Identities
    <3>3. QED
      BY <3>1, <3>2
  <2>2. QED
    BY <1>1, <2>1, NoNewIdentity DEF IInv
<1>9. Undoable'
  <2>1. unflushed # NONE => unflushed.dir \in {"install", "state"}
    BY DEF IInv, TypeOK
  <2>2. QED
    BY <1>1, <1>2, <1>3, <2>1 DEF IInv, Undoable, Absent, Claimed
<1>10. QED
  BY <1>5, <1>6, <1>7, <1>8, <1>9 DEF IInv

LEMMA ReplaceIInv == ASSUME IInv, NEW t \in Threads, Replace(t) PROVE IInv'
<1>0. PICK d \in {"install", "state"}, c \in Creds : d = process.dir /\ c = process.draft
  BY Writer DEF Replace, Saving, IInv, TypeOK, Process
<1>1. /\ process.pc[t] = "replace" /\ process.pc[t] \in Saving
      /\ UNCHANGED <<state_dir, unit, server, seen, migration, cut, faults>>
      /\ disk' = [disk EXCEPT ![d].creds = c, ![d].tmp = ABSENT]
      /\ unflushed' = [dir |-> d, before |-> disk[d].creds]
  BY <1>0 DEF Replace, Saving, outside, operator, IInv, InHand
<1>2. /\ process \in Process /\ d \in {"install", "state"} /\ Running /\ migration.pc = "idle"
      /\ disk \in [{"install", "state", "aside"} -> Directory] /\ c \in Creds
      /\ process.creds # NONE => t = "sync" /\ c.id = process.creds.id /\ ~ Absent(d)
      /\ process.creds = NONE => Absent(d) /\ ~ Stranded /\ ~ Claimed /\ process.lock = t
      /\ d = "state" <=> state_dir
      /\ \A u \in Threads : process.pc[u] \in Saving => u = t
  BY <1>0, <1>1, Writer
<1>3. /\ process' \in Process /\ process'.dir = d
      /\ \A u \in Threads : process'.pc[u] = IF u = t THEN process'.pc[t] ELSE process.pc[u]
      /\ IF process.creds = NONE THEN /\ process'.creds = c /\ process'.pc[t] = Loop(t)
         ELSE process'.creds = process.creds /\ process'.pc[t] = "ask"
  BY <1>0, <1>1, <1>2 DEF Replace, Process, Threads, Loop
<1>4. /\ disk' \in [{"install", "state", "aside"} -> Directory]
      /\ \A e \in {"install", "state", "aside"} : /\ e # d => disk'[e] = disk[e]
                                                  /\ disk'[e].queue = disk[e].queue
      /\ disk'[d].creds = c /\ disk'[d].tmp = ABSENT
  BY <1>1, <1>2 DEF Directory, Content
<1>5. /\ unflushed' \in [dir : {"install", "state"}, before : Content]
      /\ unflushed'.dir = d /\ unflushed'.before = disk[d].creds
  BY <1>1, <1>2 DEF Directory
<1>6. process'.pc["main"] # "down"
  BY <1>2, <1>3 DEF Running, Threads, Loop
<1>7. process'.creds \in Creds /\ process'.creds.id = c.id /\ process'.creds # NONE
  BY <1>2, <1>3, ClaimAssumption DEF Process
<1>8. TypeOK'
  BY <1>1, <1>3, <1>4, <1>5 DEF IInv, TypeOK
<1>9. InPlace' /\ Kept' /\ NoRival' /\ Whole' /\ Moving' /\ MovesAll'
  BY <1>0, <1>1, <1>2, <1>3, <1>4, <1>6, WriteKeeps
<1>10. InHand'
  <2>1. \A u \in Threads : process'.pc[u] \notin {"load"} \cup Saving
    BY <1>1, <1>2, <1>3 DEF IInv, InHand, Loop, Saving
  <2>2. QED
    BY <1>3, <1>4, <1>6, <1>7, <2>1 DEF InHand, Running, Saving
<1>11. OneIdentity'
  <2>1. CASE process.creds # NONE
    <3>1. c.id \in Identities
      BY <1>2, <2>1, InHandIsKnown, ClaimAssumption DEF Process
    <3>2. ASSUME NEW e \in Creds, MayReturn(e)'
          PROVE  e.id \in Identities \cup server.claimed
      <4>1. e.id = c.id \/ MayReturn(e)
        BY <1>2, <1>3, <1>4, <1>5, <2>1, <3>2, ClaimAssumption DEF MayReturn, Absent
      <4>2. QED
        BY <3>1, <4>1 DEF Identities
    <3>3. QED
      BY <1>1, <3>2, NoNewIdentity DEF IInv
  <2>2. CASE process.creds = NONE
    <3>1. \A x \in {"install", "state"} : x # d => Absent(x)'
      <4>1. d = "state" => disk["install"].creds = ABSENT
        BY <1>0, <1>2, <2>2 DEF Absent, Stranded
      <4>2. d = "install" => disk["state"].creds = ABSENT
        BY <1>2, <2>2 DEF IInv, InPlace, Absent
      <4>3. QED
        BY <1>4, <4>1, <4>2 DEF Absent
    <3>2. disk[d].creds = ABSENT
      BY <1>2, <2>2 DEF Absent
    <3>3. ASSUME NEW e \in Creds, MayReturn(e)' PROVE e.id = c.id
      BY <1>4, <1>5, <1>7, <3>1, <3>2, <3>3, ClaimAssumption DEF MayReturn, Absent
    <3>4. server'.claimed = {}
      BY <1>1, <1>2, <2>2 DEF Claimed
    <3>5. QED
      BY <3>3, <3>4 DEF OneIdentity, Identities
  <2>3. QED
    BY <2>1, <2>2
<1>12. Undoable'
  <2>1. ~ Absent(d)'
    BY <1>2, <1>4, ClaimAssumption DEF Absent
  <2>2. disk[d].creds = ABSENT => process.creds = NONE
    BY <1>2 DEF Absent
  <2>3. CASE disk[d].creds = ABSENT /\ d = "state"
    <3>1. Absent("state") /\ Absent("install")
      BY <1>0, <1>2, <2>2, <2>3 DEF Absent, Stranded
    <3>2. Absent("install")' /\ disk'["aside"].creds = ABSENT /\ ~ Claimed'
      BY <1>1, <1>2, <1>4, <2>2, <2>3, <3>1 DEF IInv, Moving, Absent, Claimed
    <3>3. QED
      BY <1>5, <2>1, <3>2 DEF Undoable
  <2>4. CASE ~ (disk[d].creds = ABSENT /\ d = "state")
    BY <1>1, <1>2, <1>5, <2>1, <2>2, <2>4 DEF Undoable, Claimed
  <2>5. QED
    BY <2>3, <2>4
<1>13. QED
  BY <1>8, <1>9, <1>10, <1>11, <1>12 DEF IInv

-----------------------------------------------------------------------------
(* The operator's hand and the weather.                                    *)

LEMMA SalvageIInv == ASSUME IInv, Salvage PROVE IInv'
<1>1. /\ ~ Running /\ process = Down
      /\ UNCHANGED <<state_dir, unit, process, server, seen, migration, unflushed, cut, faults>>
  BY DEF Salvage, outside, operator, IInv, InPlace
<1>2. PICK d \in {"install", "state"} :
        /\ disk[d].creds = TORN /\ disk[d].tmp \in Creds
        /\ disk' = [disk EXCEPT ![d].creds = disk[d].tmp, ![d].tmp = ABSENT]
  BY DEF Salvage
<1>3. disk \in [{"install", "state", "aside"} -> Directory]
  BY DEF IInv, TypeOK
<1>4. /\ disk' \in [{"install", "state", "aside"} -> Directory]
      /\ \A e \in {"install", "state", "aside"} : /\ e # d => disk'[e] = disk[e]
                                                  /\ disk'[e].queue = disk[e].queue
      /\ disk'[d].creds = disk[d].tmp /\ disk'[d].tmp = ABSENT
  BY <1>2, <1>3 DEF Directory, Content
<1>5. ~ Absent(d) /\ ~ Absent(d)'
  BY <1>2, <1>4, ClaimAssumption DEF Absent
<1>6. TypeOK'
  BY <1>1, <1>4 DEF IInv, TypeOK
<1>7. InPlace'
  BY <1>1, <1>2, <1>4, <1>5 DEF IInv, InPlace, Absent, Running
<1>8. InHand'
  BY <1>1 DEF InHand, Down, Threads, Saving
<1>9. OneIdentity'
  <2>1. \A c \in Creds : MayReturn(c)' => c.id \in Identities
    BY <1>1, <1>2, <1>4, <1>5, ClaimAssumption DEF MayReturn, Absent, Identities
  <2>2. QED
    BY <1>1, <2>1, NoNewIdentity DEF IInv
<1>10. Kept' /\ NoRival'
  BY <1>1, <1>2, <1>4, <1>5 DEF IInv, Kept, NoRival, Absent, Claimed
<1>11. Whole'
  BY <1>1, <1>2, <1>4, <1>5, ClaimAssumption DEF IInv, Whole, Absent
<1>12. Undoable'
  <2>1. unflushed # NONE => unflushed.dir \in {"install", "state"}
    BY DEF IInv, TypeOK
  <2>2. \A e \in {"install", "state"} : Absent(e)' <=> Absent(e)
    BY <1>4, <1>5 DEF Absent
  <2>3. QED
    BY <1>1, <1>2, <1>4, <2>1, <2>2 DEF IInv, Undoable, Claimed
<1>13. Moving' /\ MovesAll'
  <2>1. migration.file \in {"creds", "queue"}
    BY DEF IInv, TypeOK
  <2>2. CASE migration.file = "queue"
    BY <1>1, <1>2, <1>3, <1>4, <1>5, <2>2, ClaimAssumption
       DEF IInv, Moving, MovesAll, MovedCreds, MovedQueue, Absent, source, destination,
          Directory
  <2>3. CASE migration.file = "creds"
    BY <1>1, <1>2, <1>3, <1>4, <1>5, <2>3, ClaimAssumption
       DEF IInv, Moving, MovesAll, MovedCreds, MovedQueue, Absent, source, destination,
          Directory
  <2>4. QED
    BY <2>1, <2>2, <2>3
<1>14. QED
  BY <1>6, <1>7, <1>8, <1>9, <1>10, <1>11, <1>12, <1>13 DEF IInv

LEMMA FlushIInv == ASSUME IInv, Flush PROVE IInv'
<1>1. /\ UNCHANGED <<disk, state_dir, unit, process, server, seen, migration, cut, faults>>
      /\ unflushed' = NONE
  BY DEF Flush, outside, operator
<1>2. TypeOK' /\ InPlace' /\ InHand'
  BY <1>1 DEF IInv, TypeOK, InPlace, InHand, Running, Absent, Claimed, Stranded
<1>3. OneIdentity'
  <2>1. \A c \in Creds : MayReturn(c)' => c.id \in Identities
    BY <1>1 DEF MayReturn, Absent, Identities
  <2>2. QED
    BY <1>1, <2>1, NoNewIdentity DEF IInv
<1>4. Kept' /\ Undoable' /\ NoRival' /\ Whole' /\ Moving' /\ MovesAll'
  BY <1>1 DEF IInv, Kept, Undoable, NoRival, Whole, Moving, MovesAll, MovedCreds, MovedQueue,
     Absent,
     Claimed, source, destination
<1>5. QED
  BY <1>2, <1>3, <1>4 DEF IInv

\* What the power cut undoes is a file that replaced another, or the first one of a new
\* identity that nobody has claimed.
LEMMA PowerCutIInv == ASSUME IInv, PowerCut PROVE IInv'
<1>1. /\ cut' = TRUE /\ process' = Down /\ unflushed' = NONE /\ faults' \in 0..MaxFaults
      /\ migration' = [migration EXCEPT !.pc = "idle", !.ok = FALSE]
      /\ UNCHANGED <<state_dir, unit, server, seen>>
  BY ClaimAssumption DEF PowerCut, Fault, IInv, TypeOK
<1>2. /\ disk \in [{"install", "state", "aside"} -> Directory]
      /\ unflushed # NONE => unflushed.dir \in {"install", "state"} /\ unflushed.before \in Content
  BY DEF IInv, TypeOK
<1>3. migration'.pc = "idle" /\ migration' \in Migrations
  BY <1>1 DEF IInv, TypeOK, Migrations
<1>4. /\ disk' \in [{"install", "state", "aside"} -> Directory]
      /\ \A e \in {"install", "state", "aside"} :
           /\ disk'[e].tmp = disk[e].tmp /\ disk'[e].queue = disk[e].queue
           /\ \/ disk'[e].creds = disk[e].creds
              \/ unflushed # NONE /\ e = unflushed.dir /\ disk'[e].creds \in {unflushed.before, TORN}
  <2>1. CASE unflushed = NONE
    BY <1>2, <2>1 DEF PowerCut
  <2>2. CASE unflushed # NONE
    <3>1. PICK d \in {"install", "state"}, c \in Content :
            /\ d = unflushed.dir /\ c \in {disk[d].creds, unflushed.before, TORN}
            /\ disk' = [disk EXCEPT ![d].creds = c]
      BY <1>2, <2>2 DEF PowerCut, Directory, Content
    <3>2. QED
      BY <1>2, <2>2, <3>1 DEF Directory
  <2>3. QED
    BY <2>1, <2>2
<1>5. disk'["aside"] = disk["aside"]
  BY <1>2, <1>4 DEF Directory
<1>6. \A e \in {"install", "state"} : /\ Absent(e) => Absent(e)'
                                      /\ Absent(e)' => Absent(e) \/ ~ Claimed
  BY <1>2, <1>4, ClaimAssumption DEF IInv, Undoable, Absent
<1>7. TypeOK'
  BY <1>1, <1>3, <1>4, DownType DEF IInv, TypeOK, Migrations
<1>8. InPlace' /\ InHand'
  BY <1>1, <1>3, <1>4, <1>6 DEF IInv, InPlace, InHand, Running, Down, Threads, Saving, Absent
<1>9. OneIdentity'
  <2>1. ASSUME NEW c \in Creds, MayReturn(c)' PROVE MayReturn(c)
    BY <1>1, <1>2, <1>4, <1>6, <2>1, ClaimAssumption DEF MayReturn, Absent, Down
  <2>2. \A c \in Creds : MayReturn(c)' => c.id \in Identities
    BY <2>1 DEF Identities
  <2>3. QED
    BY <1>1, <2>2, NoNewIdentity DEF IInv
<1>10. Kept'
  BY <1>1, <1>6 DEF IInv, Kept, Claimed
<1>11. NoRival'
  <2>1. SUFFICES ASSUME ~ Absent("install")', Absent("state")' PROVE disk["state"].tmp = ABSENT
    BY <1>4 DEF NoRival
  <2>2. ~ Absent("install")
    BY <1>6, <2>1
  <2>3. Absent("state")
    BY <1>2, <1>4, <2>1, <2>2, ClaimAssumption DEF IInv, Undoable, Absent
  <2>4. QED
    BY <2>2, <2>3 DEF IInv, NoRival
<1>12. Whole' /\ Undoable'
  BY <1>1 DEF Whole, Undoable
<1>13. Moving'
  <2>1. Absent("state")' => disk["aside"].creds = ABSENT
    BY <1>2, <1>4, ClaimAssumption DEF IInv, Undoable, Moving, Absent
  <2>2. QED
    BY <1>3, <1>4, <1>5, <2>1 DEF IInv, Moving, Absent
<1>14. MovesAll'
  BY <1>3 DEF MovesAll
<1>15. QED
  BY <1>7, <1>8, <1>9, <1>10, <1>11, <1>12, <1>13, <1>14 DEF IInv

-----------------------------------------------------------------------------
(* The migration.                                                          *)

\* A migration under way has the receiver stopped and the state directory created.
LEMMA Stopped ==
  IInv /\ migration.pc # "idle" => ~ Running /\ process = Down /\ state_dir
  BY DEF IInv, InPlace

\* What the stopped receiver keeps to when no file changes.
LEMMA NoFileMoved ==
  ASSUME IInv, process = Down, UNCHANGED <<disk, process, server, unflushed, cut>>,
         state_dir' \in {state_dir, TRUE}, migration'.pc # "idle" => state_dir',
         TypeOK', Moving', MovesAll'
  PROVE  IInv'
<1>1. ~ Running
  BY DEF Running, Down, Threads
<1>2. InPlace'
  BY <1>1 DEF IInv, TypeOK, InPlace, Running, Absent
<1>3. InHand'
  BY DEF InHand, Down, Threads, Saving
<1>4. OneIdentity'
  <2>1. \A c \in Creds : MayReturn(c)' => c.id \in Identities
    BY DEF MayReturn, Absent, Identities
  <2>2. QED
    BY <2>1, NoNewIdentity DEF IInv
<1>5. Kept' /\ Undoable' /\ NoRival' /\ Whole'
  BY DEF IInv, Kept, Undoable, NoRival, Whole, Absent, Claimed
<1>6. QED
  BY <1>2, <1>3, <1>4, <1>5 DEF IInv

LEMMA MigrateIInv == ASSUME IInv, Migrate PROVE IInv'
<1>1. /\ migration.pc = "idle" /\ process' = Down /\ state_dir' = TRUE
      /\ UNCHANGED <<disk, unit, server, seen, unflushed, cut, faults>>
  BY DEF Migrate
<1>2. /\ migration' \in Migrations /\ migration'.pc = "look" /\ migration'.file = "creds"
      /\ migration'.clean => Absent("state") /\ disk["state"].queue = ABSENT
  <2> DEFINE empty == disk["state"].creds = ABSENT /\ disk["state"].queue = ABSENT
  <2>1. migration.runs + 1 \in 0..MaxMigrations
    BY ClaimAssumption DEF Migrate, IInv, TypeOK
  <2>2. /\ migration' = [pc |-> "look", file |-> "creds", ok |-> TRUE, clean |-> empty,
                         runs |-> migration.runs + 1]
        /\ empty \in BOOLEAN
    BY DEF Migrate
  <2> HIDE DEF empty
  <2>3. migration' \in Migrations /\ migration'.pc = "look" /\ migration'.file = "creds"
        /\ migration'.clean = empty
    BY <2>1, <2>2 DEF Migrations
  <2>4. QED
    BY <2>3 DEF empty, Absent
<1>3. TypeOK'
  BY <1>1, <1>2, DownType DEF IInv, TypeOK, Migrations
<1>4. InPlace'
  BY <1>1, <1>2 DEF InPlace, Running, Down, Threads
<1>5. InHand'
  BY <1>1 DEF InHand, Down, Threads, Saving
<1>6. OneIdentity'
  <2>1. \A c \in Creds : MayReturn(c)' => c.id \in Identities
    BY <1>1, ClaimAssumption DEF MayReturn, Absent, Identities, Down
  <2>2. QED
    BY <1>1, <2>1, NoNewIdentity DEF IInv
<1>7. Kept' /\ Undoable' /\ NoRival' /\ Whole'
  BY <1>1 DEF IInv, Kept, Undoable, NoRival, Whole, Absent, Claimed
<1>8. Moving' /\ MovesAll'
  BY <1>1, <1>2 DEF IInv, Moving, MovesAll, Absent
<1>9. QED
  BY <1>3, <1>4, <1>5, <1>6, <1>7, <1>8 DEF IInv

\* What the next file's turn does to the run.
LEMMA AfterNextFile ==
  ASSUME TypeOK, NEW ok \in BOOLEAN, NextFile(ok)
  PROVE  /\ migration' \in Migrations
         /\ migration'.ok => migration.ok /\ ok
         /\ migration'.clean = migration.clean /\ migration'.file = "queue"
         /\ migration'.pc = IF migration.file = "creds" THEN "look" ELSE "done"
<1>1. migration \in Migrations
  BY DEF TypeOK, Migrations
<1>2. /\ migration'.ok = (migration.ok /\ ok) /\ migration'.file = "queue"
      /\ migration'.clean = migration.clean /\ migration'.runs = migration.runs
      /\ migration'.pc = IF migration.file = "creds" THEN "look" ELSE "done"
  BY <1>1 DEF NextFile, Migrations
<1>3. migration' \in Migrations
  BY <1>1 DEF NextFile, Migrations
<1>4. QED
  BY <1>2, <1>3

LEMMA NoCopyIInv == ASSUME IInv, SkipOrKeep \/ CopyFails \/ VerifyFails PROVE IInv'
<1>1. /\ UNCHANGED <<disk, state_dir, unit, process, server, seen, unflushed, cut>>
      /\ migration.pc \in {"look", "copying", "copied"} /\ faults' \in 0..MaxFaults
  <2>1. faults' = faults \/ Fault
    BY DEF SkipOrKeep, CopyFails, VerifyFails
  <2>2. faults' \in 0..MaxFaults
    BY <2>1, ClaimAssumption DEF Fault, IInv, TypeOK
  <2>3. QED
    BY <2>2 DEF SkipOrKeep, CopyFails, VerifyFails
<1>2. PICK ok \in BOOLEAN :
        /\ NextFile(ok)
        /\ ok => migration.pc = "look" /\ (source = ABSENT \/ destination # ABSENT)
  BY DEF SkipOrKeep, CopyFails, VerifyFails, FailureCounts
<1>3. /\ migration' \in Migrations /\ migration'.clean = migration.clean
      /\ migration'.ok => migration.ok /\ ok
      /\ migration'.file = "queue" /\ migration'.pc \in {"look", "done"}
      /\ migration'.pc = "look" <=> migration.file = "creds"
      /\ migration.file \in {"creds", "queue"}
  BY <1>2, AfterNextFile DEF IInv, TypeOK
<1>4. TypeOK'
  BY <1>1, <1>3 DEF IInv, TypeOK, Migrations
<1>5. Moving'
  BY <1>1, <1>3 DEF IInv, Moving, Absent
<1>6. MovesAll'
  <2> SUFFICES ASSUME migration'.ok, migration'.clean PROVE MovesAll'
    BY DEF MovesAll
  <2>1. migration.ok /\ migration.clean /\ migration.pc = "look"
        /\ (source = ABSENT \/ destination # ABSENT)
    BY <1>2, <1>3
  <2>2. CASE migration.file = "creds"
    <3>1. disk["state"].queue = ABSENT /\ Absent("state") /\ Absent("install")
      BY <2>1, <2>2 DEF IInv, MovesAll, Absent, source, destination
    <3>2. disk["aside"].creds = ABSENT
      BY <3>1 DEF IInv, Moving
    <3>3. QED
      BY <1>1, <1>3, <2>2, <3>1, <3>2, ClaimAssumption DEF MovesAll, MovedCreds, Absent
  <2>3. CASE migration.file = "queue"
    <3>1. MovedCreds /\ disk["state"].queue = ABSENT /\ disk["install"].queue = ABSENT
      BY <2>1, <2>3 DEF IInv, MovesAll, source, destination
    <3>2. disk["aside"].queue = ABSENT
      BY <3>1 DEF IInv, Moving
    <3>3. QED
      BY <1>1, <1>3, <2>3, <3>1, <3>2 DEF MovesAll, MovedCreds, MovedQueue, Absent
  <2>4. QED
    BY <1>3, <2>2, <2>3
<1>7. QED
  BY <1>1, <1>4, <1>5, <1>6, Stopped, NoFileMoved

LEMMA EndedIInv == ASSUME IInv, Finish \/ Interrupted PROVE IInv'
<1>1. /\ UNCHANGED <<disk, state_dir, unit, process, server, seen, unflushed, cut>>
      /\ migration.pc # "idle" /\ faults' \in 0..MaxFaults
  BY ClaimAssumption DEF Finish, Interrupted, Fault, IInv, TypeOK
<1>2. migration'.pc = "idle" /\ migration' \in Migrations
  BY DEF Finish, Interrupted, Migrations, IInv, TypeOK
<1>3. TypeOK'
  BY <1>1, <1>2 DEF IInv, TypeOK, Migrations
<1>4. Moving' /\ MovesAll'
  BY <1>1, <1>2 DEF IInv, Moving, MovesAll, Absent
<1>5. QED
  BY <1>1, <1>2, <1>3, <1>4, Stopped, NoFileMoved

\* What a step that moves a file keeps, as far as it can be said at once: the receiver is
\* stopped, and the identities and the files it might look for are those that were there.
LEMMA FileMoved ==
  ASSUME IInv, migration.pc # "idle", UNCHANGED <<state_dir, process, server, cut>>, TypeOK',
         disk'["install"].tmp = disk["install"].tmp /\ disk'["state"].tmp = disk["state"].tmp,
         \A c \in Creds : MayReturn(c)' => c.id \in Identities \cup server.claimed,
         Kept', Undoable', NoRival', Whole', Moving', MovesAll'
  PROVE  IInv'
<1>1. process = Down /\ state_dir
  BY Stopped
<1>2. InPlace'
  BY <1>1 DEF InPlace, Running, Down, Threads
<1>3. InHand'
  BY <1>1 DEF InHand, Down, Threads, Saving
<1>4. OneIdentity'
  BY NoNewIdentity DEF IInv
<1>5. QED
  BY <1>2, <1>3, <1>4 DEF IInv

LEMMA CopyIInv == ASSUME IInv, Copy PROVE IInv'
<1>1. PICK f \in {"creds", "queue"} : f = migration.file
  BY DEF IInv, TypeOK
<1>2. /\ migration.pc = "look" /\ disk["install"][f] # ABSENT /\ disk["state"][f] = ABSENT
      /\ disk' = [disk EXCEPT !["state"][f] = TORN]
      /\ migration' = [migration EXCEPT !.pc = "copying"]
      /\ UNCHANGED <<state_dir, unit, process, server, seen, unflushed, cut, faults>>
  BY <1>1 DEF Copy, source, destination
<1>3. disk \in [{"install", "state", "aside"} -> Directory] /\ migration \in Migrations
  BY DEF IInv, TypeOK, Migrations
<1>4. /\ disk' \in [{"install", "state", "aside"} -> Directory]
      /\ \A e \in {"install", "aside"} : disk'[e] = disk[e]
      /\ disk'["state"].tmp = disk["state"].tmp
      /\ disk'["state"].creds = IF f = "creds" THEN TORN ELSE disk["state"].creds
      /\ disk'["state"].queue = IF f = "queue" THEN TORN ELSE disk["state"].queue
      /\ disk'["state"][f] = TORN /\ disk'["install"][f] = disk["install"][f]
  BY <1>1, <1>2, <1>3 DEF Directory, Content
<1>5. /\ migration' \in Migrations /\ migration'.pc = "copying" /\ migration'.file = f
      /\ migration'.ok = migration.ok /\ migration'.clean = migration.clean
  BY <1>1, <1>2, <1>3 DEF Migrations
<1>6. f = "creds" => ~ Absent("install") /\ Absent("state") /\ disk["state"].tmp = ABSENT
  BY <1>2 DEF Absent, IInv, NoRival
<1>7. TypeOK'
  BY <1>2, <1>4, <1>5 DEF IInv, TypeOK, Migrations
<1>8. \A c \in Creds : MayReturn(c)' => c.id \in Identities \cup server.claimed
  BY <1>2, <1>4, <1>6, ClaimAssumption DEF MayReturn, Absent, Identities
<1>9. Kept' /\ NoRival' /\ Whole'
  BY <1>2, <1>4, <1>6, ClaimAssumption DEF IInv, Kept, NoRival, Whole, Absent, Claimed
<1>10. Undoable'
  <2>1. unflushed # NONE => unflushed.dir \in {"install", "state"}
    BY DEF IInv, TypeOK
  <2>2. Absent("install")' <=> Absent("install")
    BY <1>4 DEF Absent
  <2>3. Absent("state")' => Absent("state")
    BY <1>4, ClaimAssumption DEF Absent
  <2>4. QED
    BY <1>2, <1>4, <2>1, <2>2, <2>3 DEF IInv, Undoable, Claimed
<1>11. Moving'
  <2>1. source' # ABSENT /\ destination' # ABSENT
    BY <1>2, <1>4, <1>5, ClaimAssumption DEF source, destination
  <2>2. QED
    BY <1>2, <1>4, <1>5, <2>1, ClaimAssumption DEF IInv, Moving, Absent
<1>12. MovesAll'
  BY <1>1, <1>2, <1>4, <1>5, <1>6 DEF IInv, MovesAll, MovedCreds, Absent
<1>13. QED
  BY <1>2, <1>4, <1>7, <1>8, <1>9, <1>10, <1>11, <1>12, FileMoved

LEMMA CopiedIInv == ASSUME IInv, Copied PROVE IInv'
<1>1. PICK f \in {"creds", "queue"} : f = migration.file
  BY DEF IInv, TypeOK
<1>2. /\ migration.pc = "copying" /\ disk["install"][f] # ABSENT /\ disk["state"][f] # ABSENT
      /\ disk' = [disk EXCEPT !["state"][f] = disk["install"][f]]
      /\ migration' = [migration EXCEPT !.pc = "copied"]
      /\ unflushed' = IF f = "creds" THEN [dir |-> "state", before |-> TORN] ELSE unflushed
      /\ UNCHANGED <<state_dir, unit, process, server, seen, cut, faults>>
  BY <1>1 DEF Copied, source, destination, IInv, Moving
<1>3. disk \in [{"install", "state", "aside"} -> Directory] /\ migration \in Migrations
  BY DEF IInv, TypeOK, Migrations
<1>4. /\ disk' \in [{"install", "state", "aside"} -> Directory]
      /\ \A e \in {"install", "aside"} : disk'[e] = disk[e]
      /\ disk'["state"].tmp = disk["state"].tmp
      /\ disk'["state"].creds = IF f = "creds" THEN disk["install"].creds ELSE disk["state"].creds
      /\ disk'["state"].queue = IF f = "queue" THEN disk["install"].queue ELSE disk["state"].queue
      /\ disk'["state"][f] = disk["install"][f] /\ disk'["install"][f] = disk["install"][f]
  BY <1>1, <1>2, <1>3 DEF Directory, Content
<1>5. /\ migration' \in Migrations /\ migration'.pc = "copied" /\ migration'.file = f
      /\ migration'.ok = migration.ok /\ migration'.clean = migration.clean
  BY <1>1, <1>2, <1>3 DEF Migrations
<1>6. /\ Absent("install")' <=> Absent("install")
      /\ Absent("state")' <=> Absent("state")
      /\ f = "creds" => ~ Absent("install") /\ ~ Absent("state")
  BY <1>2, <1>4 DEF Absent
<1>7. /\ unflushed' \in [dir : {"install", "state"}, before : Content] \cup {NONE}
      /\ \/ unflushed' = unflushed
         \/ f = "creds" /\ unflushed'.before = TORN /\ unflushed'.dir = "state"
      /\ unflushed # NONE => unflushed.dir \in {"install", "state"}
  BY <1>2 DEF Content, IInv, TypeOK
<1>8. TypeOK'
  BY <1>2, <1>4, <1>5, <1>7 DEF IInv, TypeOK, Migrations
<1>9. \A c \in Creds : MayReturn(c)' => c.id \in Identities \cup server.claimed
  BY <1>2, <1>4, <1>6, <1>7, ClaimAssumption DEF MayReturn, Identities
<1>10. Kept' /\ NoRival'
  BY <1>2, <1>4, <1>6 DEF IInv, Kept, NoRival, Claimed
<1>11. Whole'
  BY <1>2, <1>4, <1>6 DEF IInv, Whole
<1>12. Undoable'
  BY <1>2, <1>4, <1>6, <1>7, ClaimAssumption DEF IInv, Undoable, Claimed
<1>13. Moving'
  <2>1. source' # ABSENT /\ destination' # ABSENT
    BY <1>2, <1>4, <1>5 DEF source, destination
  <2>2. disk'["state"].queue = ABSENT => disk'["aside"].queue = ABSENT
    BY <1>2, <1>4 DEF IInv, Moving
  <2>3. QED
    BY <1>2, <1>4, <1>5, <1>6, <1>7, <2>1, <2>2 DEF IInv, Moving
<1>14. MovesAll'
  BY <1>1, <1>2, <1>4, <1>5, <1>6 DEF IInv, MovesAll, MovedCreds, source, destination, Absent
<1>15. QED
  BY <1>2, <1>4, <1>8, <1>9, <1>10, <1>11, <1>12, <1>13, <1>14, FileMoved

LEMMA SetAsideIInv == ASSUME IInv, SetAside PROVE IInv'
<1>1. PICK f \in {"creds", "queue"} : f = migration.file
  BY DEF IInv, TypeOK
<1>2. /\ migration.pc = "copied" /\ disk["install"][f] # ABSENT
      /\ disk["state"][f] # ABSENT /\ disk["state"][f] # TORN
      /\ disk' = [disk EXCEPT !["aside"][f] = disk["install"][f], !["install"][f] = ABSENT]
      /\ UNCHANGED <<state_dir, unit, process, server, seen, unflushed, cut, faults>>
  BY <1>1 DEF SetAside, Verified, source, destination, IInv, Moving
<1>3. disk \in [{"install", "state", "aside"} -> Directory] /\ migration \in Migrations
  BY DEF IInv, TypeOK, Migrations
<1>4. /\ disk' \in [{"install", "state", "aside"} -> Directory]
      /\ disk'["state"] = disk["state"] /\ disk'["install"].tmp = disk["install"].tmp
      /\ IF f = "creds"
         THEN /\ disk'["install"].creds = ABSENT /\ disk'["install"].queue = disk["install"].queue
              /\ disk'["aside"].creds = disk["install"].creds
              /\ disk'["aside"].queue = disk["aside"].queue
         ELSE /\ disk'["install"].creds = disk["install"].creds /\ disk'["install"].queue = ABSENT
              /\ disk'["aside"].creds = disk["aside"].creds
              /\ disk'["aside"].queue = disk["install"].queue
  BY <1>1, <1>2, <1>3 DEF Directory, Content
<1>5. /\ migration' \in Migrations /\ migration'.clean = migration.clean
      /\ migration'.ok => migration.ok
      /\ migration'.file = "queue"
      /\ migration'.pc = IF f = "creds" THEN "look" ELSE "done"
  <2>1. NextFile(TRUE)
    BY DEF SetAside
  <2>2. QED
    BY <1>1, <2>1, AfterNextFile DEF IInv
<1>6. /\ f = "creds" => ~ Absent("install") /\ ~ Absent("state") /\ disk["state"].creds # TORN
      /\ Absent("state")' <=> Absent("state")
      /\ Absent("install")' <=> Absent("install") \/ f = "creds"
  BY <1>2, <1>4 DEF Absent
<1>7. unflushed # NONE /\ f = "creds" => unflushed.dir = "state"
  BY <1>1, <1>2 DEF IInv, Moving
<1>8. TypeOK'
  BY <1>2, <1>4, <1>5 DEF IInv, TypeOK, Migrations
<1>9. \A c \in Creds : MayReturn(c)' => c.id \in Identities \cup server.claimed
  BY <1>2, <1>4, <1>6, ClaimAssumption DEF MayReturn, Identities
<1>10. Kept' /\ NoRival'
  BY <1>2, <1>4, <1>6 DEF IInv, Kept, NoRival, Claimed
<1>11. Whole'
  BY <1>2, <1>4, <1>6, ClaimAssumption DEF IInv, Whole
<1>12. Undoable'
  <2>1. unflushed # NONE => unflushed.dir \in {"install", "state"}
    BY DEF IInv, TypeOK
  <2>2. CASE f = "creds"
    BY <1>2, <1>4, <1>6, <1>7, <2>2 DEF IInv, Undoable, Claimed
  <2>3. CASE f = "queue"
    BY <1>2, <1>4, <1>6, <2>1, <2>3 DEF IInv, Undoable, Claimed
  <2>4. QED
    BY <2>2, <2>3
<1>13. Moving'
  BY <1>1, <1>2, <1>4, <1>5, <1>6 DEF IInv, Moving
<1>14. MovesAll'
  <2> SUFFICES ASSUME migration'.ok, migration'.clean PROVE MovesAll'
    BY DEF MovesAll
  <2>1. migration.ok /\ migration.clean /\ migration.pc = "copied"
    BY <1>2, <1>5
  <2>2. CASE f = "creds"
    <3>1. disk["state"].queue = ABSENT /\ disk["state"].creds = disk["install"].creds
      BY <1>1, <1>2, <2>1, <2>2 DEF IInv, MovesAll, source, destination
    <3>2. QED
      BY <1>2, <1>4, <1>5, <1>6, <2>2, <3>1 DEF MovesAll, MovedCreds, Absent
  <2>3. CASE f = "queue"
    <3>1. MovedCreds /\ disk["state"].queue = disk["install"].queue
      BY <1>1, <2>1, <2>3 DEF IInv, MovesAll, source, destination
    <3>2. QED
      BY <1>2, <1>4, <1>5, <2>3, <3>1 DEF MovesAll, MovedCreds, MovedQueue, Absent
  <2>4. QED
    BY <2>2, <2>3
<1>15. QED
  BY <1>2, <1>4, <1>8, <1>9, <1>10, <1>11, <1>12, <1>13, <1>14, FileMoved

-----------------------------------------------------------------------------
(* The theorems.                                                           *)

LEMMA InitIInv == Init => IInv
<1> SUFFICES ASSUME Init PROVE IInv
  OBVIOUS
<1>1. PICK old \in {Nothing} \cup [creds : {[id |-> FirstId, key |-> k] : k \in BOOLEAN},
                                   tmp : {ABSENT}, queue : {"rows"}] :
        /\ disk = [d \in {"install", "state", "aside"} |-> IF d = "install" THEN old ELSE Nothing]
        /\ server = [registered |-> IF old = Nothing THEN {} ELSE {old.creds.id},
                     claimed |-> IF old # Nothing /\ old.creds.key THEN {old.creds.id} ELSE {},
                     pending |-> {}]
        /\ unit \in IF old = Nothing THEN {"old", "new"} ELSE {"old"}
  BY DEF Init
<1>2. /\ state_dir = FALSE /\ process = Down /\ seen = {} /\ unflushed = NONE /\ cut = FALSE
      /\ faults = 0
      /\ migration = [pc |-> "idle", file |-> "creds", ok |-> TRUE, clean |-> TRUE, runs |-> 0]
  BY DEF Init
<1>3. FirstId \in Ids
  BY ClaimAssumption DEF FirstId
<1>4. /\ old \in Directory
      /\ old # Nothing => old.creds \in Creds /\ old.creds.id = FirstId /\ old.tmp = ABSENT
  <2>1. CASE old = Nothing
    BY <2>1 DEF Directory, Content, Nothing
  <2>2. CASE old # Nothing
    <3>1. \A k \in BOOLEAN : /\ [id |-> FirstId, key |-> k] \in Creds
                             /\ [id |-> FirstId, key |-> k].id = FirstId
      BY <1>3 DEF Creds
    <3>2. PICK k \in BOOLEAN : old.creds = [id |-> FirstId, key |-> k]
      BY <2>2
    <3>3. /\ old.tmp = ABSENT /\ old.queue = "rows"
          /\ old = [creds |-> old.creds, tmp |-> old.tmp, queue |-> old.queue]
      BY <2>2
    <3>4. QED
      BY <3>1, <3>2, <3>3 DEF Directory, Content
  <2>3. QED
    BY <2>1, <2>2
<1>5. Nothing \in Directory
  BY DEF Nothing, Directory, Content
<1>6. /\ disk \in [{"install", "state", "aside"} -> Directory]
      /\ disk["install"] = old /\ disk["state"] = Nothing /\ disk["aside"] = Nothing
  BY <1>1, <1>4, <1>5
<1>7. /\ server \in [registered : SUBSET Ids, claimed : SUBSET Ids, pending : SUBSET Ids]
      /\ server.claimed \subseteq {FirstId} /\ (server.claimed # {} => old.creds \in Creds)
  BY <1>1, <1>3, <1>4
<1>8. TypeOK
  <2>1. unit \in {"old", "new"} /\ faults \in 0..MaxFaults /\ migration.runs \in 0..MaxMigrations
    BY <1>1, <1>2, ClaimAssumption
  <2>2. QED
    BY <1>2, <1>6, <1>7, <2>1, DownType DEF TypeOK
<1>9. InPlace /\ InHand
  BY <1>2, <1>6 DEF InPlace, InHand, Running, Absent, Nothing, Down, Threads, Saving
<1>10. OneIdentity
  <2>1. \A c \in Creds : MayReturn(c) => c.id = FirstId
    BY <1>2, <1>4, <1>6, ClaimAssumption DEF MayReturn, Absent, Nothing, Down
  <2>2. QED
    BY <1>7, <2>1 DEF OneIdentity, Identities
<1>11. Kept /\ Undoable /\ NoRival /\ Whole
  BY <1>2, <1>4, <1>6, <1>7, ClaimAssumption DEF Kept, Undoable, NoRival, Whole, Absent,
     Claimed, Nothing
<1>12. Moving /\ MovesAll
  BY <1>2, <1>6 DEF Moving, MovesAll, Nothing
<1>13. QED
  BY <1>8, <1>9, <1>10, <1>11, <1>12 DEF IInv

LEMMA StepIInv == IInv /\ [Next]_vars => IInv'
<1> SUFFICES ASSUME IInv, [Next]_vars PROVE IInv'
  OBVIOUS
<1>1. CASE Receiver
  BY <1>1, BootIInv, StartIInv, InitOutboxIInv, AcquireIInv, TemporaryIInv, ReplaceIInv, AskIInv
     DEF Receiver, Save
<1>2. CASE Migration
  BY <1>2, NoCopyIInv, CopyIInv, CopiedIInv, SetAsideIInv, EndedIInv DEF Migration
<1>3. CASE UNCHANGED vars
  <2>1. UNCHANGED <<disk, state_dir, unit, process, server, seen, migration, unflushed, cut, faults>>
    BY <1>3 DEF vars
  <2>2. QED
    BY <2>1 DEF IInv, TypeOK, InPlace, InHand, OneIdentity, Identities, MayReturn, Kept,
       Undoable, NoRival,
       Whole, Moving, MovesAll, MovedCreds, MovedQueue, Absent, Claimed, Running, Stranded, source,
       destination
<1>4. QED
  BY <1>1, <1>2, <1>3, HeartbeatIInv, FailureIInv, ClaimDeviceIInv, StoppedIInv, SalvageIInv,
     MigrateIInv, EndedIInv, PowerCutIInv, FlushIInv DEF Next

\* What each step leaves of the copies of an identity, on disk, in hand and on the server.
THEOREM Inductive == Spec => []IInv
  BY InitIInv, StepIInv, PTL DEF Spec

\* Every variable of the receiver, its server and the migration keeps its type.
THEOREM TypeCorrect == Spec => []TypeOK
<1>1. IInv => TypeOK
  BY DEF IInv
<1>2. QED
  BY <1>1, Inductive, PTL

\* A receiver that has been claimed never runs as another device: load_or_create_credentials
\* generates an identity only where no file, temporary file or interrupted move could bring
\* the claimed one back, and nothing brings back another.
THEOREM ClaimedStaysItself == Spec => []StaysItself
<1>1. IInv => StaysItself
  <2> SUFFICES ASSUME IInv, process.creds # NONE, server.claimed # {}
               PROVE  process.creds.id \in server.claimed
    BY DEF StaysItself
  <2>1. process.creds.id \in Identities
    BY InHandIsKnown DEF IInv, TypeOK, Process
  <2>2. QED
    BY <2>1 DEF IInv, OneIdentity
<1>2. QED
  BY <1>1, Inductive, PTL

\* As long as the power was never cut, a claimed identity is on the disk, whole, whatever is
\* killed, fails to be written or is interrupted: save_credentials replaces the file and
\* migrate_state.py keeps the original until the copy is verified.
THEOREM ClaimedIsOnDisk == Spec => []IdentityOnDisk
<1>1. IInv => IdentityOnDisk
  <2> SUFFICES ASSUME IInv, ~ cut, NEW i \in server.claimed
               PROVE  \E d \in DOMAIN disk : \E c \in {disk[d].creds, disk[d].tmp} :
                        c \in Creds /\ c.id = i
    BY DEF IdentityOnDisk
  <2>1. disk \in [{"install", "state", "aside"} -> Directory] /\ Claimed
    BY DEF IInv, TypeOK, Claimed
  <2>2. PICK d \in {"install", "state"} : disk[d].creds # ABSENT /\ disk[d].creds # TORN
    BY <2>1 DEF IInv, Kept, Whole, Absent
  <2>3. disk[d].creds \in Creds
    BY <2>1, <2>2 DEF Directory, Content
  <2>4. disk[d].creds.id = i
    BY <2>3 DEF IInv, OneIdentity, Identities, MayReturn
  <2>5. QED
    BY <2>1, <2>3, <2>4
<1>2. QED
  BY <1>1, Inductive, PTL

\* When migrate_state.py, started on an empty state directory, says that everything moved,
\* both files are where the receiver will look for them and nothing is left behind.
THEOREM MigrationMovesAll == Spec => SuccessMeansMoved
<1> DEFINE Moved == Finish /\ migration.ok /\ migration.clean =>
                      /\ disk["install"].creds = ABSENT /\ disk["install"].queue = ABSENT
                      /\ disk["state"].creds = disk["aside"].creds
                      /\ disk["state"].queue = disk["aside"].queue
<1>1. IInv /\ [Next]_vars => [Moved]_vars
  BY DEF IInv, Finish, MovesAll, MovedCreds, MovedQueue, Absent
<1>2. QED
  BY <1>1, Inductive, PTL DEF Spec, SuccessMeansMoved
=============================================================================
