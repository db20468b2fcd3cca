-------------------------- MODULE BoardSetupProofs --------------------------
(* Theorems about BoardSetup, for any networks, lines and bounds.             *)
EXTENDS BoardSetup, TLAPS

\* What the boot has not come to yet is as a reset leaves it.
BeforeClaim ==
  {"off", "aborted", "console", "uplink", "wifi", "provisioning", "radio", "claim"}
NotYet ==
  /\ main \in {"off", "aborted", "console"} => console = "none"
  /\ main \in {"off", "aborted", "console", "uplink", "wifi"} => bt = Off /\ prov = "none"
  /\ main \in BeforeClaim => claim = Unclaimed

\* The manager runs inside provisioning_start_wifi, which fits Bluetooth to the role.
Fits ==
  /\ main # "aborted"
  /\ prov # "none" => main = "provisioning"
  /\ role = "ble" => bt.controller # "released"
  /\ role = "ble" /\ main \in {"claim", "start", "running"} => bt = On
  /\ role = "wifi" /\ main \in {"radio", "claim", "start", "running"} => bt.controller # "enabled"

\* The board's key is in the flash from when the task is done with it; before, it is not
\* ready.
KeySound ==
  /\ claim.ready => claim.pc = "done" /\ claim.key # NONE /\ nvs.key = claim.key
  /\ claim.pc = "store" => claim.key # NONE

\* A network that is stored, or that the board is being put on, has been sent since the
\* last reset of it, unless that reset is about to restart the board.
Resetting == console \in {"restored", "not_restored"}
Sent ==
  /\ nvs.wifi # NONE => given
  /\ ~ Resetting /\ prov \in {"joining", "joined"} => given
  /\ ~ Resetting /\ main \in {"radio", "claim", "start", "running"} => given

IInv == TypeOK /\ NotYet /\ Fits /\ KeySound /\ Sent

-----------------------------------------------------------------------------
(* Types.                                                                  *)

Claims == [pc : {"none", "load", "wait", "post", "poll", "store", "done"},
           code : BOOLEAN, key : Keys \cup {NONE}, ready : BOOLEAN]
Bounds == [commands : 0..MaxCommands, keys : 0..MaxKeys, moves : 0..MaxMoves, faults : 0..MaxFaults]

LEMMA Uses ==
  ASSUME used \in Bounds
  PROVE  /\ used.commands < MaxCommands => [used EXCEPT !.commands = @ + 1] \in Bounds
         /\ used.keys < MaxKeys => [used EXCEPT !.keys = @ + 1] \in Bounds /\ used.keys + 1 \in Keys
         /\ used.moves < MaxMoves => [used EXCEPT !.moves = @ + 1] \in Bounds
         /\ used.faults < MaxFaults => [used EXCEPT !.faults = @ + 1] \in Bounds
<1>1. used.commands \in Nat /\ used.keys \in Nat /\ used.moves \in Nat /\ used.faults \in Nat
  BY BoardSetupAssumption DEF Bounds
<1>2. used.commands < MaxCommands => [used EXCEPT !.commands = @ + 1] \in Bounds
  <2> SUFFICES ASSUME used.commands < MaxCommands PROVE [used EXCEPT !.commands = @ + 1] \in Bounds
    OBVIOUS
  <2> DEFINE n == used.commands + 1
  <2>1. n \in 0..MaxCommands
    BY <1>1, BoardSetupAssumption
  <2> HIDE DEF n
  <2>2. [used EXCEPT !.commands = n] \in Bounds
    BY <2>1 DEF Bounds
  <2>3. QED
    BY <2>1, <2>2 DEF n
<1>3. used.keys < MaxKeys => [used EXCEPT !.keys = @ + 1] \in Bounds /\ used.keys + 1 \in Keys
  <2> SUFFICES ASSUME used.keys < MaxKeys PROVE [used EXCEPT !.keys = @ + 1] \in Bounds /\ used.keys + 1 \in Keys
    OBVIOUS
  <2> DEFINE n == used.keys + 1
  <2>1. n \in 0..MaxKeys /\ n \in Keys
    BY <1>1, BoardSetupAssumption DEF Keys
  <2> HIDE DEF n
  <2>2. [used EXCEPT !.keys = n] \in Bounds
    BY <2>1 DEF Bounds
  <2>3. QED
    BY <2>1, <2>2 DEF n
<1>4. used.moves < MaxMoves => [used EXCEPT !.moves = @ + 1] \in Bounds
  <2> SUFFICES ASSUME used.moves < MaxMoves PROVE [used EXCEPT !.moves = @ + 1] \in Bounds
    OBVIOUS
  <2> DEFINE n == used.moves + 1
  <2>1. n \in 0..MaxMoves
    BY <1>1, BoardSetupAssumption
  <2> HIDE DEF n
  <2>2. [used EXCEPT !.moves = n] \in Bounds
    BY <2>1 DEF Bounds
  <2>3. QED
    BY <2>1, <2>2 DEF n
<1>5. used.faults < MaxFaults => [used EXCEPT !.faults = @ + 1] \in Bounds
  <2> SUFFICES ASSUME used.faults < MaxFaults PROVE [used EXCEPT !.faults = @ + 1] \in Bounds
    OBVIOUS
  <2> DEFINE n == used.faults + 1
  <2>1. n \in 0..MaxFaults
    BY <1>1, BoardSetupAssumption
  <2> HIDE DEF n
  <2>2. [used EXCEPT !.faults = n] \in Bounds
    BY <2>1 DEF Bounds
  <2>3. QED
    BY <2>1, <2>2 DEF n
<1>6. QED
  BY <1>2, <1>3, <1>4, <1>5

LEMMA Initially == Init => IInv
<1> SUFFICES ASSUME Init PROVE IInv
  OBVIOUS
<1>1. used \in Bounds
  BY BoardSetupAssumption DEF Init, Bounds
<1>2. TypeOK
  BY <1>1 DEF Init, TypeOK, Bounds, Off, Unclaimed
<1>3. NotYet /\ Fits /\ KeySound /\ Sent
  BY DEF Init, NotYet, BeforeClaim, Fits, KeySound, Sent, Off, Unclaimed
<1>4. QED
  BY <1>2, <1>3 DEF IInv

-----------------------------------------------------------------------------
(* The steps.                                                              *)

\* A reset, wherever it comes from, leaves only the flash.
LEMMA ResetKeeps ==
  ASSUME IInv, Reset("off"), used' \in Bounds, UNCHANGED <<role, given, nvs, server>>
  PROVE  IInv'
<1>1. TypeOK'
  BY DEF IInv, TypeOK, Reset, Bounds, Off, Unclaimed
<1>2. NotYet' /\ Fits' /\ KeySound' /\ Sent'
  BY DEF IInv, Reset, NotYet, BeforeClaim, Fits, KeySound, Sent, Resetting, Off, Unclaimed
<1>3. QED
  BY <1>1, <1>2 DEF IInv

LEMMA BootKeeps ==
  ASSUME IInv, Boot \/ BootErased \/ wifi_reset_console_start \/ WifiInitialised
  PROVE  IInv'
<1>1. used' \in Bounds
  BY Uses DEF IInv, TypeOK, Bounds, Fault, Boot, BootErased, wifi_reset_console_start,
              WifiInitialised
<1>2. CASE Boot
  BY <1>1, <1>2 DEF Boot, Goto, IInv, TypeOK, Bounds, NotYet, BeforeClaim, Fits, KeySound, Sent,
                    Resetting
<1>3. CASE BootErased
  BY <1>1, <1>3 DEF BootErased, Goto, IInv, TypeOK, Bounds, NotYet, BeforeClaim, Fits, KeySound,
                    Sent, Resetting, Unclaimed
<1>4. CASE wifi_reset_console_start
  BY <1>1, <1>4 DEF wifi_reset_console_start, At, Goto, IInv, TypeOK, Bounds, NotYet,
                    BeforeClaim, Fits, KeySound, Sent, Resetting
<1>5. CASE WifiInitialised
  BY <1>1, <1>5 DEF WifiInitialised, At, Goto, IInv, TypeOK, Bounds, NotYet, BeforeClaim, Fits,
                    KeySound, Sent, Resetting
<1>6. QED
  BY <1>2, <1>3, <1>4, <1>5

LEMMA ProvisioningKeeps ==
  ASSUME IInv,
         \/ AlreadyProvisioned \/ StartProvisioning \/ ProvisioningEnds
         \/ CredentialsReceived \/ Joined \/ JoinFails
  PROVE  IInv'
<1>1. used' \in Bounds
  BY DEF IInv, TypeOK, Bounds, AlreadyProvisioned, StartProvisioning, ProvisioningEnds,
         CredentialsReceived, Joined, JoinFails
<1>2. CASE AlreadyProvisioned
  BY <1>1, <1>2 DEF AlreadyProvisioned, At, Goto, Off, IInv, TypeOK, Bounds, NotYet, BeforeClaim,
                    Fits, KeySound, Sent, Resetting
<1>3. CASE StartProvisioning
  BY <1>1, <1>3 DEF StartProvisioning, At, Goto, On, IInv, TypeOK, Bounds, NotYet, BeforeClaim,
                    Fits, KeySound, Sent, Resetting
<1>4. CASE ProvisioningEnds
  BY <1>1, <1>4 DEF ProvisioningEnds, LeftOver, Off, On, At, Goto, IInv, TypeOK, Bounds, NotYet,
                    BeforeClaim, Fits, KeySound, Sent, Resetting
<1>5. CASE CredentialsReceived
  BY <1>1, <1>5 DEF CredentialsReceived, IInv, TypeOK, Bounds, NotYet, BeforeClaim, Fits,
                    KeySound, Sent, Resetting
<1>6. CASE Joined
  <2>1. net' \in [here : Networks, connected : BOOLEAN]
    BY <1>6 DEF Joined, IInv, TypeOK
  <2>2. TypeOK'
    BY <2>1, <1>1, <1>6 DEF Joined, IInv, TypeOK, Bounds
  <2>3. NotYet' /\ Fits' /\ KeySound' /\ Sent'
    BY <1>6 DEF Joined, IInv, NotYet, BeforeClaim, Fits, KeySound, Sent, Resetting
  <2>4. QED
    BY <2>2, <2>3 DEF IInv
<1>7. CASE JoinFails
  BY <1>1, <1>7 DEF JoinFails, IInv, TypeOK, Bounds, NotYet, BeforeClaim, Fits, KeySound, Sent,
                    Resetting
<1>8. QED
  BY <1>2, <1>3, <1>4, <1>5, <1>6, <1>7

\* A Bluetooth board's controller is never released, so bringing it up does not fail.
LEMMA BringUpKeeps == ASSUME IInv, BringUp PROVE IInv'
<1>1. role = "ble" /\ main = "radio" /\ bt.controller \in {"idle", "inited", "enabled"}
  BY DEF BringUp, At, IInv, TypeOK, Fits
<1>2. main' = "claim" /\ bt' = On /\ UNCHANGED <<role, given, nvs, prov, console, claim, net, server, used>>
  BY <1>1 DEF BringUp, Initialised, Enabled, Goto
<1>3. TypeOK'
  BY <1>2 DEF IInv, TypeOK, On
<1>4. NotYet' /\ Fits' /\ KeySound' /\ Sent'
  BY <1>1, <1>2 DEF IInv, NotYet, BeforeClaim, Fits, KeySound, Sent, Resetting, On
<1>5. QED
  BY <1>3, <1>4 DEF IInv

LEMMA RestOfMainKeeps ==
  ASSUME IInv, NoBluetooth \/ claim_start \/ StartCapture \/ Connect \/ Move
  PROVE  IInv'
<1>1. CASE NoBluetooth
  BY <1>1 DEF NoBluetooth, At, Goto, IInv, TypeOK, NotYet, BeforeClaim, Fits, KeySound, Sent,
              Resetting
<1>2. CASE claim_start
  <2>1. claim \in Claims /\ (claim.ready => claim.pc = "done") /\ main = "claim"
    BY <1>2 DEF claim_start, At, IInv, TypeOK, KeySound, Claims
  <2>2. /\ claim' \in Claims /\ claim'.key = claim.key /\ claim'.ready = claim.ready
        /\ claim'.pc = "load"
    BY <2>1, <1>2 DEF claim_start, Claims
  <2>3. TypeOK'
    BY <2>2, <1>2 DEF claim_start, Goto, IInv, TypeOK, Claims
  <2>4. claim.ready = FALSE
    BY <2>1 DEF IInv, NotYet, BeforeClaim, Unclaimed
  <2>5. NotYet' /\ Fits' /\ KeySound' /\ Sent'
    BY <2>1, <2>2, <2>4, <1>2 DEF claim_start, Goto, IInv, NotYet, BeforeClaim, Fits, KeySound,
                                  Sent, Resetting
  <2>6. QED
    BY <2>3, <2>5 DEF IInv
<1>3. CASE StartCapture
  BY <1>3 DEF StartCapture, At, Goto, IInv, TypeOK, NotYet, BeforeClaim, Fits, KeySound, Sent,
              Resetting
<1>4. CASE Connect
  <2>1. net' \in [here : Networks, connected : BOOLEAN]
    BY <1>4 DEF Connect, IInv, TypeOK
  <2>2. TypeOK'
    BY <2>1, <1>4 DEF Connect, board, IInv, TypeOK
  <2>3. NotYet' /\ Fits' /\ KeySound' /\ Sent'
    BY <1>4 DEF Connect, board, IInv, NotYet, BeforeClaim, Fits, KeySound, Sent, Resetting
  <2>4. QED
    BY <2>2, <2>3 DEF IInv
<1>5. CASE Move
  <2>1. used' \in Bounds
    BY <1>5, Uses DEF Move, IInv, TypeOK, Bounds
  <2>2. net' \in [here : Networks, connected : BOOLEAN]
    BY <1>5 DEF Move, IInv, TypeOK
  <2>3. QED
    BY <2>1, <2>2, <1>5 DEF Move, board, Bounds, IInv, TypeOK, NotYet, BeforeClaim, Fits,
                            KeySound, Sent, Resetting
<1>6. QED
  BY <1>1, <1>2, <1>3, <1>4, <1>5

\* reset_task.
LEMMA ForgetKeeps == ASSUME IInv, provisioning_forget \/ RestoreFails PROVE IInv'
<1>1. /\ console = "listening" /\ console' \in {"restored", "not_restored"}
      /\ UNCHANGED <<role, main, bt, prov, claim, net, server>>
  BY DEF provisioning_forget, RestoreFails, Forget
<1>2. used' \in Bounds
  BY Uses DEF provisioning_forget, RestoreFails, Forget, IInv, TypeOK, Bounds
<1>3. /\ nvs' \in [wifi : Networks \cup {NONE}, key : Keys \cup {NONE}]
      /\ nvs'.key = nvs.key /\ given' \in BOOLEAN
      /\ nvs'.wifi # NONE => given'
  <2>1. /\ nvs \in [wifi : Networks \cup {NONE}, key : Keys \cup {NONE}] /\ given \in BOOLEAN
        /\ nvs.wifi # NONE => given
    BY DEF IInv, TypeOK, Sent
  <2>2. CASE provisioning_forget
    BY <2>1, <2>2 DEF provisioning_forget, Restored
  <2>3. CASE RestoreFails
    BY <2>1, <2>3 DEF RestoreFails
  <2>4. QED
    BY <2>2, <2>3
<1>4. TypeOK'
  BY <1>1, <1>2, <1>3 DEF IInv, TypeOK, Bounds
<1>5. NotYet' /\ Fits' /\ KeySound' /\ Sent'
  BY <1>1, <1>3 DEF IInv, NotYet, BeforeClaim, Fits, KeySound, Sent, Resetting
<1>6. QED
  BY <1>4, <1>5 DEF IInv

\* claim_task: a step that does not touch the flash, and leaves the board not ready or as
\* ready as it was.
LEMMA AskingKeeps ==
  ASSUME IInv, Alone, UNCHANGED nvs, used' \in Bounds, claim.pc # "none",
         claim' \in Claims, claim'.pc # "none",
         server' \in [row : {"absent", "foreign", "ours"}, code : BOOLEAN, key : Keys \cup {NONE}],
         claim'.ready => claim'.pc = "done" /\ claim'.key # NONE /\ nvs.key = claim'.key,
         claim'.pc = "store" => claim'.key # NONE
  PROVE  IInv'
<1>1. TypeOK'
  BY DEF IInv, TypeOK, Alone, Bounds, Claims
<1>2. KeySound'
  BY DEF KeySound
<1>3. main \notin BeforeClaim
  BY DEF IInv, NotYet, Unclaimed
<1>4. NotYet' /\ Fits' /\ Sent'
  BY <1>3 DEF IInv, Alone, NotYet, BeforeClaim, Fits, Sent, Resetting
<1>5. QED
  BY <1>1, <1>2, <1>4 DEF IInv

LEMMA ClaimKeeps ==
  ASSUME IInv, load_api_key \/ LoadFails \/ WaitForNetwork \/ PostClaim \/ PollStatus \/ PostFails \/ PollFails
  PROVE  IInv'
<1>1. /\ claim \in Claims /\ nvs.key \in Keys \cup {NONE} /\ used \in Bounds
      /\ server \in [row : {"absent", "foreign", "ours"}, code : BOOLEAN, key : Keys \cup {NONE}]
      /\ claim.ready => claim.pc = "done"
  BY DEF IInv, TypeOK, KeySound, Claims, Bounds
<1>2. used' \in Bounds
  BY <1>1, Uses DEF load_api_key, LoadFails, WaitForNetwork, PostClaim, PollStatus, PostFails,
                    PollFails, Fault
<1>3. CASE load_api_key
  <2>1. claim' \in Claims /\ claim'.pc \in {"done", "wait"} /\ claim.pc = "load" /\ UNCHANGED server
        /\ (claim'.ready => claim'.pc = "done" /\ claim'.key # NONE /\ nvs.key = claim'.key)
    BY <1>1, <1>3 DEF load_api_key, ClaimAt, Claims
  <2>2. QED
    BY <2>1, <1>1, <1>2, <1>3, AskingKeeps DEF load_api_key
<1>4. CASE WaitForNetwork
  <2>1. claim' \in Claims /\ claim'.pc \in {"poll", "post"} /\ claim.pc = "wait" /\ UNCHANGED server
        /\ ~ claim'.ready
    BY <1>1, <1>4 DEF WaitForNetwork, ClaimAt, Claims
  <2>2. QED
    BY <2>1, <1>1, <1>2, <1>4, AskingKeeps DEF WaitForNetwork
<1>5. CASE PostClaim
  <2>1. claim' \in Claims /\ claim'.pc \in {"wait", "poll"} /\ claim.pc = "post" /\ ~ claim'.ready
    BY <1>1, <1>5 DEF PostClaim, ClaimAt, Claims
  <2>2. server' \in [row : {"absent", "foreign", "ours"}, code : BOOLEAN, key : Keys \cup {NONE}]
    BY <1>1, <1>5 DEF PostClaim, Registers
  <2>3. QED
    BY <2>1, <2>2, <1>1, <1>2, <1>5, AskingKeeps DEF PostClaim
<1>6. CASE PollStatus
  <2>1. /\ claim' \in Claims /\ claim'.pc \in {"store", "wait"} /\ claim.pc = "poll" /\ ~ claim'.ready
        /\ claim'.pc = "store" => claim'.key # NONE
    BY <1>1, <1>6 DEF PollStatus, ClaimAt, AsksAgain, Claims
  <2>2. server' \in [row : {"absent", "foreign", "ours"}, code : BOOLEAN, key : Keys \cup {NONE}]
    BY <1>1, <1>6 DEF PollStatus
  <2>3. QED
    BY <2>1, <2>2, <1>1, <1>2, <1>6, AskingKeeps DEF PollStatus
<1>7. CASE PostFails
  <2>1. claim' \in Claims /\ claim'.pc = "poll" /\ claim.pc = "post" /\ ~ claim'.ready
    BY <1>1, <1>7 DEF PostFails, ClaimAt, Claims
  <2>2. server' \in [row : {"absent", "foreign", "ours"}, code : BOOLEAN, key : Keys \cup {NONE}]
    BY <1>1, <1>7 DEF PostFails, Registers
  <2>3. QED
    BY <2>1, <2>2, <1>1, <1>2, <1>7, AskingKeeps DEF PostFails
<1>8. CASE PollFails
  <2>1. claim' \in Claims /\ claim'.pc = "wait" /\ claim.pc = "poll" /\ ~ claim'.ready
    BY <1>1, <1>8 DEF PollFails, ClaimAt, Claims
  <2>2. server' \in [row : {"absent", "foreign", "ours"}, code : BOOLEAN, key : Keys \cup {NONE}]
    BY <1>1, <1>8 DEF PollFails
  <2>3. QED
    BY <2>1, <2>2, <1>1, <1>2, <1>8, AskingKeeps DEF PollFails
<1>9. CASE LoadFails
  <2>1. claim' \in Claims /\ claim'.pc = "wait" /\ claim.pc = "load" /\ ~ claim'.ready
    BY <1>1, <1>9 DEF LoadFails, ClaimAt, Claims
  <2>2. QED
    BY <2>1, <1>1, <1>2, <1>9, AskingKeeps DEF LoadFails
<1>10. QED
  BY <1>3, <1>4, <1>5, <1>6, <1>7, <1>8, <1>9

\* store_api_key, written or not.
LEMMA StoredKeeps ==
  ASSUME IInv, NEW written \in {claim.key, nvs.key}, Stored(written), used' \in Bounds
  PROVE  IInv'
<1>1. /\ claim \in Claims /\ claim.pc = "store" /\ claim.key # NONE /\ ~ claim.ready
      /\ nvs \in [wifi : Networks \cup {NONE}, key : Keys \cup {NONE}]
  BY DEF IInv, TypeOK, KeySound, Claims, Stored, ClaimAt
<1>2. /\ nvs' = [nvs EXCEPT !.key = written] /\ written \in Keys \cup {NONE}
      /\ claim' = IF written = claim.key THEN [claim EXCEPT !.pc = "done", !.ready = TRUE]
                                         ELSE [claim EXCEPT !.pc = "wait", !.key = NONE]
      /\ UNCHANGED <<role, given, main, bt, prov, console, net, server>>
  BY <1>1 DEF Stored, Verified, Alone, Claims
<1>3. /\ nvs' \in [wifi : Networks \cup {NONE}, key : Keys \cup {NONE}]
      /\ nvs'.wifi = nvs.wifi /\ nvs'.key = written
  BY <1>1, <1>2
<1>4. /\ claim' \in Claims /\ claim'.pc \in {"done", "wait"}
      /\ claim'.ready => claim'.pc = "done" /\ claim'.key # NONE /\ written = claim'.key
  BY <1>1, <1>2 DEF Claims
<1>5. TypeOK'
  BY <1>2, <1>3, <1>4 DEF IInv, TypeOK, Bounds, Claims
<1>6. KeySound'
  BY <1>3, <1>4 DEF KeySound
<1>7. main \notin BeforeClaim
  BY <1>1 DEF IInv, NotYet, Unclaimed
<1>8. NotYet' /\ Fits' /\ Sent'
  BY <1>2, <1>3, <1>7 DEF IInv, NotYet, BeforeClaim, Fits, Sent, Resetting
<1>9. QED
  BY <1>5, <1>6, <1>8 DEF IInv

\* Written, and not read back.
LEMMA ReadBackKeeps == ASSUME IInv, ReadBackFails, used' \in Bounds PROVE IInv'
<1>1. /\ claim \in Claims /\ claim.pc = "store" /\ claim.key # NONE /\ ~ claim.ready
      /\ nvs \in [wifi : Networks \cup {NONE}, key : Keys \cup {NONE}]
  BY DEF IInv, TypeOK, KeySound, Claims, ReadBackFails, ClaimAt
<1>2. /\ nvs' = [nvs EXCEPT !.key = claim.key]
      /\ claim' = [claim EXCEPT !.pc = "wait", !.key = NONE]
      /\ UNCHANGED <<role, given, main, bt, prov, console, net, server>>
  BY DEF ReadBackFails, Alone
<1>3. /\ nvs' \in [wifi : Networks \cup {NONE}, key : Keys \cup {NONE}]
      /\ nvs'.wifi = nvs.wifi
      /\ claim' \in Claims /\ claim'.pc = "wait" /\ ~ claim'.ready
  BY <1>1, <1>2 DEF Claims
<1>4. TypeOK'
  BY <1>2, <1>3 DEF IInv, TypeOK, Bounds, Claims
<1>5. KeySound'
  BY <1>3 DEF KeySound
<1>6. main \notin BeforeClaim
  BY <1>1 DEF IInv, NotYet, Unclaimed
<1>7. NotYet' /\ Fits' /\ Sent'
  BY <1>2, <1>3, <1>6 DEF IInv, NotYet, BeforeClaim, Fits, Sent, Resetting
<1>8. QED
  BY <1>4, <1>5, <1>7 DEF IInv

LEMMA OwnerKeeps == ASSUME IInv, OwnerClaims \/ OwnerDeletes PROVE IInv'
<1>1. /\ used' \in Bounds
      /\ server' \in [row : {"absent", "foreign", "ours"}, code : BOOLEAN, key : Keys \cup {NONE}]
      /\ UNCHANGED <<role, given, nvs, main, bt, prov, console, claim, net>>
  <2>1. /\ used \in Bounds
        /\ server \in [row : {"absent", "foreign", "ours"}, code : BOOLEAN, key : Keys \cup {NONE}]
    BY DEF IInv, TypeOK, Bounds
  <2>2. CASE OwnerClaims
    <3>1. used' \in Bounds /\ used.keys + 1 \in Keys
      BY <2>1, <2>2, Uses DEF OwnerClaims
    <3>2. server' = [server EXCEPT !.code = FALSE, !.key = used.keys + 1]
      BY <2>2 DEF OwnerClaims
    <3> DEFINE n == used.keys + 1
    <3> HIDE DEF n
    <3>3. server' \in [row : {"absent", "foreign", "ours"}, code : BOOLEAN, key : Keys \cup {NONE}]
      <4>1. n \in Keys /\ server' = [server EXCEPT !.code = FALSE, !.key = n]
        BY <3>1, <3>2 DEF n
      <4>2. QED
        BY <4>1, <2>1
    <3>4. QED
      BY <3>1, <3>3, <2>2 DEF OwnerClaims, board
  <2>3. CASE OwnerDeletes
    BY <2>1, <2>3 DEF OwnerDeletes, board
  <2>4. QED
    BY <2>2, <2>3
<1>2. TypeOK'
  BY <1>1 DEF IInv, TypeOK, Bounds
<1>3. NotYet' /\ Fits' /\ KeySound' /\ Sent'
  BY <1>1 DEF IInv, NotYet, BeforeClaim, Fits, KeySound, Sent, Resetting
<1>4. QED
  BY <1>2, <1>3 DEF IInv

-----------------------------------------------------------------------------
(* The invariant, and the theorems.                                        *)

LEMMA NextKeeps == ASSUME IInv, [Next]_vars PROVE IInv'
<1>1. used \in Bounds /\ (Fault => used' \in Bounds)
  BY Uses DEF IInv, TypeOK, Bounds, Fault
<1>2. CASE app_main \/ BootErased
  BY <1>2, BootKeeps, ProvisioningKeeps, BringUpKeeps, RestOfMainKeeps DEF app_main
<1>3. CASE manager \/ Connect \/ Move
  BY <1>3, ProvisioningKeeps, RestOfMainKeeps DEF manager
<1>4. CASE PowerLost \/ Restart
  BY <1>1, <1>4, ResetKeeps DEF PowerLost, Restart
<1>5. CASE provisioning_forget \/ RestoreFails
  BY <1>5, ForgetKeeps
<1>6. CASE claim_task \/ LoadFails \/ PostFails \/ PollFails
  <2>1. CASE store_api_key
    BY <1>1, <2>1, StoredKeeps DEF store_api_key
  <2>2. QED
    BY <1>6, <2>1, ClaimKeeps DEF claim_task
<1>7. CASE StoreFails \/ ReadBackFails
  BY <1>1, <1>7, StoredKeeps, ReadBackKeeps DEF StoreFails, ReadBackFails
<1>8. CASE OwnerClaims \/ OwnerDeletes
  BY <1>8, OwnerKeeps
<1>9. CASE UNCHANGED vars
  BY <1>9 DEF vars, board, IInv, TypeOK, NotYet, BeforeClaim, Fits, KeySound, Sent, Resetting
<1>10. QED
  BY <1>2, <1>3, <1>4, <1>5, <1>6, <1>7, <1>8, <1>9 DEF Next

LEMMA Invariant == Spec => []IInv
<1>1. Init => IInv
  BY Initially
<1>2. IInv /\ [Next]_vars => IInv'
  BY NextKeeps
<1>3. QED
  BY <1>1, <1>2, PTL DEF Spec

\* The state stays what the code's types say.
THEOREM Types == Spec => []TypeOK
<1>1. IInv => TypeOK
  BY DEF IInv
<1>2. QED
  BY <1>1, Invariant, PTL

\* Whatever provisioning leaves of Bluetooth and wherever it is cut off, the board never
\* restarts over it, and ends with the radio of its role (provisioning_start_wifi,
\* bring_up_bluetooth_for_scanning).
THEOREM RadioFits == Spec => []RadioFitsRole
<1>1. IInv => RadioFitsRole
  BY DEF IInv, Fits, RadioFitsRole, TypeOK
<1>2. QED
  BY <1>1, Invariant, PTL

\* A board that reports has the key it reports with in its flash (store_api_key).
THEOREM KeyStays == Spec => []KeyIsKept
<1>1. IInv => KeyIsKept
  BY DEF IInv, KeySound, KeyIsKept
<1>2. QED
  BY <1>1, Invariant, PTL

\* After a reset of the network, only a network that was sent since takes the board past
\* provisioning, whatever else happened (provisioning_forget, provisioning_start_wifi).
THEOREM OldNetworkStaysForgotten == Spec => []OldNetworkForgotten
<1>1. IInv => OldNetworkForgotten
  BY DEF IInv, Sent, Resetting, OldNetworkForgotten
<1>2. QED
  BY <1>1, Invariant, PTL
=============================================================================
