---------------------------- MODULE BoardSetup -----------------------------
(***************************************************************************)
(* How an ESP32 board comes up, is put on a network, gets its key and is   *)
(* moved to another network (firmware/esp32/main/main.c, provisioning.c,   *)
(* claim.c, wifi_reset_console.c, uplink.c).                               *)
(*                                                                         *)
(* app_main starts the console, the Wi-Fi driver, provisioning if no       *)
(* network is stored, the radio of its role and the claim task; console    *)
(* and claim are tasks of their own and run beside it.  The power may fail *)
(* between any two steps.  The provisioning manager, the Bluetooth stack,  *)
(* the phone, the owner and the server are external.                       *)
(***************************************************************************)
EXTENDS Integers, Sequences

CONSTANTS
  Networks,    \* what a phone may send: a network and its password
  Before,      \* how many characters stand before the command on a line (a bound)
  MaxCommands, \* lines typed (a bound)
  MaxKeys,     \* claims by the owner (a bound)
  MaxMoves,    \* times the owner takes the board elsewhere (a bound)
  MaxFaults,   \* cuts, failed writes and lost answers (a bound)
  NONE

ASSUME BoardSetupAssumption ==
  /\ NONE \notin Networks /\ Networks # {}
  /\ Before \subseteq Nat
  /\ MaxCommands \in Nat /\ MaxKeys \in Nat /\ MaxMoves \in Nat /\ MaxFaults \in Nat

VARIABLES
  role,      \* CIELOTRACK_ROLE_WIFI, or not
  nvs,       \* the network the driver has stored, and api_key
  main,      \* app_main
  bt,        \* the Bluetooth controller and bluedroid
  prov,      \* the provisioning manager
  console,   \* reset_task
  claim,     \* claim_task: its code, api_key and ready
  net,       \* the network in reach, and whether the board is on it
  server,    \* the board's row, a code that waits for the owner, a key that waits for the board
  given,     \* history: whether the stored network was sent since the last reset of it
  used       \* the bounds

board == <<main, bt, prov, console, claim>>
vars == <<role, nvs, board, net, server, given, used>>

Keys == 1..MaxKeys
Off == [controller |-> "idle", bluedroid |-> "uninitialized"]
On == [controller |-> "enabled", bluedroid |-> "enabled"]
Unclaimed == [pc |-> "none", code |-> FALSE, key |-> NONE, ready |-> FALSE]

TypeOK ==
  /\ role \in {"ble", "wifi"}
  /\ nvs \in [wifi : Networks \cup {NONE}, key : Keys \cup {NONE}]
  /\ main \in {"off", "console", "uplink", "wifi", "provisioning", "radio", "claim", "start",
               "running", "aborted"}
  /\ bt \in [controller : {"idle", "inited", "enabled", "released"},
             bluedroid : {"uninitialized", "initialized", "enabled"}]
  /\ prov \in {"none", "advertising", "joining", "joined"}
  /\ console \in {"none", "listening", "restored", "not_restored"}
  /\ claim \in [pc : {"none", "load", "wait", "post", "poll", "store", "done"},
                code : BOOLEAN, key : Keys \cup {NONE}, ready : BOOLEAN]
  /\ net \in [here : Networks, connected : BOOLEAN]
  /\ server \in [row : {"absent", "foreign", "ours"}, code : BOOLEAN, key : Keys \cup {NONE}]
  /\ given \in BOOLEAN
  /\ used \in [commands : 0..MaxCommands, keys : 0..MaxKeys, moves : 0..MaxMoves,
               faults : 0..MaxFaults]

\* A new board, one that is set up, or one that comes from somewhere else; the server may
\* know it from the days of another salt.
Init ==
  /\ role \in {"ble", "wifi"}
  /\ nvs \in [wifi : Networks \cup {NONE}, key : {NONE}]
  /\ main = "off" /\ bt = Off /\ prov = "none" /\ console = "none" /\ claim = Unclaimed
  /\ net \in [here : Networks, connected : {FALSE}]
  /\ server \in [row : {"absent", "foreign"}, code : {FALSE}, key : {NONE}]
  /\ given = TRUE
  /\ used = [commands |-> 0, keys |-> 0, moves |-> 0, faults |-> 0]

Fault == used.faults < MaxFaults /\ used' = [used EXCEPT !.faults = @ + 1]

\* Everything but the flash is gone: a cut, esp_restart, or ESP_ERROR_CHECK.
Reset(where) ==
  /\ main' = where /\ bt' = Off /\ prov' = "none" /\ console' = "none" /\ claim' = Unclaimed
  /\ net' = [net EXCEPT !.connected = FALSE]

-----------------------------------------------------------------------------
(* app_main.                                                               *)

At(pc) == main = pc
Goto(pc) == main' = pc

\* nvs_flash_init.
Boot ==
  /\ main \in {"off", "aborted"} /\ Goto("console")
  /\ UNCHANGED <<role, given, nvs, bt, prov, console, claim, net, server, used>>

\* No free pages, or a new version: the flash is erased and begun again.
BootErased ==
  /\ main \in {"off", "aborted"} /\ Goto("console")
  /\ nvs' = [wifi |-> NONE, key |-> NONE]
  /\ Fault
  /\ UNCHANGED <<role, given, bt, prov, console, claim, net, server>>

wifi_reset_console_start ==
  /\ At("console") /\ Goto("uplink")
  /\ \/ console' = "listening" /\ UNCHANGED used
     \/ console' = "none" /\ Fault
  /\ UNCHANGED <<role, given, nvs, bt, prov, claim, net, server>>

\* uplink_start, up to esp_wifi_init and the event handlers.
WifiInitialised ==
  /\ At("uplink") /\ Goto("wifi")
  /\ UNCHANGED <<role, given, nvs, bt, prov, console, claim, net, server, used>>

WifiRuns == main \notin {"off", "aborted", "console", "uplink"}

\* provisioning_start_wifi: a stored network is used, and Bluetooth is left alone.
AlreadyProvisioned ==
  /\ At("wifi") /\ Goto("radio")
  /\ nvs.wifi # NONE
  /\ UNCHANGED <<role, given, nvs, bt, prov, console, claim, net, server, used>>

StartProvisioning ==
  /\ At("wifi") /\ Goto("provisioning")
  /\ nvs.wifi = NONE
  /\ prov' = "advertising" /\ bt' = On
  /\ UNCHANGED <<role, given, nvs, console, claim, net, server, used>>

\* What network_prov_mgr_wait leaves of Bluetooth.  FREE_BTDM gives the controller's memory
\* back; otherwise the manager's scheme leaves what it leaves.
LeftOver ==
  IF role = "wifi" THEN {[controller |-> "released", bluedroid |-> "uninitialized"]}
  ELSE {Off, On, [controller |-> "inited", bluedroid |-> "uninitialized"],
        [controller |-> "enabled", bluedroid |-> "uninitialized"],
        [controller |-> "enabled", bluedroid |-> "initialized"]}

ProvisioningEnds ==
  /\ At("provisioning") /\ Goto("radio")
  /\ prov = "joined" /\ prov' = "none"
  /\ bt' \in LeftOver
  /\ UNCHANGED <<role, given, nvs, console, claim, net, server, used>>

\* bring_up_bluetooth_for_scanning.  esp_bt_controller_init takes an idle controller whose
\* memory is there, and enabling takes an initialised one; anything else is an error, and
\* ESP_ERROR_CHECK restarts the board.
InitAlways(c) == IF c = "idle" THEN "inited" ELSE "error"
Initialised(c) == IF c = "idle" THEN "inited" ELSE c
Enabled(c) == IF c = "released" THEN "error" ELSE "enabled"
BringUp ==
  /\ At("radio") /\ role = "ble"
  /\ IF Initialised(bt.controller) = "error" \/ Enabled(Initialised(bt.controller)) = "error"
     THEN Reset("aborted")
     ELSE Goto("claim") /\ bt' = On /\ UNCHANGED <<prov, console, claim, net>>
  /\ UNCHANGED <<role, given, nvs, server, used>>

NoBluetooth ==
  /\ At("radio") /\ role = "wifi" /\ Goto("claim")
  /\ UNCHANGED <<role, given, nvs, bt, prov, console, claim, net, server, used>>

claim_start ==
  /\ At("claim") /\ Goto("start")
  /\ claim' = [claim EXCEPT !.pc = "load"]
  /\ UNCHANGED <<role, given, nvs, bt, prov, console, net, server, used>>

\* wifi_capture_start, or the scan parameters.
StartCapture ==
  /\ At("start") /\ Goto("running")
  /\ UNCHANGED <<role, given, nvs, bt, prov, console, claim, net, server, used>>

app_main == \/ Boot \/ wifi_reset_console_start \/ WifiInitialised
            \/ AlreadyProvisioned \/ StartProvisioning \/ ProvisioningEnds
            \/ BringUp \/ NoBluetooth \/ claim_start \/ StartCapture

-----------------------------------------------------------------------------
(* The manager and the phone, the network, and power.                      *)

\* The driver keeps what the phone sent before it has tried it.
CredentialsReceived ==
  /\ prov = "advertising" /\ prov' = "joining"
  /\ \E n \in Networks : nvs' = [nvs EXCEPT !.wifi = n]
  /\ given' = TRUE
  /\ UNCHANGED <<role, main, bt, console, claim, net, server, used>>

Joined ==
  /\ prov = "joining" /\ prov' = "joined"
  /\ nvs.wifi = net.here
  /\ net' = [net EXCEPT !.connected = TRUE]
  /\ UNCHANGED <<role, given, nvs, main, bt, console, claim, server, used>>

\* on_prov_event, CRED_FAIL: the manager's state machine starts again.
JoinFails ==
  /\ prov = "joining" /\ prov' = "advertising"
  /\ nvs.wifi # net.here
  /\ nvs' = [nvs EXCEPT !.wifi = NONE]
  /\ UNCHANGED <<role, given, main, bt, console, claim, net, server, used>>

\* on_wifi_event: a started station connects, and connects again.
Connect ==
  /\ WifiRuns /\ main # "wifi" /\ prov = "none"
  /\ nvs.wifi = net.here /\ ~ net.connected
  /\ net' = [net EXCEPT !.connected = TRUE]
  /\ UNCHANGED <<role, given, nvs, board, server, used>>

Move ==
  /\ used.moves < MaxMoves /\ used' = [used EXCEPT !.moves = @ + 1]
  /\ \E n \in Networks \ {net.here} : net' = [here |-> n, connected |-> FALSE]
  /\ UNCHANGED <<role, given, nvs, board, server>>

PowerLost ==
  /\ main # "off" /\ Reset("off")
  /\ Fault
  /\ UNCHANGED <<role, given, nvs, server>>

-----------------------------------------------------------------------------
(* reset_task.                                                             *)

CMD == <<"r", "e", "s", "e", "t", "w", "i", "f", "i">>
Line == 32
Lines == {[i \in 1..n |-> " "] \o CMD : n \in Before}

\* The character that finds the line full is dropped, and what was read before it.
Read(line) == SubSeq(line, Line * (Len(line) \div Line) + 1, Len(line))
Obeyed(line) == Read(line) = CMD

\* provisioning_forget.  The manager's own reset says it is done and does nothing once it is
\* deinitialised; esp_wifi_restore touches nothing but the driver's namespace, and fails
\* before the driver is initialised.  The board restarts in any case.
ManagerReset == [nvs EXCEPT !.wifi = IF prov = "none" THEN @ ELSE NONE]
Restored == [nvs EXCEPT !.wifi = NONE]
Forget(result) ==
  /\ console = "listening" /\ console' = result
  /\ used.commands < MaxCommands /\ used' = [used EXCEPT !.commands = @ + 1]
  /\ \E line \in Lines : Obeyed(line)
  /\ UNCHANGED <<role, main, bt, prov, claim, net, server>>

provisioning_forget == WifiRuns /\ Forget("restored") /\ nvs' = Restored /\ given' = FALSE
RestoreFails == Forget("not_restored") /\ UNCHANGED <<nvs, given>>

\* Half a second later.
Restart ==
  /\ console \in {"restored", "not_restored"}
  /\ Reset("off")
  /\ UNCHANGED <<role, given, nvs, server, used>>

-----------------------------------------------------------------------------
(* claim_task.                                                             *)

ClaimAt(pc) == claim.pc = pc
Alone == UNCHANGED <<role, given, main, bt, prov, console, net>>

load_api_key ==
  /\ ClaimAt("load")
  /\ claim' = IF nvs.key # NONE
              THEN [claim EXCEPT !.pc = "done", !.key = nvs.key, !.ready = TRUE]
              ELSE [claim EXCEPT !.pc = "wait"]
  /\ Alone /\ UNCHANGED <<nvs, server, used>>

\* A key that cannot be read is as none: the board asks for a code again.
LoadFails ==
  /\ ClaimAt("load") /\ nvs.key # NONE
  /\ claim' = [claim EXCEPT !.pc = "wait"]
  /\ Fault
  /\ Alone /\ UNCHANGED <<nvs, server>>

\* Two seconds at a time until there is a network; then the code is asked for once.
WaitForNetwork ==
  /\ ClaimAt("wait") /\ net.connected
  /\ claim' = [claim EXCEPT !.pc = IF claim.code THEN "poll" ELSE "post"]
  /\ Alone /\ UNCHANGED <<nvs, server, used>>

\* POST /v1/devices/claim.  A row with another secret is refused, and asked again later.
Registers == [server EXCEPT !.row = "ours", !.code = TRUE]
PostClaim ==
  /\ ClaimAt("post") /\ net.connected
  /\ IF server.row = "foreign"
     THEN claim' = [claim EXCEPT !.pc = "wait"] /\ UNCHANGED server
     ELSE claim' = [claim EXCEPT !.pc = "poll", !.code = TRUE] /\ server' = Registers
  /\ Alone /\ UNCHANGED <<nvs, used>>

PostFails ==
  /\ ClaimAt("post")
  /\ claim' = [claim EXCEPT !.pc = "poll"]
  /\ IF net.connected THEN Fault ELSE UNCHANGED used
  /\ \/ UNCHANGED server
     \/ server.row # "foreign" /\ server' = Registers
  /\ Alone /\ UNCHANGED nvs

\* GET .../status: a key that waits is handed over, and erased on the server.  Without one
\* the board asks again in fifteen seconds.
GivesUp == "done"
AsksAgain == "wait"
PollStatus ==
  /\ ClaimAt("poll") /\ net.connected
  /\ claim' = IF server.key # NONE
              THEN [claim EXCEPT !.pc = "store", !.key = server.key]
              ELSE [claim EXCEPT !.pc = AsksAgain]
  /\ server' = [server EXCEPT !.key = NONE]
  /\ Alone /\ UNCHANGED <<nvs, used>>

PollFails ==
  /\ ClaimAt("poll")
  /\ claim' = [claim EXCEPT !.pc = "wait"]
  /\ IF net.connected THEN Fault ELSE UNCHANGED used
  /\ \/ UNCHANGED server
     \/ server' = [server EXCEPT !.key = NONE]
  /\ Alone /\ UNCHANGED nvs

\* store_api_key: what was written is read back.
Unread(written) == TRUE
Verified(written) == written = claim.key
Stored(written) ==
  /\ ClaimAt("store")
  /\ nvs' = [nvs EXCEPT !.key = written]
  /\ claim' = IF Verified(written)
              THEN [claim EXCEPT !.pc = "done", !.ready = TRUE]
              ELSE [claim EXCEPT !.pc = "wait", !.key = NONE]
  /\ Alone /\ UNCHANGED server

store_api_key == Stored(claim.key) /\ UNCHANGED used
\* The write fails, and says so or does not.
StoreFails == Fault /\ Stored(nvs.key)
\* It succeeds, and reading it back does not.
ReadBackFails ==
  /\ ClaimAt("store")
  /\ nvs' = [nvs EXCEPT !.key = claim.key]
  /\ claim' = [claim EXCEPT !.pc = "wait", !.key = NONE]
  /\ Fault
  /\ Alone /\ UNCHANGED server

claim_task == \/ load_api_key \/ WaitForNetwork \/ PostClaim \/ PollStatus \/ store_api_key
              \/ (~ net.connected /\ (PostFails \/ PollFails))

\* The owner enters the code, or deletes the row of another salt as the log asks.
OwnerClaims ==
  /\ server.row = "ours" /\ server.code
  /\ used.keys < MaxKeys /\ used' = [used EXCEPT !.keys = @ + 1]
  /\ server' = [server EXCEPT !.code = FALSE, !.key = used.keys + 1]
  /\ UNCHANGED <<role, given, nvs, board, net>>

OwnerDeletes ==
  /\ server.row = "foreign"
  /\ server' = [server EXCEPT !.row = "absent"]
  /\ UNCHANGED <<role, given, nvs, board, net, used>>

-----------------------------------------------------------------------------

manager == CredentialsReceived \/ Joined \/ JoinFails

Next == \/ app_main \/ BootErased \/ manager \/ Connect \/ Move \/ PowerLost
        \/ provisioning_forget \/ RestoreFails \/ Restart
        \/ claim_task \/ LoadFails \/ PostFails \/ PollFails \/ StoreFails \/ ReadBackFails
        \/ OwnerClaims \/ OwnerDeletes

Spec == Init /\ [][Next]_vars

\* The tasks run, the manager answers the phone it hears, and a network in reach is joined.
FairSpec ==
  /\ Spec
  /\ WF_vars(app_main) /\ WF_vars(Restart) /\ WF_vars(claim_task)
  /\ WF_vars(Joined) /\ WF_vars(JoinFails) /\ WF_vars(Connect)

-----------------------------------------------------------------------------
(* Properties.                                                             *)

\* However the board comes to the end of app_main, freshly provisioned or with a network
\* stored, the radio fits its role: the Bluetooth board's controller runs, and came up
\* without an error that restarts it; the Wi-Fi board's does not run beside the capture.
RadioFitsRole ==
  /\ main # "aborted"
  /\ main = "running" => IF role = "ble" THEN bt = On ELSE bt.controller # "enabled"

\* A board that reports has its key in the flash, so it reports after a cut too: the server
\* has no copy to give it a second time (store_api_key, load_api_key).
KeyIsKept == claim.ready => claim.key # NONE /\ nvs.key = claim.key

\* Once the board says it has reset its network, it never comes up on the old one, wherever
\* app_main and the phone were and whenever the power failed: only a network that a phone
\* has sent since takes it past provisioning (provisioning_forget).
OldNetworkForgotten ==
  main \in {"radio", "claim", "start", "running"} /\ console \notin {"restored", "not_restored"}
    => given

\* A key the owner has made reaches the board, if the board is where its network is and
\* nothing fails; a reset by hand that catches the board with the key in its hands makes it
\* ask to be claimed again (claim_task).
KeyArrives ==
  server.key # NONE
    ~> (claim.ready \/ server.code \/ nvs.wifi # net.here \/ used.faults > 0)
=============================================================================
