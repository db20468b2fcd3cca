----------------------------- MODULE MCCapture ------------------------------
(* An instance of Capture for TLC: two addresses more than there are slots,  *)
(* two aircraft, and the bytes around every edge of the formats.             *)
EXTENDS Capture, TLC

CONSTANTS m1, m2, m3, u1, u2

\* Behaviours do not tell two addresses, or two aircraft, apart.
Symmetry == Permutations(Macs) \cup Permutations(Uas)

Zeros(n) == [i \in 1..n |-> 0]
IdMessage(text) == <<2, 18>> \o text \o Zeros(23 - Len(text))

\* A Location at 1e-7 degrees north and east, with the two bytes of its height.
LocationMessage(height) == <<16, 0, 0, 40, 0, 1, 0, 0, 0, 1>> \o Zeros(7) \o height \o Zeros(6)

MCAddress == (m1 :> <<1, 0, 0, 0, 0, 1>>) @@ (m2 :> <<1, 0, 0, 0, 0, 2>>) @@ (m3 :> <<1, 0, 0, 0, 0, 3>>)
MCText == (u1 :> <<65>>) @@ (u2 :> <<66>>) @@ (NA :> NotAvailable)
MCBasic == [u \in {u1, u2, NA} |-> IdMessage(MCText[u])]
MCOthers == {IdMessage(<<>>), LocationMessage(<<47, 8>>), <<16>> \o Zeros(24), <<64>> \o Zeros(24)}

-----------------------------------------------------------------------------
(* Messages with up to two bytes at an edge, with and without a position.  *)

Edge == {1, 127, 128, 255}
MCLocations ==
  {[base EXCEPT ![i] = a, ![j] = b] :
     base \in {<<16>> \o Zeros(24), LocationMessage(<<0, 0>>)}, i \in 2..20, j \in 2..20, a \in Edge, b \in Edge}

\* Names of up to three characters: NUL, SOH, TAB, newline, space, A, DEL, not ASCII.
Characters == {0, 1, 9, 10, 32, 65, 127, 200}
MCNames == {IdMessage(<<a, b, c>>) : a \in Characters, b \in Characters, c \in Characters}

\* Advertisements in which a signature, or part of one, comes before the message's.
Before == {<<>>, <<250>>, <<250, 255>>, <<250, 255, 13>>, <<250, 255, 13, 0>>, <<250, 255, 250, 255, 13>>}
MCReports ==
  {before \o ODID_BLE_SIGNATURE \o <<0>> \o [i \in 1..n |-> i + 100] : before \in Before, n \in {0, 1, 20, 24, 25, 26}}

\* Frames with every signature, packs that claim what they do not hold, cut short.
Signatures == {WIFI_RID_BEACON_SIGNATURE, WIFI_RID_NAN_SERVICE_ID \o <<1, 1, 0, 30>>,
               WIFI_RID_NAN_SERVICE_ID \o <<1, 1, 0, 30, 0>> \o WIFI_RID_BEACON_SIGNATURE,
               <<250, 11, 188>>}
InPacks == {IdMessage(<<65>>), IdMessage(<<>>), LocationMessage(<<47, 8>>), LocationMessage(<<0, 0>>)}
Payloads ==
  InPacks \cup {<<240, size, count>> \o a \o b : size \in {24, 25}, count \in {0, 1, 2, 3, 10}, a \in InPacks, b \in InPacks}
MCFrames ==
  {Zeros(16) \o signature \o <<0>> \o SubSeq(payload, 1, Len(payload) - cut) :
     signature \in Signatures, payload \in Payloads, cut \in {0, 1, 25}}

\* What the theorems about the decoders take for granted of their inputs.
ASSUME MCInputs == Spelled /\ ReadableInputs
=============================================================================
