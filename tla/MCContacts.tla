----------------------------- MODULE MCContacts -----------------------------
(* Instances of Contacts for TLC: who can be heard in each scenario.       *)
EXTENDS Contacts

CONSTANTS ble, wifi, m1, m2, u1, u2

F(t, m, id, pos) == [thread |-> t, mac |-> m, id |-> id, pos |-> pos]

\* One aircraft on one transport: Basic ID, Location, or neither of them.
OneTransport == {F(ble, m1, u1, FALSE), F(ble, m1, NONE, TRUE), F(ble, m1, NONE, FALSE)}

\* One aircraft on both transports.
TwoTransports == {F(ble, m1, u1, FALSE), F(ble, m1, NONE, TRUE),
                  F(wifi, m2, u1, TRUE), F(wifi, m2, NONE, TRUE)}

\* The same without positions, which decide nothing but a row's stamp.
TwoTransportsNamed == {F(ble, m1, u1, FALSE), F(ble, m1, NONE, FALSE),
                       F(wifi, m2, u1, FALSE), F(wifi, m2, NONE, FALSE)}

\* Two aircraft, one per transport.
TwoAircraft == {F(ble, m1, u1, FALSE), F(ble, m1, NONE, FALSE), F(wifi, m2, u2, TRUE)}

\* One aircraft that broadcasts two UAS IDs (serial number and session ID).
TwoIds == {F(ble, m1, u1, FALSE), F(wifi, m2, u1, FALSE), F(ble, m1, u2, FALSE)}
=============================================================================
