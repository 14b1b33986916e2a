--------------------------- MODULE MCDeviceTrust ---------------------------
(***************************************************************************)
(* Small instances of DeviceTrust: the phone that registered the account, a *)
(* second phone, that phone after a reinstallation (a new id, key and       *)
(* credential under the old fingerprint), and browsers that register through*)
(* POST /devices.                                                          *)
(***************************************************************************)
EXTENDS DeviceTrust, TLC

CONSTANTS d1, d2, d3, p1, p2, k1, k2, k3, c1, c2, c3, r1, r2  \* model values

Symmetry == Permutations(Requests)

Phone1 == [id |-> d1, print |-> p1, key |-> k1, cred |-> c1]
Phone2 == [id |-> d2, print |-> p2, key |-> k2, cred |-> c2]
Phone2Reinstalled == [id |-> d3, print |-> p2, key |-> k3, cred |-> c3]

TwoPhones == {Phone1, Phone2}
Phones == {Phone1, Phone2, Phone2Reinstalled}
SecondPhones == {Phone2, Phone2Reinstalled}

\* The first phone's key presented again, and with the key lost.
BrowserAgain == {[print |-> p1, key |-> k1]}
TwoBrowsers == {[print |-> p1, key |-> k1], [print |-> p2, key |-> k2]}

=============================================================================
