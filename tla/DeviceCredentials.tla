-------------------------- MODULE DeviceCredentials --------------------------
(***************************************************************************)
(* What DeviceRepository promises of the credentials of one device: every   *)
(* registration, exchange, refusal, detected replay and revocation is a     *)
(* single step, although the transactions of the rotation and of the replay *)
(* take the lock of the credential before the lock of the device, and every *)
(* other one takes them in the opposite order.                              *)
(*                                                                         *)
(* DeviceSessions implements this specification.                            *)
(***************************************************************************)
EXTENDS Naturals, Sequences

VARIABLES
    device,  \* status of the Device
    creds    \* its DeviceCredentials, in the order they were issued

vars == <<device, creds>>

Creds == 1..Len(creds)

Init == device = "none" /\ creds = <<>>

\* A login enrolls the installation: what it had is given up.
Issue ==
    /\ device # "revoked" /\ device' = "active"
    /\ creds' = Append([c \in Creds |-> [creds[c] EXCEPT
                            !.status = IF @ = "ACTIVE" THEN "REVOKED" ELSE @]],
                       [family |-> Len(creds) + 1, parent |-> 0, status |-> "ACTIVE"])

\* The active credential is exchanged for its successor.
Exchange(c) ==
    /\ device = "active" /\ creds[c].status = "ACTIVE"
    /\ creds' = Append([creds EXCEPT ![c].status = "ROTATED"],
                       [family |-> creds[c].family, parent |-> c, status |-> "ACTIVE"])
    /\ UNCHANGED device

\* It has expired, or the device may no longer use it.
Refuse(c) ==
    /\ creds[c].status = "ACTIVE"
    /\ creds' = [creds EXCEPT ![c].status = "REVOKED"]
    /\ UNCHANGED device

\* A credential was presented that had been exchanged: the device is revoked and
\* the family marked.  Only members issued after the mark was begun are left out.
Detect(c, last) ==
    /\ creds[c].status \in {"ROTATED", "REUSE_DETECTED"} /\ c <= last
    /\ device' = "revoked"
    /\ creds' = [d \in Creds |->
            IF d <= last /\ creds[d].family = creds[c].family
            THEN [creds[d] EXCEPT !.status = "REUSE_DETECTED"] ELSE creds[d]]

Revoke ==
    /\ device = "active" /\ device' = "revoked"
    /\ creds' = [c \in Creds |-> [creds[c] EXCEPT
            !.status = IF @ = "REUSE_DETECTED" THEN @ ELSE "REVOKED"]]

Next ==
    \/ Issue \/ Revoke
    \/ \E c \in Creds : Exchange(c) \/ Refuse(c) \/ \E last \in Creds : Detect(c, last)

Spec == Init /\ [][Next]_vars
=============================================================================
