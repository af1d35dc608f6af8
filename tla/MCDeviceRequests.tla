-------------------------- MODULE MCDeviceRequests --------------------------
(***************************************************************************)
(* Sensors with and without a contour, with no field, one, and as many as  *)
(* are asked for; settings with both signs of angle.  The bits that change *)
(* are those of all bytes that are neither a length nor say that a field   *)
(* exists, and make no number too large for TLC.                           *)
(***************************************************************************)
EXTENDS DeviceRequests

A(contour, fields, cases) ==
  [contour |-> contour, fields |-> fields, cases |-> cases, settings |-> <<>>, flipped |-> {}]

MCSensor == {A(TRUE, 1, 2), A(FALSE, 2, 0), A(TRUE, 0, 3)}

MCProbed == {A(TRUE, 1, 2)}

MCSettings ==
  {[host_ip              |-> 1677830336,
    host_udp_port        |-> 2000,
    channel              |-> 1,
    enabled              |-> TRUE,
    e_interface_type     |-> 4,
    publishing_frequency |-> 258,
    start_angle          |-> -(2^27 + 2^20),
    end_angle            |-> 2^28 + 2^18,
    features             |-> 31 + 256]}

Layout ==
  [n \in DOMAIN Reads |->
     CASE n \in {"ApplicationName", "UserName", "FieldGeometry"} -> 4 .. 7
       [] n = "FieldSets"                                        -> (4 .. 11) \cup (112 .. 115)
       [] n = "FieldHeader"                                      -> {0} \cup (84 .. 87)
       [] n = "MonitoringCase"                                   -> {0}
       [] n \in {"SerialNumber", "FirmwareVersion", "TypeCode", "OrderNumber", "DeviceName",
                 "ProjectName"}                                  -> {0, 1}
       [] OTHER                                                  -> {}]

\* The top bytes of the numbers of 32 bits.
TopBytes ==
  [n \in DOMAIN Reads |->
     CASE n = "ConfigMetadata"                        -> {11, 19, 39, 55, 71, 75, 79, 83}
       [] n = "StatusOverview"                        -> {15, 19, 27, 55}
       [] n \in {"CurrentConfig", "PersistentConfig"} -> {11, 47}
       [] OTHER                                       -> {}]

MCFlippable(name) ==
  {f \in (0 .. 215) \X (0 .. 7) :
     f[1] \notin Layout[name] /\ ~ (f[1] \in TopBytes[name] /\ f[2] = 7)}

MCStartAngle == 0 - 199229440
=============================================================================
