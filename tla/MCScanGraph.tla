---------------------------- MODULE MCScanGraph ----------------------------
(* Assets on both sides of every test of the gate, and reports with a repeated *)
(* script, a negative one and a refused document.                              *)
EXTENDS ScanGraph

Address(f, c) == [family |-> f, class |-> c]
Public == Address(4, "global")
Public6 == Address(6, "global")
Private == Address(4, "private")
Loopback == Address(4, "forbidden")
Tunnel == Address(6, "transition")

Asset(t, first, last, size) ==
    [asset_type |-> t, valid |-> TRUE, first |-> first, last |-> last, size |-> size]

AssetsDef ==
    {Asset("ip", a, None, 1) : a \in {Public, Private, Tunnel}}
    \cup {Asset("subnet", Public, Public, n) : n \in {256, 257}}
    \cup {Asset("subnet", Loopback, Public, 256),
          Asset("web_app", Loopback, None, 1),
          Asset("hostname", None, None, 1),
          Asset("cloud_account", None, None, 1),
          [Asset("hostname", None, None, 1) EXCEPT !.valid = FALSE]}

DnsAnswersDef == {{}, {Public, Public6}, {Public, Loopback}, {Private}}

Script(k, v, raw) == [key |-> k, vulnerable |-> v, raw |-> raw]
ReportsDef ==
    {[verdict |-> "ok", scripts |-> <<Script("k1", TRUE, 150), Script("k2", FALSE, None),
                                      Script("k1", TRUE, None)>>],
     [verdict |-> "ok", scripts |-> <<Script("k2", TRUE, 0)>>],
     [verdict |-> "scan_type_mismatch", scripts |-> <<>>]}
=============================================================================
