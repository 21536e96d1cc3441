------------------------------ MODULE MCTuiApp ------------------------------
(* Rows as BusTree builds them: two buses with nested bridges, one of them    *)
(* leading to an empty bus, and a machine without devices.  Each device       *)
(* reports something else.                                                    *)
EXTENDS TuiApp

BusRow(text) == [depth |-> 0, parent |-> 0, device |-> FALSE,
                 expandable |-> TRUE, text |-> text, report |-> "none"]
DeviceRow(depth, parent, bridge, text, report) ==
  [depth |-> depth, parent |-> parent, device |-> TRUE,
   expandable |-> bridge, text |-> text, report |-> report]

MCReports ==
  [bridge     |-> Details(AllFields, {}, TRUE, "Bridge"),
   unreadable |-> Details(AllFields, {"driver"}, FALSE, "Bridge"),
   cardbus    |-> Details(AllFields \ {"sizes"}, {"parent"}, TRUE, "CardBus"),
   unknown    |-> Details(RequiredFields, {}, TRUE, "Device"),
   bare       |-> Details(AllFields, DOMAIN Needs \cup {"capabilities"}, TRUE, "Device")]

Nested ==
  <<BusRow(<<"a">>),
    DeviceRow(1, 1, TRUE, <<"a">>, "bridge"),
    DeviceRow(2, 2, TRUE, <<"b">>, "unreadable"),
    DeviceRow(3, 3, FALSE, <<"b", "a">>, "unknown"),
    DeviceRow(2, 2, FALSE, <<"a", "a">>, "bare"),
    BusRow(<< >>),
    DeviceRow(1, 6, TRUE, <<"b", "b">>, "cardbus")>>

MCTrees == {<< >>, Nested}
=============================================================================
