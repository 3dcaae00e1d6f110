---------------------------- MODULE MCRegionScan ----------------------------
(* An instance of RegionScan for TLC: a group whose minimum falls by one as *)
(* soon as a member is missed, and one that has an instance to replace.    *)
EXTENDS RegionScan

MCListed == [a |-> <<"o1", "s1", "o2", "o4">>, b |-> <<"o3">>]
MCSetting ==
  [a |-> [tagNumber |-> Unset, tagPercentage |-> 20, cliNumber |-> 2, cliPercentage |-> 0],
   b |-> [tagNumber |-> Unset, tagPercentage |-> Unset, cliNumber |-> 0, cliPercentage |-> 0]]

\* All instances run, but those in stopped and gone.
AllBut(stopped, gone) ==
  [i \in Instance |-> IF i \in stopped THEN "stopped" ELSE IF i \in gone THEN "gone" ELSE "running"]
MCInitialEc2 == {AllBut({"s1"}, {"o3"}), AllBut({}, {})}
=============================================================================
