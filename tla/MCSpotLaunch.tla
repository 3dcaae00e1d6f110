---------------------------- MODULE MCSpotLaunch ----------------------------
(* An instance of SpotLaunch for TLC: an instance with a volume of local    *)
(* storage, and candidates that differ from it in one respect each.        *)
EXTENDS SpotLaunch

Base == [vCPU |-> 4, memory |-> 8, GPU |-> 0, PhysicalProcessor |-> "Intel",
         EBSThroughput |-> 2, stores |-> 1, storeSize |-> 50, storeIsSSD |-> TRUE,
         virtualizationTypes |-> {"HVM"}, onDemand |-> 10, ebsSurcharge |-> 2]
MCInfo ==
  [current |-> Base,
   larger  |-> [Base EXCEPT !.vCPU = 8, !.PhysicalProcessor = "AMD", !.stores = 2,
                            !.virtualizationTypes = {}, !.onDemand = 20],
   slower  |-> [Base EXCEPT !.storeIsSSD = FALSE],
   smaller |-> [Base EXCEPT !.vCPU = 2],
   arm     |-> [Base EXCEPT !.PhysicalProcessor = "AWS"]]

Group0 == [launch |-> "template", interfaces |-> TRUE, groupNames |-> FALSE,
           ephemeral |-> 0, volumes |-> {}, threshold |-> None,
           allowed |-> {}, disallowed |-> {}]
Mapping(d, k, n) == [device |-> d, kind |-> k, size |-> n]
MCImageVolumes == {Mapping("root", "gp2", 8), Mapping("data", "io1", 50)}
MCConfigs ==
  {[Group0 EXCEPT !.volumes = {Mapping("root", "gp2", 200), Mapping("more", "gp2", 100)}],
   [Group0 EXCEPT !.launch = "configuration", !.ephemeral = 2,
                  !.volumes = {Mapping("data", "noDevice", 0)}],
   [Group0 EXCEPT !.interfaces = FALSE, !.ephemeral = 1, !.disallowed = {"current"},
                  !.threshold = 50,
                  !.volumes = {Mapping("root", "gp2", 100), Mapping("data", "noDevice", 0)}],
   [Group0 EXCEPT !.launch = "configuration", !.interfaces = FALSE,
                  !.allowed = {"current", "slower"}, !.threshold = -1,
                  !.volumes = {Mapping("root", "gp2", 8), Mapping("more", "unset", 10)}],
   [Group0 EXCEPT !.interfaces = FALSE, !.groupNames = TRUE],
   [Group0 EXCEPT !.volumes = {Mapping("root", "unset", 20)}]}

\* Every type cheap; near the price of the current one; the current one not offered.
MCMarkets ==
  {[t \in Type |-> 3], [t \in Type |-> 9],
   [t \in Type |-> IF t = "current" THEN 0 ELSE IF t = "larger" THEN 8 ELSE 11]}
=============================================================================
