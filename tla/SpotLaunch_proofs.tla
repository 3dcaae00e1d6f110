-------------------------- MODULE SpotLaunch_proofs --------------------------
(***************************************************************************)
(* What an instance launched by the handler costs, how good it is and how  *)
(* old its configuration, for all types, markets, configurations and       *)
(* numbers of faults.                                                      *)
(***************************************************************************)
EXTENDS SpotLaunch, TLAPS

----------------------------------------------------------------------------

\* The on-demand price is a number.
LEMMA PriceType == Price \in Nat
<1>1. Info[Current].onDemand \in Nat /\ Multiplier \in Nat
  BY TypeAssumption, MarketAssumption DEF InstanceTypeInformation
<1> DEFINE product == Info[Current].onDemand * Multiplier
<1>2. product \in Nat
  BY <1>1
<1> HIDE DEF product
<1>3. product \div 100 \in Nat
  BY <1>2
<1> QED
  BY <1>3 DEF Price, product

\* Spot prices are numbers.
LEMMA MarketType == \A m \in Markets \cup {NoPrices} : m \in [Type -> Nat]
BY MarketAssumption DEF NoPrices

\* A conversion of block device mappings makes mappings of volumes.
LEMMA Converted ==
  ASSUME NEW c \in Configs, NEW volumes \in SUBSET (Volume \cup NoDevice)
  PROVE  ConvertBlockDeviceMappings(volumes, c) \in SUBSET Volume
<1>1. SUFFICES ASSUME NEW v \in volumes, v.kind # "noDevice"
               PROVE  [v EXCEPT !.kind = ConvertEBSVolumeType(v, c)] \in Volume
  BY DEF ConvertBlockDeviceMappings
<1>2. v \in Volume
  BY <1>1 DEF NoDevice
<1>3. ConvertEBSVolumeType(v, c) \in {"gp2", "gp3", "io1", "io2", "unset"}
  BY <1>2 DEF ConvertEBSVolumeType, Volume
<1> QED
  BY <1>2, <1>3 DEF Volume

\* So the mappings of a launch template are of volumes.
LEMMA Mappings ==
  ASSUME TypeOK, NEW described \in BOOLEAN
  PROVE  BlockDeviceMappings(described) \in SUBSET Volume
<1>1. seen \in Configs /\ seen.volumes \in SUBSET (Volume \cup NoDevice)
  BY MarketAssumption DEF TypeOK, Config
<1>2. ConvertBlockDeviceMappings(seen.volumes, seen) \in SUBSET Volume
  BY <1>1, Converted
<1>3. ConvertBlockDeviceMappings(ImageVolumes, seen) \in SUBSET Volume
  BY <1>1, Converted, VolumeAssumption
<1> QED
  BY <1>2, <1>3 DEF BlockDeviceMappings

\* A launch template that names the security groups of its instances.
NamesGroups(c) == c.launch = "template" /\ ~c.interfaces /\ c.groupNames

\* What is in a launch template.
LEMMA TemplateData ==
  ASSUME TypeOK, NEW described \in BOOLEAN
  PROVE  LET lt == LaunchTemplateData(described) IN
         /\ lt \in Template
         /\ lt.config = seen
         /\ lt.MaxPrice = Price
         /\ ~(lt.networks /\ lt.ids) /\ ~(lt.networks /\ lt.names)
         /\ lt.names => NamesGroups(seen)
         /\ ~lt.image => ~loaded /\ seen.launch = "configuration"
<1>1. seen \in Config /\ loaded \in BOOLEAN
  BY MarketAssumption DEF TypeOK
<1>2. NetworkInterfaces(seen, loaded) \in BOOLEAN
  BY <1>1 DEF Config, NetworkInterfaces
<1>3. SecurityGroupIds(seen, loaded) <=> ~NetworkInterfaces(seen, loaded)
  BY DEF SecurityGroupIds
<1>4. SecurityGroupIds(seen, loaded) \in BOOLEAN
  BY DEF SecurityGroupIds
<1>7. SecurityGroupNames(seen, loaded) \in BOOLEAN
  BY <1>1 DEF Config, SecurityGroupNames
<1>8. SecurityGroupNames(seen, loaded) => NamesGroups(seen) /\ ~NetworkInterfaces(seen, loaded)
  BY <1>1 DEF SecurityGroupNames, NetworkInterfaces, NamesGroups
<1>5. (loaded \/ seen.launch = "template") \in BOOLEAN
  BY <1>1
<1>6. seen.launch # "template" => seen.launch = "configuration"
  BY <1>1 DEF Config
<1> QED
  BY <1>1, <1>2, <1>3, <1>4, <1>5, <1>6, <1>7, <1>8, PriceType, Mappings
     DEF LaunchTemplateData, Template, TypeOK

\* createFleetLaunchTemplate makes a template, unless there is one.
LEMMA Created ==
  ASSUME TypeOK, CreateFleetLaunchTemplate
  PROVE  /\ faults' = faults \/ faults' = faults + 1
         /\ UNCHANGED <<env, job, launched, changes, moved, leaks, stale>>
         /\ template # None => template' = template
         /\ template = None =>
              /\ template' \in Template /\ template'.config = seen /\ template'.MaxPrice = Price
              /\ ~(template'.networks /\ template'.ids) /\ ~(template'.networks /\ template'.names)
              /\ template'.names => NamesGroups(seen)
              /\ ~template'.image => ~loaded /\ seen.launch = "configuration"
              /\ \E described \in BOOLEAN : template'.volumes = BlockDeviceMappings(described)
<1>1. PICK d \in BOOLEAN :
        /\ template' = IF template = None THEN LaunchTemplateData(d) ELSE template
        /\ IF d THEN UNCHANGED faults ELSE Fault
  BY DEF CreateFleetLaunchTemplate
<1>2. faults' = faults \/ faults' = faults + 1
  BY <1>1 DEF Fault
<1>3. UNCHANGED <<env, job, launched, changes, moved, leaks, stale>>
  BY DEF CreateFleetLaunchTemplate
<1>4. LaunchTemplateData(d).volumes = BlockDeviceMappings(d)
  BY DEF LaunchTemplateData
<1>5. ASSUME template = None
      PROVE  /\ template' \in Template /\ template'.config = seen /\ template'.MaxPrice = Price
             /\ ~(template'.networks /\ template'.ids) /\ ~(template'.networks /\ template'.names)
             /\ template'.names => NamesGroups(seen)
             /\ ~template'.image => ~loaded /\ seen.launch = "configuration"
             /\ template'.volumes = BlockDeviceMappings(d)
  BY <1>1, <1>4, <1>5, TemplateData
<1> QED
  BY <1>1, <1>2, <1>3, <1>5

----------------------------------------------------------------------------
\* The template is there from its creation to the end of the handler.
TemplateThere == pc \in {"list", "fleet", "delete"} => template \in Template

\* Initially the variables are well typed.
LEMMA TypesInitial == Init => TypeOK /\ TemplateThere
<1> SUFFICES ASSUME Init PROVE TypeOK /\ TemplateThere
  OBVIOUS
<1>1. moved \in BOOLEAN /\ loaded \in BOOLEAN
  BY Zenon DEF Init
<1>2. changes \in Nat /\ faults \in Nat /\ leaks \in Nat /\ stale \in Nat
  BY DEF Init
<1>3. known \in Markets \cup {NoPrices} /\ types \subseteq Type
  BY DEF Init
<1>4. pc \in {"idle", "create", "list", "fleet", "delete"} /\ TemplateThere
  BY DEF Init, TemplateThere
<1>5. /\ market \in Markets /\ config \in Configs /\ seen \in Configs
      /\ template \in Template \cup {None} /\ launched \in Launched \cup {None}
  BY DEF Init
<1> QED
  BY <1>1, <1>2, <1>3, <1>4, <1>5 DEF TypeOK

\* The steps keep the types of the flags.
LEMMA BooleansStep ==
  ASSUME TypeOK, [Next]_vars
  PROVE  moved' \in BOOLEAN /\ loaded' \in BOOLEAN
<1>1. moved \in BOOLEAN /\ loaded \in BOOLEAN
  BY DEF TypeOK
<1>2. CASE Change
  BY <1>1, <1>2, Zenon DEF Change, job
<1>3. CASE HandleMessage
  BY <1>1, <1>3, Zenon DEF HandleMessage
<1>4. CASE CreateFleetLaunchTemplate
  BY <1>1, <1>4 DEF CreateFleetLaunchTemplate, job, hist
<1>5. CASE CreateFails
  BY <1>1, <1>5 DEF CreateFails, job, hist
<1>12. CASE CreatePanics
  BY <1>1, <1>12 DEF CreatePanics, job, hist
<1>6. CASE ListTypes
  BY <1>1, <1>6 DEF ListTypes, hist
<1>7. CASE CreateFleet
  BY <1>1, <1>7 DEF CreateFleet, job, hist
<1>8. CASE CreateFleetFails
  BY <1>1, <1>8 DEF CreateFleetFails, job, hist
<1>9. CASE DeleteLaunchTemplate
  BY <1>1, <1>9 DEF DeleteLaunchTemplate, job, hist
<1>10. CASE Crash
  BY <1>1, <1>10 DEF Crash, job, hist
<1>11. CASE UNCHANGED vars
  BY <1>1, <1>11 DEF vars, job, hist
<1> QED
  BY <1>2, <1>3, <1>4, <1>5, <1>6, <1>7, <1>8, <1>9, <1>10, <1>11, <1>12 DEF Next

\* The steps keep the types of the counters.
LEMMA CountersStep ==
  ASSUME TypeOK, [Next]_vars
  PROVE  changes' \in Nat /\ faults' \in Nat /\ leaks' \in Nat /\ stale' \in Nat
<1>1. changes \in Nat /\ faults \in Nat /\ leaks \in Nat /\ stale \in Nat
  BY DEF TypeOK
<1> USE DEF hist, vars, Fault
<1>2. CASE Change
  <2>1. changes' = changes + 1 /\ UNCHANGED <<faults, leaks, stale>>
    BY <1>2 DEF Change
  <2> QED
    BY <1>1, <2>1
<1>3. CASE HandleMessage
  <2>1. UNCHANGED <<changes, leaks, stale>> /\ (faults' = faults \/ faults' = faults + 1)
    BY <1>3 DEF HandleMessage
  <2> QED
    BY <1>1, <2>1
<1>4. CASE CreateFleetLaunchTemplate
  <2>1. UNCHANGED <<changes, leaks, stale>> /\ (faults' = faults \/ faults' = faults + 1)
    BY <1>4, Created
  <2> QED
    BY <1>1, <2>1
<1>5. CASE CreateFails
  BY <1>1, <1>5 DEF CreateFails
<1>12. CASE CreatePanics
  BY <1>1, <1>12 DEF CreatePanics
<1>6. CASE ListTypes
  BY <1>1, <1>6 DEF ListTypes
<1>7. CASE CreateFleet
  BY <1>1, <1>7 DEF CreateFleet
<1>8. CASE CreateFleetFails
  BY <1>1, <1>8 DEF CreateFleetFails
<1>9. CASE DeleteLaunchTemplate
  BY <1>1, <1>9 DEF DeleteLaunchTemplate
<1>10. CASE Crash
  BY <1>1, <1>10 DEF Crash
<1>11. CASE UNCHANGED vars
  BY <1>1, <1>11
<1> QED
  BY <1>2, <1>3, <1>4, <1>5, <1>6, <1>7, <1>8, <1>9, <1>10, <1>11, <1>12 DEF Next

\* The variables that are neither Booleans nor numbers.
OthersTyped ==
  /\ market \in Markets /\ config \in Configs /\ seen \in Configs
  /\ template \in Template \cup {None}
  /\ pc \in {"idle", "create", "list", "fleet", "delete"}
  /\ known \in Markets \cup {NoPrices}
  /\ types \subseteq Type
  /\ launched \in Launched \cup {None}

\* What CreateFleet makes of the template and the market.
LEMMA FleetInstance ==
  ASSUME TypeOK, TemplateThere, CreateFleet
  PROVE  /\ template \in Template
         /\ launched' \in Launched /\ launched'.type \in types
         /\ launched'.price = market[launched'.type]
         /\ launched'.price <= template.MaxPrice
<1>1. PICK t \in types :
        /\ market[t] \in 1 .. template.MaxPrice
        /\ launched' = [type |-> t, price |-> market[t], config |-> template.config]
  BY DEF CreateFleet
<1>2. template \in Template
  BY DEF TypeOK, TemplateThere, CreateFleet, Step
<1>3. t \in Type /\ market[t] \in Nat
  BY MarketAssumption DEF TypeOK
<1>4. template.MaxPrice \in Nat /\ template.config \in Configs
  BY <1>2 DEF Template
<1> QED
  BY <1>1, <1>2, <1>3, <1>4 DEF Launched

\* The steps keep the other types, and a template wherever it is used.
LEMMA OthersStep ==
  ASSUME TypeOK, TemplateThere, [Next]_vars
  PROVE  OthersTyped' /\ TemplateThere'
<1>0. OthersTyped
  BY DEF TypeOK, OthersTyped
<1> USE <1>0 DEF OthersTyped, TemplateThere, Step
<1>1. CASE Change
  BY <1>1 DEF Change, job
<1>2. CASE HandleMessage
  BY <1>2 DEF HandleMessage, env
<1>3. CASE CreateFleetLaunchTemplate
  <2>1. template' \in Template
    BY <1>3, Created
  <2> QED
    BY <1>3, <2>1 DEF CreateFleetLaunchTemplate, env, job
<1>4. CASE CreateFails
  BY <1>4 DEF CreateFails, env, job
<1>11. CASE CreatePanics
  BY <1>11 DEF CreatePanics, env, job
<1>5. CASE ListTypes
  BY <1>5 DEF ListTypes, GetCompatibleSpotInstanceTypesList, env
<1>6. CASE CreateFleet
  BY <1>6, FleetInstance DEF CreateFleet, env, job
<1>7. CASE CreateFleetFails
  BY <1>7 DEF CreateFleetFails, env, job
<1>8. CASE DeleteLaunchTemplate
  BY <1>8 DEF DeleteLaunchTemplate, env, job
<1>9. CASE Crash
  BY <1>9 DEF Crash, env, job
<1>10. CASE UNCHANGED vars
  BY <1>10 DEF vars, env, job
<1> QED
  BY <1>1, <1>2, <1>3, <1>4, <1>5, <1>6, <1>7, <1>8, <1>9, <1>10, <1>11 DEF Next

\* Every variable has its type: launchSpotReplacement and what it calls.
THEOREM SpotLaunchTypes == Spec => [](TypeOK /\ TemplateThere)
<1>1. TypeOK /\ TemplateThere /\ [Next]_vars => TypeOK' /\ TemplateThere'
  <2> SUFFICES ASSUME TypeOK, TemplateThere, [Next]_vars PROVE TypeOK' /\ TemplateThere'
    OBVIOUS
  <2>1. moved' \in BOOLEAN /\ loaded' \in BOOLEAN
    BY BooleansStep
  <2>2. changes' \in Nat /\ faults' \in Nat /\ leaks' \in Nat /\ stale' \in Nat
    BY CountersStep
  <2>3. OthersTyped' /\ TemplateThere'
    BY OthersStep
  <2> QED
    BY <2>1, <2>2, <2>3, Zenon DEF TypeOK, OthersTyped
<1> QED
  BY <1>1, TypesInitial, PTL DEF Spec

----------------------------------------------------------------------------
(* A template that was left behind is used for one instance at most.       *)

\* Between two handlers a template in EC2 was left by an accident that has not yet
\* made an instance outdated; during one, so was a template of another configuration.
Accounts ==
  /\ stale <= leaks
  /\ pc \in {"idle", "create"} /\ template # None => stale < leaks
  /\ pc \in {"list", "fleet"} /\ template.config # seen => stale < leaks

\* The steps keep account of the templates left behind.
LEMMA AccountsStep ==
  ASSUME TypeOK, TemplateThere, Accounts, [Next]_vars
  PROVE  Accounts'
<1>1. leaks \in Nat /\ stale \in Nat
  BY DEF TypeOK
<1> USE <1>1 DEF Accounts, Step
<1>2. CASE Change
  BY <1>2 DEF Change, job
<1>3. CASE HandleMessage
  BY <1>3 DEF HandleMessage
<1>4. CASE CreateFleetLaunchTemplate
  BY <1>4, Created DEF CreateFleetLaunchTemplate, job
<1>5. CASE CreateFails
  BY <1>5 DEF CreateFails, job
<1>12. CASE CreatePanics
  BY <1>12 DEF CreatePanics, job, hist
<1>6. CASE ListTypes
  BY <1>6 DEF ListTypes, hist
<1>7. CASE CreateFleet
  BY <1>7 DEF CreateFleet, job
<1>8. CASE CreateFleetFails
  BY <1>8 DEF CreateFleetFails, job
<1>9. CASE DeleteLaunchTemplate
  BY <1>9 DEF DeleteLaunchTemplate, job
<1>10. CASE Crash
  BY <1>10 DEF Crash, job
<1>11. CASE UNCHANGED vars
  BY <1>11 DEF vars, job, hist
<1> QED
  BY <1>2, <1>3, <1>4, <1>5, <1>6, <1>7, <1>8, <1>9, <1>10, <1>11, <1>12 DEF Next

\* At most one outdated instance for each time a template is left behind
\* (createFleetLaunchTemplate, deleteLaunchTemplate).
THEOREM StaleOnce == Spec => []StaleOncePerLeak
<1>1. Init => Accounts
  BY DEF Init, Accounts
<1>2. Accounts => StaleOncePerLeak
  BY DEF Accounts, StaleOncePerLeak
<1> QED
  BY <1>1, <1>2, AccountsStep, SpotLaunchTypes, PTL DEF Spec

----------------------------------------------------------------------------
(* The instance that was launched.                                         *)

\* The types asked for are compatible, the template's price is the instance's, and the
\* prices known are the market's until that moves.
Fits ==
  /\ types \subseteq GetCompatibleSpotInstanceTypesList
  /\ template # None \/ pc \in {"list", "fleet", "delete"} => template.MaxPrice = Price
  /\ ~moved => known \in {market, NoPrices}
  /\ pc \in {"create", "list", "fleet"} => launched = None
  /\ launched # None =>
       /\ launched.type \in types
       /\ launched.price <= Price
       /\ ~moved => launched.price = market[launched.type]

\* The steps keep what is launched within what was asked for.
LEMMA FitsStep ==
  ASSUME TypeOK, TemplateThere, Fits, [Next]_vars
  PROVE  Fits'
<1> DEFINE List == GetCompatibleSpotInstanceTypesList
<1>0. UNCHANGED <<seen, known, loaded>> => UNCHANGED List
  BY DEF GetCompatibleSpotInstanceTypesList, IsAllowed, IsCompatible, IsStorageCompatible,
         AttachedVolumes, CalculatePrice
<1> HIDE DEF List
<1> USE DEF Step
<1>1. CASE Change
  <2>1. UNCHANGED List
    BY <1>0, <1>1 DEF Change, job
  <2>2. moved' \/ UNCHANGED <<market, moved>>
    BY <1>1, Zenon DEF Change
  <2> QED
    BY <1>1, <2>1, <2>2 DEF Change, job, Fits, List
<1>2. CASE HandleMessage
  <2>1. types' = {} /\ launched' = None /\ known' \in {market, NoPrices} /\ pc' = "create"
    BY <1>2 DEF HandleMessage
  <2>2. UNCHANGED <<market, template>>
    BY <1>2 DEF HandleMessage, env
  <2>3. UNCHANGED <<Price, NoPrices>>
    BY DEF Price, NoPrices
  <2> QED
    BY <2>1, <2>2, <2>3 DEF Fits
<1>3. CASE CreateFleetLaunchTemplate
  <2>1. UNCHANGED List
    BY <1>0, <1>3 DEF CreateFleetLaunchTemplate, job
  <2>2. template'.MaxPrice = Price
    BY <1>3, Created DEF CreateFleetLaunchTemplate, Fits
  <2> QED
    BY <1>3, <2>1, <2>2 DEF CreateFleetLaunchTemplate, env, job, Fits, List, Price, NoPrices
<1>4. CASE CreateFails
  <2>1. UNCHANGED List
    BY <1>0, <1>4 DEF CreateFails, job
  <2> QED
    BY <1>4, <2>1 DEF CreateFails, env, job, Fits, List, Price, NoPrices
<1>11. CASE CreatePanics
  <2>1. UNCHANGED List
    BY <1>0, <1>11 DEF CreatePanics, job
  <2> QED
    BY <1>11, <2>1 DEF CreatePanics, env, job, hist, Fits, List, Price, NoPrices
<1>5. CASE ListTypes
  <2>1. UNCHANGED List /\ types' = List
    BY <1>0, <1>5 DEF ListTypes, List
  <2> QED
    BY <1>5, <2>1 DEF ListTypes, env, hist, Fits, List, Price, NoPrices
<1>6. CASE CreateFleet
  <2>1. UNCHANGED List
    BY <1>0, <1>6 DEF CreateFleet, job
  <2>2. /\ launched'.type \in types
        /\ launched'.price = market[launched'.type]
        /\ launched'.price <= template.MaxPrice
    BY <1>6, FleetInstance DEF CreateFleet
  <2> QED
    BY <1>6, <2>1, <2>2 DEF CreateFleet, env, job, Fits, List, Price, NoPrices
<1>7. CASE CreateFleetFails
  <2>1. UNCHANGED List
    BY <1>0, <1>7 DEF CreateFleetFails, job
  <2> QED
    BY <1>7, <2>1 DEF CreateFleetFails, env, job, Fits, List, Price, NoPrices
<1>8. CASE DeleteLaunchTemplate
  <2>1. UNCHANGED List
    BY <1>0, <1>8 DEF DeleteLaunchTemplate, job
  <2> QED
    BY <1>8, <2>1 DEF DeleteLaunchTemplate, env, job, Fits, List, Price, NoPrices
<1>9. CASE Crash
  <2>1. UNCHANGED List
    BY <1>0, <1>9 DEF Crash, job
  <2> QED
    BY <1>9, <2>1 DEF Crash, env, job, Fits, List, Price, NoPrices
<1>10. CASE UNCHANGED vars
  <2>1. UNCHANGED List
    BY <1>0, <1>10 DEF vars, job
  <2> QED
    BY <1>10, <2>1 DEF vars, env, job, hist, Fits, List, Price, NoPrices
<1> QED
  BY <1>1, <1>2, <1>3, <1>4, <1>5, <1>6, <1>7, <1>8, <1>9, <1>10, <1>11 DEF Next

\* Nothing is launched initially.
LEMMA FitsInitial == Init => Fits
BY DEF Init, Fits

\* What the list of compatible types promises of each of them.
LEMMA Compatible ==
  ASSUME TypeOK, NEW t \in GetCompatibleSpotInstanceTypesList
  PROVE  /\ t \in Type
         /\ IsPriceCompatible(CalculatePrice(t)) /\ IsEBSCompatible(t)
         /\ IsClassCompatible(t) /\ IsStorageCompatible(t)
BY DEF GetCompatibleSpotInstanceTypesList, IsCompatible

\* What is within the request is not dearer.
LEMMA FitsNeverDearer == TypeOK /\ Fits => NeverDearer
<1> SUFFICES ASSUME TypeOK, Fits, launched # None
             PROVE  /\ launched.price <= Price
                    /\ ~moved /\ known[launched.type] # 0 => Cost <= Price
  BY DEF NeverDearer
<1> DEFINE t == launched.type
<1>1. t \in GetCompatibleSpotInstanceTypesList /\ launched.price <= Price
  BY DEF Fits
<1>2. t \in Type /\ CalculatePrice(t) <= Price
  BY <1>1, Compatible DEF IsPriceCompatible
<1>3. ASSUME ~moved, known[t] # 0
      PROVE  launched.price = known[t]
  BY <1>2, <1>3 DEF Fits, NoPrices
<1>4. ASSUME ~moved, known[t] # 0
      PROVE  Cost = CalculatePrice(t)
  BY <1>3, <1>4 DEF Cost, CalculatePrice
<1> QED
  BY <1>1, <1>2, <1>4

\* What is within the request is as good.
LEMMA FitsAsGood == TypeOK /\ Fits => AsGood
<1> SUFFICES ASSUME TypeOK, Fits, launched # None
             PROVE  AsGood
  BY DEF AsGood
<1> DEFINE new == Info[launched.type]
           old == Info[Current]
           used == {k \in 1 .. old.stores : k <= seen.ephemeral}
<1>1. launched.type \in GetCompatibleSpotInstanceTypesList
  BY DEF Fits
<1>2. /\ launched.type \in Type /\ IsEBSCompatible(launched.type)
      /\ IsClassCompatible(launched.type) /\ IsStorageCompatible(launched.type)
  BY <1>1, Compatible
<1>3. /\ new.vCPU \in Nat /\ new.memory \in Nat /\ new.GPU \in Nat /\ new.EBSThroughput \in Nat
      /\ new.stores \in Nat /\ new.storeSize \in Nat /\ new.storeIsSSD \in BOOLEAN
      /\ old.vCPU \in Nat /\ old.memory \in Nat /\ old.GPU \in Nat /\ old.EBSThroughput \in Nat
      /\ old.stores \in Nat /\ old.storeSize \in Nat /\ old.storeIsSSD \in BOOLEAN
      /\ seen.ephemeral \in Nat
  BY <1>2, TypeAssumption, MarketAssumption DEF InstanceTypeInformation, Config, TypeOK
<1>4. new.vCPU >= old.vCPU /\ new.memory >= old.memory /\ new.GPU >= old.GPU
  BY <1>2, <1>3 DEF IsClassCompatible
<1>5. (new.PhysicalProcessor = "AWS") <=> (old.PhysicalProcessor = "AWS")
  BY <1>2 DEF IsClassCompatible, IsSameArch, IsIntelCompatible
<1>6. new.EBSThroughput >= old.EBSThroughput
  BY <1>2, <1>3 DEF IsEBSCompatible
<1>7. ASSUME loaded, used # {}
      PROVE  /\ used \subseteq 1 .. new.stores /\ new.storeSize >= old.storeSize
             /\ old.storeIsSSD => new.storeIsSSD
  <2>1. AttachedVolumes = IF seen.ephemeral > old.stores THEN old.stores ELSE seen.ephemeral
    BY <1>7 DEF AttachedVolumes, Smaller
  <2>2. AttachedVolumes # 0
    BY <1>3, <1>7, <2>1
  <2>3. /\ new.stores >= AttachedVolumes /\ new.storeSize >= old.storeSize
        /\ new.storeIsSSD \/ ~old.storeIsSSD
    BY <1>2, <2>2 DEF IsStorageCompatible
  <2>4. used \subseteq 1 .. new.stores
    BY <1>3, <2>1, <2>3
  <2> QED
    BY <2>3, <2>4
<1> QED
  BY <1>4, <1>5, <1>6, <1>7 DEF AsGood

\* What is launched is always within the request.
LEMMA FitsInvariant == Spec => [](TypeOK /\ Fits)
BY FitsInitial, FitsStep, SpotLaunchTypes, PTL DEF Spec

\* No instance is dearer than the one it replaces (isPriceCompatible, the MaxPrice of
\* the launch template).
THEOREM LaunchedNeverDearer == Spec => []NeverDearer
BY FitsInvariant, FitsNeverDearer, PTL

\* No instance is worse than the one it replaces (the compatibility checks).
THEOREM LaunchedAsGood == Spec => []AsGood
BY FitsInvariant, FitsAsGood, PTL

----------------------------------------------------------------------------
(* EC2 can launch from the template.                                       *)

\* A handler that could not load something met a fault.
Faulted ==
  /\ ~loaded /\ pc # "idle" => faults > 0
  /\ TemplateUsable
  /\ pc \in {"list", "fleet", "delete"} /\ ~Usable(template) =>
       \/ faults > 0 /\ template.config.launch = "configuration"
       \/ NamesGroups(template.config)

\* The steps keep that only a fault, or names of security groups, make a template
\* unusable.
LEMMA FaultedStep ==
  ASSUME TypeOK, TemplateThere, Faulted, [Next]_vars
  PROVE  Faulted'
<1>1. faults \in Nat
  BY DEF TypeOK
<1>2. faults' = faults \/ faults' = faults + 1
  BY DEF Next, Change, HandleMessage, CreateFleetLaunchTemplate, CreatePanics, CreateFails, ListTypes,
         CreateFleet, CreateFleetFails, DeleteLaunchTemplate, Crash, vars, hist, Fault
<1>3. faults > 0 => faults' > 0
  BY <1>1, <1>2
<1> USE DEF Faulted, TemplateUsable, Usable, NamesGroups, Step
<1>4. CASE Change
  BY <1>3, <1>4 DEF Change, job
<1>5. CASE HandleMessage
  <2>1. loaded' \/ Fault
    BY <1>5, Zenon DEF HandleMessage
  <2>2. ~loaded' => faults' > 0
    BY <1>1, <2>1 DEF Fault
  <2> QED
    BY <1>3, <1>5, <2>2 DEF HandleMessage
<1>6. CASE CreateFleetLaunchTemplate
  <2>1. pc = "create" /\ pc' = "list" /\ UNCHANGED loaded
    BY <1>6 DEF CreateFleetLaunchTemplate, job
  <2>2. CASE template = None
    BY <1>3, <1>6, <2>1, <2>2, Created
  <2>3. CASE template # None
    BY <1>3, <1>6, <2>1, <2>3, Created
  <2> QED
    BY <2>2, <2>3
<1>7. CASE CreateFails
  BY <1>3, <1>7 DEF CreateFails, job
<1>14. CASE CreatePanics
  BY <1>3, <1>14 DEF CreatePanics, job
<1>8. CASE ListTypes
  BY <1>3, <1>8 DEF ListTypes
<1>9. CASE CreateFleet
  BY <1>3, <1>9 DEF CreateFleet, job
<1>10. CASE CreateFleetFails
  BY <1>3, <1>10 DEF CreateFleetFails, job
<1>11. CASE DeleteLaunchTemplate
  BY <1>3, <1>11 DEF DeleteLaunchTemplate, job
<1>12. CASE Crash
  BY <1>3, <1>12 DEF Crash, job
<1>13. CASE UNCHANGED vars
  BY <1>3, <1>13 DEF vars, job
<1> QED
  BY <1>4, <1>5, <1>6, <1>7, <1>8, <1>9, <1>10, <1>11, <1>12, <1>13, <1>14 DEF Next

\* EC2 can launch from every template there is, except for one made after a failed load
\* of the launch configuration, and one whose group's launch template names its security
\* groups (createLaunchTemplateData, processLaunchTemplate).
THEOREM TemplatesUsable == Spec => []TemplateUsable
<1>1. Init => Faulted
  BY DEF Init, Faulted, TemplateUsable
<1>2. Faulted => TemplateUsable
  BY DEF Faulted
<1> QED
  BY <1>1, <1>2, FaultedStep, SpotLaunchTypes, PTL DEF Spec

----------------------------------------------------------------------------
(* The volumes of the replacement.                                         *)

Conversion(v, c) == [v EXCEPT !.kind = ConvertEBSVolumeType(v, c)]

\* Which mappings are converted, and what to.
LEMMA ConversionMember ==
  ASSUME NEW volumes, NEW c
  PROVE  /\ \A v \in volumes : v.kind # "noDevice" =>
              Conversion(v, c) \in ConvertBlockDeviceMappings(volumes, c)
         /\ \A w \in ConvertBlockDeviceMappings(volumes, c) :
              \E v \in volumes : v.kind # "noDevice" /\ w = Conversion(v, c)
BY DEF ConvertBlockDeviceMappings, Conversion

\* A conversion keeps all but the type, which it changes as it is asked to.
LEMMA ConversionBecomes ==
  ASSUME NEW c \in Configs, NEW v \in Volume
  PROVE  /\ Becomes(v, Conversion(v, c), c) /\ Becomes(v, v, c)
         /\ Conversion(v, c) \in Volume /\ Conversion(v, c).device = v.device
<1>1. c.threshold \in Int \cup {None}
  BY MarketAssumption DEF Config
<1>2. ConvertEBSVolumeType(v, c) \in {"gp2", "gp3", "io1", "io2", "unset"}
  BY DEF ConvertEBSVolumeType, Volume
<1>3. /\ Conversion(v, c).device = v.device /\ Conversion(v, c).size = v.size
      /\ Conversion(v, c).kind = ConvertEBSVolumeType(v, c)
  BY DEF Conversion, Volume
<1>4. Conversion(v, c) \in Volume
  BY <1>2 DEF Conversion, Volume
<1>5. CASE v.kind = "io1" /\ Io2Supported
  <2>1. ConvertEBSVolumeType(v, c) = "io2"
    BY <1>5 DEF ConvertEBSVolumeType
  <2>2. Becomes(v, Conversion(v, c), c)
    BY <1>3, <1>5, <2>1 DEF Becomes
  <2>3. Becomes(v, v, c)
    BY DEF Becomes
  <2> QED
    BY <1>3, <1>4, <2>2, <2>3
<1>6. CASE v.kind = "gp2" /\ v.size <= GP2ConversionThreshold(c)
  <2>1. ConvertEBSVolumeType(v, c) = "gp3"
    BY <1>6 DEF ConvertEBSVolumeType
  <2>2. v.size <= (IF c.threshold \in Int THEN c.threshold ELSE Threshold)
    BY <1>1, <1>6, VolumeAssumption DEF GP2ConversionThreshold
  <2>3. Becomes(v, Conversion(v, c), c)
    BY <1>3, <1>6, <2>1, <2>2 DEF Becomes
  <2>4. Becomes(v, v, c)
    BY DEF Becomes
  <2> QED
    BY <1>3, <1>4, <2>3, <2>4
<1>7. CASE ~(v.kind = "io1" /\ Io2Supported) /\ ~(v.kind = "gp2" /\ v.size <= GP2ConversionThreshold(c))
  <2>1. ConvertEBSVolumeType(v, c) = v.kind
    BY <1>7 DEF ConvertEBSVolumeType
  <2> QED
    BY <1>3, <1>4, <2>1 DEF Becomes
<1>8. Becomes(v, v, c)
  BY DEF Becomes
<1> QED
  BY <1>3, <1>4, <1>5, <1>6, <1>7, <1>8

\* What a set of mappings becomes has all of its volumes, and only those of the image
\* besides that it maps to no device.
Keeps(mappings, result, c) ==
  /\ \A v \in Attached(mappings) : \E w \in Attached(result) : Becomes(v, w, c)
  /\ \A w \in Attached(result) :
       \/ \E v \in Attached(mappings) : Becomes(v, w, c)
       \/ \E v \in mappings : v.kind = "noDevice" /\ v.device = w.device

\* The group's own mappings are kept by a conversion.
LEMMA OwnMappingsKept ==
  ASSUME NEW c \in Configs, NEW M \in SUBSET (Volume \cup NoDevice)
  PROVE  Keeps(M, ConvertBlockDeviceMappings(M, c), c)
<1> DEFINE own == ConvertBlockDeviceMappings(M, c)
<1>1. /\ \A v \in M : v.kind # "noDevice" => v \in Volume
      /\ \A v \in ImageVolumes : v \in Volume
  BY VolumeAssumption DEF NoDevice
<1>2. /\ \A v \in M : v.kind # "noDevice" => Conversion(v, c) \in own
      /\ \A w \in own : \E v \in M : v.kind # "noDevice" /\ w = Conversion(v, c)
  BY ConversionMember
<1>3. own \in SUBSET Volume
  BY Converted
<1> HIDE DEF own
<1>4. \A w \in own : w.kind # "noDevice"
  BY <1>3 DEF Volume
<1>5. ASSUME NEW v \in Attached(M)
      PROVE  \E w \in Attached(own) : Becomes(v, w, c)
  <2>1. CASE v \in M /\ v.kind # "noDevice"
    <3>1. Conversion(v, c) \in Attached(own)
      BY <1>2, <1>4, <2>1 DEF Attached
    <3> QED
      BY <1>1, <2>1, <3>1, ConversionBecomes
  <2>2. CASE v \in ImageVolumes /\ \A w \in M : w.device # v.device
    <3>1. \A w \in own : w.device # v.device
      <4>1. SUFFICES ASSUME NEW w \in own, w.device = v.device PROVE FALSE
        OBVIOUS
      <4>2. PICK u \in M : u.kind # "noDevice" /\ w = Conversion(u, c)
        BY <1>2
      <4>3. w.device = u.device
        BY <1>1, <4>2, ConversionBecomes
      <4> QED
        BY <2>2, <4>1, <4>3
    <3> QED
      BY <1>1, <2>2, <3>1, ConversionBecomes DEF Attached
  <2> QED
    BY <2>1, <2>2 DEF Attached
<1>6. ASSUME NEW w \in Attached(own)
      PROVE  \/ \E v \in Attached(M) : Becomes(v, w, c)
             \/ \E v \in M : v.kind = "noDevice" /\ v.device = w.device
  <2>1. CASE w \in own
    <3>1. PICK u \in M : u.kind # "noDevice" /\ w = Conversion(u, c)
      BY <1>2, <2>1
    <3>2. u \in Attached(M)
      BY <3>1 DEF Attached
    <3> QED
      BY <1>1, <3>1, <3>2, ConversionBecomes
  <2>2. CASE w \in ImageVolumes /\ \A u \in own : u.device # w.device
    <3>1. CASE \A u \in M : u.device # w.device
      <4>1. w \in Attached(M)
        BY <2>2, <3>1 DEF Attached
      <4> QED
        BY <1>1, <2>2, <4>1, ConversionBecomes
    <3>2. ASSUME NEW u \in M, u.device = w.device
          PROVE  \E v \in M : v.kind = "noDevice" /\ v.device = w.device
      <4>1. u.kind = "noDevice"
        BY <1>1, <1>2, <2>2, <3>2, ConversionBecomes
      <4> QED
        BY <3>2, <4>1
    <3> QED
      BY <3>1, <3>2
  <2> QED
    BY <2>1, <2>2 DEF Attached
<1> QED
  BY <1>5, <1>6 DEF Keeps, own

\* Without mappings of its own, the group's are those of the image.
LEMMA ImageMappingsKept ==
  ASSUME NEW c \in Configs, NEW M \in SUBSET (Volume \cup NoDevice),
         ConvertBlockDeviceMappings(M, c) = {}
  PROVE  Keeps(M, ConvertBlockDeviceMappings(ImageVolumes, c), c)
<1> DEFINE image == ConvertBlockDeviceMappings(ImageVolumes, c)
<1>1. \A v \in ImageVolumes : v \in Volume /\ v.kind # "noDevice"
  BY VolumeAssumption DEF Volume
<1>2. \A v \in M : v.kind = "noDevice"
  BY ConversionMember
<1>3. /\ \A v \in ImageVolumes : Conversion(v, c) \in image
      /\ \A w \in image : \E v \in ImageVolumes : w = Conversion(v, c)
  BY <1>1, ConversionMember
<1>4. \A w \in image : w.kind # "noDevice"
  <2>1. image \in SUBSET Volume
    BY <1>1, Converted
  <2> QED
    BY <2>1 DEF Volume
<1> HIDE DEF image
<1>5. Attached(M) = {v \in ImageVolumes : \A u \in M : u.device # v.device}
  BY <1>2 DEF Attached
<1>6. Attached(image) = image
  <2>1. SUFFICES ASSUME NEW v \in ImageVolumes PROVE \E w \in image : w.device = v.device
    BY <1>4 DEF Attached
  <2> QED
    BY <1>1, <1>3, ConversionBecomes
<1>7. ASSUME NEW v \in Attached(M)
      PROVE  \E w \in Attached(image) : Becomes(v, w, c)
  BY <1>1, <1>3, <1>5, <1>6, <1>7, ConversionBecomes
<1>8. ASSUME NEW w \in Attached(image)
      PROVE  \/ \E v \in Attached(M) : Becomes(v, w, c)
             \/ \E v \in M : v.kind = "noDevice" /\ v.device = w.device
  <2>1. PICK v \in ImageVolumes : w = Conversion(v, c)
    BY <1>3, <1>6, <1>8
  <2>2. w.device = v.device /\ Becomes(v, w, c)
    BY <1>1, <2>1, ConversionBecomes
  <2> QED
    BY <1>2, <1>5, <2>2
<1> QED
  BY <1>7, <1>8 DEF Keeps, image

\* The template's mappings are the group's, or the image's where there are none.
VolumesInv ==
  template # None /\ template.image =>
    LET own == ConvertBlockDeviceMappings(template.config.volumes, template.config)
    IN \/ template.volumes = own
       \/ own = {} /\ template.volumes = ConvertBlockDeviceMappings(ImageVolumes, template.config)

\* The steps keep the volumes of the group's configuration.
LEMMA VolumesStep ==
  ASSUME TypeOK, VolumesInv, [Next]_vars
  PROVE  VolumesInv'
<1>1. CASE CreateFleetLaunchTemplate
  <2>1. CASE template # None
    BY <1>1, <2>1, Created DEF VolumesInv, ConvertBlockDeviceMappings
  <2>2. CASE template = None
    <3>1. PICK d \in BOOLEAN : template' = LaunchTemplateData(d)
      BY <1>1, <2>2 DEF CreateFleetLaunchTemplate
    <3>2. /\ template'.config = seen /\ template'.volumes = BlockDeviceMappings(d)
          /\ template'.image => loaded \/ seen.launch = "template"
      BY <3>1 DEF LaunchTemplateData
    <3> DEFINE own == ConvertBlockDeviceMappings(seen.volumes, seen)
               image == ConvertBlockDeviceMappings(ImageVolumes, seen)
    <3>3. template'.image =>
            template'.volumes = own \/ (own = {} /\ template'.volumes \in {{}, image})
      BY <3>2 DEF BlockDeviceMappings
    <3> QED
      BY <3>2, <3>3 DEF VolumesInv
  <2> QED
    BY <2>1, <2>2
<1>2. CASE template' \in {template, None}
  BY <1>2 DEF VolumesInv
<1>3. template' \in {template, None} \/ CreateFleetLaunchTemplate
  BY DEF Next, Change, HandleMessage, CreateFails, CreatePanics, ListTypes, CreateFleet,
         CreateFleetFails, DeleteLaunchTemplate, Crash, vars
<1> QED
  BY <1>1, <1>2, <1>3

\* So the launched instance has its volumes.
LEMMA VolumesInvKept == TypeOK /\ VolumesInv => VolumesKept
<1> SUFFICES ASSUME TypeOK, VolumesInv, template # None, template.image
             PROVE  Keeps(template.config.volumes, template.volumes, template.config)
  BY DEF VolumesKept, Keeps
<1>1. template.config \in Configs
  BY DEF TypeOK, Template
<1>2. template.config.volumes \in SUBSET (Volume \cup NoDevice)
  BY <1>1, MarketAssumption DEF Config
<1> QED
  BY <1>1, <1>2, OwnMappingsKept, ImageMappingsKept DEF VolumesInv

\* The replacement has the volumes of the group's instances (the conversion of block
\* device mappings).
THEOREM VolumesAreKept == Spec => []VolumesKept
<1>1. Init => VolumesInv
  BY DEF Init, VolumesInv
<1> QED
  BY <1>1, VolumesStep, VolumesInvKept, SpotLaunchTypes, PTL DEF Spec
=============================================================================
