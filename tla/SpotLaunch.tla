----------------------------- MODULE SpotLaunch -----------------------------
(***************************************************************************)
(* The launch of a spot instance for one on-demand instance, over and over *)
(* as its message is handled again (launchSpotReplacement and what it      *)
(* calls): the temporary launch template, the list of compatible instance  *)
(* types, CreateFleet and the deletion of the template, while the market's *)
(* prices and the group's configuration change and calls fail.             *)
(*                                                                         *)
(* The template is named after the on-demand instance: one that an earlier *)
(* handler left behind is used instead of the new one.                     *)
(*                                                                         *)
(* The order of the list, which is only a preference, is left out.         *)
(***************************************************************************)
EXTENDS Integers, FiniteSets

CONSTANTS
  Type,            \* the instance types of the region
  Info,            \* what is known of each of them
  Current,         \* the type of the on-demand instance
  VirtualizationType, \* its virtualization type, "hvm" or "paravirtual"
  EbsOptimized,    \* whether it is optimized for EBS
  Multiplier,      \* on_demand_price_multiplier, in percent
  Threshold,       \* ebs_gp2_conversion_threshold
  Io2Supported,    \* whether the region has io2 volumes
  Device,          \* the names of devices
  ImageVolumes,    \* the volumes that the image of the instance maps
  Configs,         \* what the configuration of the group may be
  Markets,         \* what the spot prices may be, 0 for a type that is not offered
  None,            \* no template, no instance, or no tag that can be parsed
  MaxChanges,      \* bound on the changes of prices and of the configuration
  MaxFaults        \* bound on the faults

InstanceTypeInformation ==
  [vCPU : Nat, memory : Nat, GPU : Nat, PhysicalProcessor : {"Intel", "AMD", "AWS", "other"},
   EBSThroughput : Nat, stores : Nat, storeSize : Nat, storeIsSSD : BOOLEAN,
   virtualizationTypes : SUBSET {"PV", "HVM"}, onDemand : Nat, ebsSurcharge : Nat]

\* A mapping of a volume, whose type may be missing, and its size (0); or of no device.
Volume == [device : Device, kind : {"gp2", "gp3", "io1", "io2", "unset"}, size : Nat]
NoDevice == [device : Device, kind : {"noDevice"}, size : {0}]

\* launch: what the group launches from; interfaces: the launch template has network
\* interfaces, or the instance is in a VPC; groupNames: the launch template names
\* security groups; volumes, ephemeral: its mappings, and how many there are of instance
\* stores; threshold: the group's tag for it; allowed, disallowed: the lists of the tags
\* or else of the options, empty when there is none.
Config ==
  [launch : {"template", "configuration"}, interfaces : BOOLEAN, groupNames : BOOLEAN,
   ephemeral : Nat, volumes : SUBSET (Volume \cup NoDevice), threshold : Int \cup {None},
   allowed : SUBSET Type, disallowed : SUBSET Type]

ASSUME TypeAssumption ==
  /\ Info \in [Type -> InstanceTypeInformation]
  /\ Current \in Type /\ Info[Current].onDemand > 0
  /\ VirtualizationType \in {"hvm", "paravirtual"} /\ EbsOptimized \in BOOLEAN
ASSUME MarketAssumption ==
  /\ Multiplier \in Nat
  /\ Configs \subseteq Config
  /\ Markets \subseteq [Type -> Nat]
  /\ MaxChanges \in Nat /\ MaxFaults \in Nat
ASSUME VolumeAssumption ==
  /\ Threshold \in Int /\ None \notin Int /\ Io2Supported \in BOOLEAN
  /\ ImageVolumes \subseteq Volume
  /\ \A v \in ImageVolumes : v.kind # "unset" /\ v.size > 0

VARIABLES
  market,     \* the spot prices in the availability zone of the instance
  config,     \* the configuration of the group
  template,   \* the launch template named after the instance, in EC2
  pc,         \* the step of the handler
  seen,       \* the configuration as the handler read it
  known,      \* the spot prices as it read them
  loaded,     \* it could load the launch configuration, or the template and its image
  types,      \* the types it asks the fleet for
  launched,   \* the instance it launched last
  changes,    \* history: the number of changes
  faults,     \* history: the number of faults
  moved,      \* history: the prices have changed since the handler read them
  leaks,      \* history: how many times a template was left behind
  stale       \* history: how many instances have an outdated configuration

env  == <<market, config>>
job  == <<seen, known, loaded, types>>
hist == <<changes, faults, moved, leaks, stale>>
vars == <<env, template, pc, job, launched, hist>>

NoPrices == [t \in Type |-> 0]
Smaller(m, n) == IF m > n THEN n ELSE m

----------------------------------------------------------------------------
(* Compatible instance types.                                              *)

\* determineInstanceTypeInformation, for the price of the instance; the multiplier is
\* that of the options.
Price == (Info[Current].onDemand * Multiplier) \div 100

\* Mutant: the surcharge is left out.
SpotPriceOnly(t) == known[t]

\* calculatePrice
CalculatePrice(t) == known[t] + (IF EbsOptimized THEN Info[t].ebsSurcharge ELSE 0)

\* isPriceCompatible
IsPriceCompatible(price) == price # 0 /\ price <= Price

IsIntelCompatible(cpu) == cpu \in {"Intel", "AMD"}
IsSameArch(t) ==
  LET this == Info[Current].PhysicalProcessor
      other == Info[t].PhysicalProcessor
  IN \/ IsIntelCompatible(this) /\ IsIntelCompatible(other)
     \/ this = "AWS" /\ other = "AWS"

IsClassCompatible(t) ==
  /\ IsSameArch(t)
  /\ Info[t].vCPU >= Info[Current].vCPU
  /\ Info[t].memory >= Info[Current].memory
  /\ Info[t].GPU >= Info[Current].GPU

IsEBSCompatible(t) == Info[t].EBSThroughput >= Info[Current].EBSThroughput

\* The mappings of the launch configuration or of the template's image count, up to
\* the number of volumes the instance has; they count as none when not loaded.
AttachedVolumes ==
  IF loaded THEN Smaller(seen.ephemeral, Info[Current].stores) ELSE 0

\* Mutant: a spinning disk is accepted for an SSD, not the other way round.
SpinningDisksAccepted(t) ==
  \/ AttachedVolumes = 0
  \/ /\ Info[t].stores >= AttachedVolumes
     /\ Info[t].storeSize >= Info[Current].storeSize
     /\ ~Info[t].storeIsSSD \/ Info[Current].storeIsSSD

\* isStorageCompatible
IsStorageCompatible(t) ==
  \/ AttachedVolumes = 0
  \/ /\ Info[t].stores >= AttachedVolumes
     /\ Info[t].storeSize >= Info[Current].storeSize
     /\ Info[t].storeIsSSD \/ ~Info[Current].storeIsSSD

IsVirtualizationCompatible(t) ==
  (IF VirtualizationType = "hvm" THEN "HVM" ELSE "PV") \in
    (IF Info[t].virtualizationTypes = {} THEN {"HVM"} ELSE Info[t].virtualizationTypes)

\* isAllowed: the list of disallowed types counts only without one of allowed types.
IsAllowed(t) ==
  IF seen.allowed # {} THEN t \in seen.allowed ELSE t \notin seen.disallowed

IsCompatible(t) ==
  /\ IsPriceCompatible(CalculatePrice(t))
  /\ IsEBSCompatible(t) /\ IsClassCompatible(t)
  /\ IsStorageCompatible(t) /\ IsVirtualizationCompatible(t)

GetCompatibleSpotInstanceTypesList == {t \in Type : IsAllowed(t) /\ IsCompatible(t)}

----------------------------------------------------------------------------
(* The launch template.                                                    *)

\* The data gets network interfaces from the launch configuration, if it was loaded,
\* or from the launch template, which is read once more.
NetworkInterfaces(c, found) == c.interfaces /\ (found \/ c.launch = "template")

\* Mutant: the security groups are given next to the network interfaces.
GroupsAlwaysGiven(c, found) == TRUE

\* The ids of the instance's security groups, to which those of the launch template are
\* added, unless they go with the network interfaces.
SecurityGroupIds(c, found) == ~NetworkInterfaces(c, found)

\* The names of security groups in the launch template are added too.
SecurityGroupNames(c, found) ==
  c.launch = "template" /\ ~NetworkInterfaces(c, found) /\ c.groupNames

\* Mutant: the group's tag is not read.
OptionsThreshold(c) == Threshold

\* loadGP2ConversionThreshold
GP2ConversionThreshold(c) == IF c.threshold = None THEN Threshold ELSE c.threshold

\* convertLaunchTemplateEBSVolumeType, and the same for images and configurations
ConvertEBSVolumeType(v, c) ==
  IF v.kind = "io1" /\ Io2Supported THEN "io2"
  ELSE IF v.kind = "gp2" /\ v.size <= GP2ConversionThreshold(c) THEN "gp3" ELSE v.kind

\* convertLaunchTemplateBlockDeviceMappings and its copies: a mapping of no device is
\* skipped.
ConvertBlockDeviceMappings(volumes, c) ==
  {[v EXCEPT !.kind = ConvertEBSVolumeType(v, c)] : v \in {u \in volumes : u.kind # "noDevice"}}

\* The mappings of the launch template replace those of the image, if these could be
\* described; those of the launch configuration do if there are any.
BlockDeviceMappings(described) ==
  LET own   == ConvertBlockDeviceMappings(seen.volumes, seen)
      image == IF described THEN ConvertBlockDeviceMappings(ImageVolumes, seen) ELSE {}
  IN IF seen.launch = "template" \/ (loaded /\ own # {}) THEN own ELSE image

\* A size that is missing is read, and so is a type, unless from a launch configuration.
NilDereference ==
  \E v \in seen.volumes :
    \/ v.kind = "unset" /\ seen.launch = "template"
    \/ v.kind = "gp2" /\ v.size = 0 /\ (loaded \/ seen.launch = "template")

\* Mutant: the data is empty without its launch configuration or template.
EmptyUnlessLoaded(described) ==
  [config |-> IF loaded THEN seen ELSE None, image |-> loaded, networks |-> FALSE,
   ids |-> TRUE, names |-> FALSE, volumes |-> {}, MaxPrice |-> Price]

\* createLaunchTemplateData (processLaunchTemplate, processLaunchConfiguration):
\* without its launch configuration it has no image.
LaunchTemplateData(described) ==
  [config   |-> seen,
   volumes  |-> BlockDeviceMappings(described),
   image    |-> loaded \/ seen.launch = "template",
   networks |-> NetworkInterfaces(seen, loaded),
   ids      |-> SecurityGroupIds(seen, loaded),
   names    |-> SecurityGroupNames(seen, loaded),
   MaxPrice |-> Price]

----------------------------------------------------------------------------
Init ==
  /\ market \in Markets /\ config \in Configs
  /\ template = None
  /\ pc = "idle"
  /\ seen = config /\ known = NoPrices /\ loaded = FALSE /\ types = {}
  /\ launched = None
  /\ changes = 0 /\ faults = 0 /\ moved = FALSE /\ leaks = 0 /\ stale = 0

\* EC2 can launch from the template: it needs an image, and security groups in one way
\* only, with the network interfaces, by their ids or by their names.
Usable(lt) ==
  /\ lt.image
  /\ ~(lt.networks /\ lt.ids) /\ ~(lt.networks /\ lt.names) /\ ~(lt.ids /\ lt.names)

Step(from, to) == pc = from /\ pc' = to
Fault == faults < MaxFaults /\ faults' = faults + 1

\* The prices change, or the configuration of the group.
Change ==
  /\ changes < MaxChanges /\ changes' = changes + 1
  /\ \/ market' \in Markets \ {market} /\ moved' = TRUE /\ UNCHANGED config
     \/ config' \in Configs \ {config} /\ UNCHANGED <<market, moved>>
  /\ UNCHANGED <<template, pc, job, launched, faults, leaks, stale>>

\* A handler starts: it reads the group, then all spot prices, then loads the launch
\* configuration or template; that the last two fail is only logged.
HandleMessage ==
  /\ Step("idle", "create")
  /\ seen' = config
  /\ \/ known' = market /\ loaded' = TRUE /\ UNCHANGED faults
     \/ known' = NoPrices /\ loaded' = TRUE /\ Fault
     \/ known' = market /\ loaded' = FALSE /\ Fault
  /\ types' = {} /\ launched' = None /\ moved' = FALSE
  /\ UNCHANGED <<env, template, changes, leaks, stale>>

\* createFleetLaunchTemplate: a template of that name is used as it is.
CreateFleetLaunchTemplate ==
  /\ Step("create", "list")
  /\ ~NilDereference
  /\ \E described \in BOOLEAN :
       /\ template' = IF template = None THEN LaunchTemplateData(described) ELSE template
       /\ IF described THEN UNCHANGED faults ELSE Fault
  /\ UNCHANGED <<env, job, launched, changes, moved, leaks, stale>>

\* A launch template may leave out the type of a volume, or its size: the handler ends
\* with a panic each time.
CreatePanics ==
  /\ Step("create", "idle")
  /\ NilDereference
  /\ UNCHANGED <<env, template, job, launched, hist>>

\* processLaunchTemplate or CreateLaunchTemplate fails.
CreateFails ==
  /\ Step("create", "idle")
  /\ Fault
  /\ UNCHANGED <<env, template, job, launched, changes, moved, leaks, stale>>

ListTypes ==
  /\ pc = "list"
  /\ types' = GetCompatibleSpotInstanceTypesList
  /\ pc' = IF types' = {} THEN "delete" ELSE "fleet"
  /\ UNCHANGED <<env, template, seen, known, loaded, launched, hist>>

\* CreateFleet launches an instance of one of the types, at most at the MaxPrice.
CreateFleet ==
  /\ Step("fleet", "delete")
  /\ Usable(template)
  /\ \E t \in types :
       /\ market[t] \in 1 .. template.MaxPrice
       /\ launched' = [type |-> t, price |-> market[t], config |-> template.config]
  /\ stale' = IF template.config # seen THEN stale + 1 ELSE stale
  /\ UNCHANGED <<env, template, job, changes, faults, moved, leaks>>

CreateFleetFails ==
  /\ Step("fleet", "delete")
  /\ \/ /\ \/ ~Usable(template)
           \/ \A t \in types : market[t] \notin 1 .. template.MaxPrice
        /\ UNCHANGED faults
     \/ Fault
  /\ UNCHANGED <<env, template, job, launched, changes, moved, leaks, stale>>

\* Mutant: the template is deleted only when there is an instance.
DeleteAfterLaunch ==
  /\ Step("delete", "idle")
  /\ template' = IF launched = None THEN template ELSE None
  /\ UNCHANGED <<env, job, launched, hist>>

\* deleteLaunchTemplate, deferred; a failure is only logged.
DeleteLaunchTemplate ==
  /\ Step("delete", "idle")
  /\ \/ template' = None /\ UNCHANGED <<faults, leaks>>
     \/ Fault /\ leaks' = leaks + 1 /\ UNCHANGED template
  /\ UNCHANGED <<env, job, launched, changes, moved, stale>>

\* The invocation dies, and the message is handled again.
Crash ==
  /\ pc # "idle" /\ pc' = "idle"
  /\ Fault
  /\ leaks' = IF template = None THEN leaks ELSE leaks + 1
  /\ UNCHANGED <<env, template, job, launched, changes, moved, stale>>

Next ==
  \/ Change \/ HandleMessage
  \/ CreateFleetLaunchTemplate \/ CreatePanics \/ CreateFails \/ ListTypes
  \/ CreateFleet \/ CreateFleetFails \/ DeleteLaunchTemplate \/ Crash

Spec == Init /\ [][Next]_vars

----------------------------------------------------------------------------
(* Properties.                                                             *)

Template ==
  [config : Configs, volumes : SUBSET Volume, image : BOOLEAN, networks : BOOLEAN,
   ids : BOOLEAN, names : BOOLEAN, MaxPrice : Nat]
Launched == [type : Type, price : Nat, config : Configs]

TypeOK ==
  /\ market \in Markets /\ config \in Configs /\ seen \in Configs
  /\ template \in Template \cup {None}
  /\ pc \in {"idle", "create", "list", "fleet", "delete"}
  /\ known \in Markets \cup {NoPrices} /\ loaded \in BOOLEAN
  /\ types \subseteq Type
  /\ launched \in Launched \cup {None}
  /\ changes \in Nat /\ faults \in Nat /\ moved \in BOOLEAN
  /\ leaks \in Nat /\ stale \in Nat

\* What the instance costs by the hour, with the surcharge for EBS.
Cost == launched.price + (IF EbsOptimized THEN Info[launched.type].ebsSurcharge ELSE 0)

\* A spot instance is never dearer than the on-demand instance, whatever prices the
\* handler read or failed to read and however old the template is; and with the
\* surcharge it is not, if its price was known and has not changed since.
NeverDearer ==
  launched # None =>
    /\ launched.price <= Price
    /\ ~moved /\ known[launched.type] # 0 => Cost <= Price

\* A template that a crash or a failed deletion left behind is used for one instance at
\* most: each such accident makes the configuration of at most one instance outdated.
StaleOncePerLeak == stale <= leaks

\* The instance is as good as the one it replaces, and can attach as many volumes of
\* its instance store, each as large and as fast, as far as they could be counted.
AsGood ==
  launched # None =>
    LET new == Info[launched.type]
        old == Info[Current]
        used == {k \in 1 .. old.stores : k <= seen.ephemeral}
    IN /\ new.vCPU >= old.vCPU /\ new.memory >= old.memory /\ new.GPU >= old.GPU
       /\ new.EBSThroughput >= old.EBSThroughput
       /\ (new.PhysicalProcessor = "AWS") <=> (old.PhysicalProcessor = "AWS")
       /\ loaded /\ used # {} =>
            /\ used \subseteq 1 .. new.stores /\ new.storeSize >= old.storeSize
            /\ old.storeIsSSD => new.storeIsSSD

\* EC2 can launch from every template, old or new, whatever the group launches from and
\* whatever could not be loaded, except for one made without the launch configuration,
\* and for one of a group whose launch template names its security groups: the names are
\* added to the instance's ids, and every launch for that group fails.
TemplateUsable ==
  template # None /\ ~Usable(template) =>
    LET c == template.config
    IN \/ faults > 0 /\ c.launch = "configuration"
       \/ c.launch = "template" /\ ~c.interfaces /\ c.groupNames

\* What EC2 attaches for the mappings: those of the image too, unless it has to map the
\* device otherwise.
Attached(mappings) ==
  {v \in mappings : v.kind # "noDevice"} \cup
  {v \in ImageVolumes : \A w \in mappings : w.device # v.device}

\* The volume v of an instance of the group is w in its replacement.
Becomes(v, w, c) ==
  /\ w.device = v.device /\ w.size = v.size
  /\ \/ w.kind = v.kind
     \/ v.kind = "io1" /\ w.kind = "io2" /\ Io2Supported
     \/ /\ v.kind = "gp2" /\ w.kind = "gp3"
        /\ v.size <= (IF c.threshold \in Int THEN c.threshold ELSE Threshold)

\* The replacement has the volumes of the group's instances, wherever their mappings
\* come from and whatever could not be described, converted as the group or else the
\* options ask for; and none besides, but those of the image that the group maps to no
\* device: skipping such a mapping lets them come back.
VolumesKept ==
  template # None /\ template.image =>
    LET c   == template.config
        old == Attached(c.volumes)
        new == Attached(template.volumes)
    IN /\ \A v \in old : \E w \in new : Becomes(v, w, c)
       /\ \A w \in new : \/ \E v \in old : Becomes(v, w, c)
                        \/ \E v \in c.volumes : v.kind = "noDevice" /\ v.device = w.device
=============================================================================
