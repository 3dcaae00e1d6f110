SPECIFICATION Spec
CONSTANTS
  Type = {"current", "larger", "slower", "smaller", "arm"}
  Info <- MCInfo
  Current = "current"
  VirtualizationType = "hvm"
  EbsOptimized = TRUE
  Multiplier = 100
  Threshold = 170
  Io2Supported = TRUE
  Device = {"root", "data", "more"}
  ImageVolumes <- MCImageVolumes
  Configs <- MCConfigs
  Markets <- MCMarkets
  None = None
  MaxChanges = 2
  MaxFaults = 2
INVARIANTS TypeOK NeverDearer StaleOncePerLeak AsGood TemplateUsable VolumesKept
