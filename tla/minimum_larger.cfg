SPECIFICATION FairSpec
CONSTANTS
  Unset = Unset
  TagNumbers <- SomeTagNumbers
  TagPercentages <- SomeTagPercentages
  CliNumbers <- SomeCliNumbers
  CliPercentages <- SomeCliPercentages
  MaxSize = 4
  MaxChanges = 3
PROPERTY PercentageIgnored
