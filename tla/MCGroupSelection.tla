--------------------------- MODULE MCGroupSelection ---------------------------
EXTENDS GroupSelection

Pattern(k, v) == [key |-> k, value |-> v]
Blank == [blank |-> TRUE, tags |-> {}]
Given(tags) == [blank |-> FALSE, tags |-> tags]

MCKeys   == {"spot-enabled", "Environment"}
MCValues == {"true", "false", "dev"}
\* No filters, one or two, a glob and a malformed glob.
MCFilters ==
  {Blank,
   Given({Pattern("spot-enabled", "true")}),
   Given({Pattern("spot-enabled", "true"), Pattern("Environment", "dev")}),
   Given({Pattern("Environment", "*")}),
   Given({Pattern("Environment", "[")})}
MCBlank == {Blank}
=============================================================================
