--------------------------- MODULE MCLimitsAgent ----------------------------
(***************************************************************************)
(* Instances of LimitsAgent: one account with a proxy share behind a       *)
(* public frontend and a drive share accessed by private frontends.        *)
(***************************************************************************)
EXTENDS LimitsAgent

CONSTANTS a1, e1, proxy, drive, s1, s2, f1, f2, h1, h2

NoCount == [n \in Counts |-> Unlimited]
Volume(rx, tx, total) ==
  [v \in Volumes |-> CASE v = "rx" -> rx [] v = "tx" -> tx [] v = "total" -> total]

Row(id, mode, volume, period, action) ==
  [id |-> id, mode |-> mode, count |-> NoCount, volume |-> volume,
   period |-> period, action |-> action]

GlobalClasses(warning, limit) ==
  [k \in {"resource", "warning", "limit"} |->
     IF k = "warning" THEN Row(Global, AnyMode, warning, 1, "warning")
     ELSE Row(Global, AnyMode, limit, 1, "limit")]

TotalConfig == GlobalClasses(Volume(-1, -1, 1), Volume(-1, -1, 2))
MixedConfig == GlobalClasses(Volume(-1, 1, -1), Volume(-1, -1, 2))

NoneApplied == [a \in Accounts |-> <<>>]
DriveApplied == [a \in Accounts |-> <<Row(7, drive, Volume(-1, -1, 2), 2, "limit")>>]

OneEnv == [e \in Envs |-> a1]
InOneEnv == [s \in Shares |-> e1]
Backends == [s \in Shares |-> IF s = s1 THEN proxy ELSE drive]
OfShare2 == [f \in Frontends |-> s2]

TotalLevels == {[rx |-> 0, tx |-> 0], [rx |-> 1, tx |-> 0], [rx |-> 1, tx |-> 1]}
MixedLevels == {[rx |-> 0, tx |-> 0], [rx |-> 0, tx |-> 1], [rx |-> 2, tx |-> 0]}
=============================================================================
