---------------------------- MODULE MCController ----------------------------
(***************************************************************************)
(* Instances of Controller.  Shares s1 and s2 have the same unique name,   *)
(* s3 is an ephemeral private share; an environment e2 is the account's    *)
(* second.                                                                 *)
(***************************************************************************)
EXTENDS Controller

CONSTANTS a1, a2, e1, e2, e3, s1, s2, s3, f1, f2, f3, r1, r2, proxy, drive, name, ephemeral

CountsOf(environments, shares, reserved, unique, frontends) ==
  [n \in Counts |-> CASE n = "environments" -> environments
                      [] n = "shares" -> shares
                      [] n = "reservedShares" -> reserved
                      [] n = "uniqueNames" -> unique
                      [] n = "shareFrontends" -> frontends]

Class(id, mode, count, total, action) ==
  [id |-> id, mode |-> mode, count |-> count, period |-> 1, action |-> action,
   volume |-> [v \in Volumes |-> IF v = "total" THEN total ELSE Unlimited]]

NoCounts == CountsOf(-1, -1, -1, -1, -1)

ConfigWith(count) ==
  [k \in {"resource", "warning", "limit"} |->
     CASE k = "resource" -> Class(Global, AnyMode, count, -1, "limit")
       [] k = "warning" -> Class(Global, AnyMode, NoCounts, 1, "warning")
       [] k = "limit" -> Class(Global, AnyMode, NoCounts, 2, "limit")]

\* The limits of the configuration: room for one of everything, for two shares.
Tight == ConfigWith(CountsOf(1, 2, 1, 1, 1))
OneOfEach == ConfigWith(CountsOf(1, 1, 1, 1, 1))
Loose == ConfigWith(NoCounts)

NoneApplied == [a \in Accounts |-> <<>>]

EnvOwner == [e \in Envs |-> a1]
E2IsOther == [e \in Envs |-> IF e = e2 THEN a2 ELSE a1]
AllInE1 == [s \in Shares |-> e1]
S2InE2 == [s \in Shares |-> IF s = s2 THEN e2 ELSE e1]
Modes2 == [s \in Shares |-> IF s = s3 THEN drive ELSE proxy]
Named == [s \in Shares |-> IF s = s3 THEN ephemeral ELSE name]
FromE1 == [f \in Frontends |-> e1]
OneEach == [f \in Frontends |-> IF f = f1 THEN e1 ELSE e2]
ToS3 == [f \in Frontends |-> s3]
F1ToS1 == [f \in Frontends |-> IF f = f1 THEN s1 ELSE s3]
=============================================================================
