---------------------------- MODULE LimitClasses ----------------------------
(***************************************************************************)
(* The limit classes of a zrok service instance and the arithmetic that    *)
(* decides whether one of them is exceeded (controller/limits/userLimits,  *)
(* bandwidthClass, agent and controller/store/limitClass).                 *)
(*                                                                         *)
(* Three kinds of class can govern an account: one resource count class,   *)
(* two unscoped bandwidth classes (a warning and a limit), and at most one *)
(* scoped class per backend mode.  The first three start out as the        *)
(* classes of the configuration file and are replaced by the rows of       *)
(* limit_classes applied to the account.  The module has no state.         *)
(***************************************************************************)
EXTENDS Integers, Sequences

CONSTANTS
  Accounts,     \* accounts of the instance
  Modes,        \* backend modes of shares (proxy, web, drive, ...)
  Global,       \* the limit_class_id of a configuration class (NULL in SQL)
  AnyMode,      \* the backend_mode of an unscoped class (NULL in SQL)
  Limitless,    \* the accounts whose limitless column is set
  Config,       \* the limits stanza: [resource, warning, limit]
  Applied       \* Applied[a]: the rows applied to account a, in the order read

Unlimited == -1

\* The columns that count resources.
Counts == {"environments", "shares", "reservedShares", "uniqueNames", "shareFrontends"}

\* The columns that bound a transfer.
Volumes == {"rx", "tx", "total"}

\* A row of limit_classes, or a class built from the configuration file.
LimitClass ==
  [id : Int \cup {Global}, mode : Modes \cup {AnyMode},
   count : [Counts -> {Unlimited} \cup Nat],
   volume : [Volumes -> {Unlimited} \cup Nat],
   period : Nat, action : {"warning", "limit"}]

ASSUME LimitClassesAssumption ==
  /\ AnyMode \notin Modes
  /\ Limitless \subseteq Accounts
  /\ Config \in [{"resource", "warning", "limit"} -> LimitClass]
  /\ \A k \in {"resource", "warning", "limit"} : Config[k].mode = AnyMode
  /\ Config["warning"].action = "warning"
  /\ Config["limit"].action = "limit"
  /\ Applied \in [Accounts -> Seq(LimitClass)]
-----------------------------------------------------------------------------
IsGlobal(c) == c.id = Global
IsScoped(c) == c.mode # AnyMode

LimitsVolume(c) == \E v \in Volumes : c.volume[v] # Unlimited

\* The three kinds of row; a row of none of them is logged and ignored.
IsResourceCountClass(c) ==
  /\ ~IsScoped(c)
  /\ \E n \in Counts : c.count[n] # Unlimited

IsUnscopedBandwidthClass(c) ==
  /\ ~IsScoped(c)
  /\ \A n \in Counts : c.count[n] = Unlimited
  /\ c.period >= 1
  /\ LimitsVolume(c)

IsScopedLimitClass(c) ==
  /\ IsScoped(c)
  /\ c.count["environments"] = Unlimited
  /\ c.period >= 1
  /\ LimitsVolume(c)

\* The rows applied to account a that are of some kind.
RowsOf(a, Kind(_)) == {i \in DOMAIN Applied[a] : Kind(Applied[a][i])}

\* Each applied row replaces what was selected before it: of several rows of
\* a kind the last one read counts, and without one the default does.
LastApplied(a, rows, default) ==
  IF \E i \in rows : \A j \in rows : j <= i
  THEN Applied[a][CHOOSE i \in rows : \A j \in rows : j <= i]
  ELSE default

ResourceClass(a) ==
  LastApplied(a, RowsOf(a, IsResourceCountClass), Config["resource"])

BandwidthClass(a, action) ==
  LET Selects(c) == /\ IsUnscopedBandwidthClass(c)
                    /\ (c.action = "warning") = (action = "warning")
  IN  LastApplied(a, RowsOf(a, Selects), Config[action])

\* The rows applied to account a that scope backend mode m.
ScopedRows(a, m) ==
  LET Selects(c) == IsScopedLimitClass(c) /\ c.mode = m IN RowsOf(a, Selects)

Scopes(a) == {m \in Modes : ScopedRows(a, m) # {}}

ScopedClass(a, m) == LastApplied(a, ScopedRows(a, m), Config["limit"])

\* The class whose counts bound the shares of mode m: the scoped one first.
CountClass(a, m) ==
  IF m \in Scopes(a) THEN ScopedClass(a, m) ELSE ResourceClass(a)

\* The bandwidth classes the limits of a share of mode m are decided by when
\* it is created or accessed: the scoped one alone, or the two unscoped ones.
DecidingClasses(a, m) ==
  IF m \in Scopes(a) THEN {ScopedClass(a, m)}
  ELSE {BandwidthClass(a, "warning"), BandwidthClass(a, "limit")}

\* The classes an observed transfer of a share of mode m is compared with.
BandwidthArray(a, m) ==
  <<BandwidthClass(a, "warning"), BandwidthClass(a, "limit")>>
    \o (IF m \in Scopes(a) THEN <<ScopedClass(a, m)>> ELSE <<>>)

\* The backend modes whose shares keep their dial policies when class c of
\* account a is exceeded.
IgnoredBackends(a, c) == IF IsScoped(c) THEN Scopes(a) \ {c.mode} ELSE Scopes(a)
-----------------------------------------------------------------------------
\* used = [rx, tx], the bytes an account moved in the period of class c.
TransferExceeded(used, c) ==
  \/ c.volume["tx"] # Unlimited /\ used.tx >= c.volume["tx"]
  \/ c.volume["rx"] # Unlimited /\ used.rx >= c.volume["rx"]
  \/ c.volume["total"] # Unlimited /\ used.tx + used.rx >= c.volume["total"]

\* The positions of the exceeded classes in the array; the last one is acted
\* upon, so that a scoped class hides an unscoped one and a limit a warning.
ExceededPositions(used, bwcs) ==
  {i \in DOMAIN bwcs : TransferExceeded(used[bwcs[i].period], bwcs[i])}

AnyExceeded(used, bwcs) == ExceededPositions(used, bwcs) # {}

SelectedClass(used, bwcs) ==
  bwcs[CHOOSE i \in ExceededPositions(used, bwcs) :
         \A j \in ExceededPositions(used, bwcs) : j <= i]
=============================================================================
