---------------------------- MODULE PackageRepo ----------------------------
(***************************************************************************)
(* PackageRepo of api/repositories: CFPackage objects in a namespaced      *)
(* store, read and written by concurrent requests.  Every repository       *)
(* operation is one store call (Create, List or Patch) followed by pure    *)
(* filtering, ordering and mapping to PackageRecords, so each is one step; *)
(* the concurrency is between the requests and the other writers of the    *)
(* store, which may also create CFPackages (with any name) in any space.   *)
(* The store stamps CreationTimestamp from a clock of whole seconds, so    *)
(* packages created within one second have equal timestamps.               *)
(***************************************************************************)
EXTENDS Naturals, Sequences, SequencesExt, FiniteSets

CONSTANTS
    Spaces,     \* namespaces (space GUIDs)
    Apps,       \* app GUIDs a package can reference
    Images,     \* non-empty image references an upload produces
    NoImage,    \* the empty image reference ""
    Users,      \* callers
    Roles,      \* <<user, space>> pairs the store's RBAC lets act in the space
    MaxGUID,    \* GUIDs are 1..MaxGUID (uuid strings compare as strings)
    MaxTime,    \* the clock counts whole seconds 0..MaxTime
    MaxObjects  \* bound on the number of CFPackages in the store

ASSUME PackageRepoAssumption ==
    /\ NoImage \notin Images
    /\ Roles \subseteq Users \X Spaces
    /\ MaxGUID \in Nat \ {0}
    /\ MaxTime \in Nat
    /\ MaxObjects \in Nat

VARIABLES
    pkgs,    \* the CFPackage objects in the store
    clock,   \* the store's clock (seconds)
    resp     \* what the last repository call returned to its caller

vars == <<pkgs, clock, resp>>

GUIDs == 1..MaxGUID
PackageStates == {"AWAITING_UPLOAD", "READY"}
CFPackages == [guid : GUIDs, space : Spaces, app : Apps,
               image : Images \cup {NoImage}, created : 0..MaxTime]
PackageRecords == [guid : GUIDs, space : Spaces, app : Apps,
                   state : PackageStates, created : 0..MaxTime]
ListMessages == [appGUIDs : SeqOf(Apps, 2), states : SeqOf(PackageStates, 1),
                 sortBy : {"", "created_at"}, descending : BOOLEAN]
Ops == {"none", "CreatePackage", "GetPackage", "ListPackages",
        "UpdatePackageSource"}
Errs == {"none", "NotFound", "Duplicate", "Unknown"}
Responses == [op : Ops, caller : Users, arg : GUIDs \cup {0}, err : Errs,
              records : Seq(PackageRecords), msg : ListMessages]

NoMessage == [appGUIDs |-> <<>>, states |-> <<>>, sortBy |-> "",
              descending |-> FALSE]

TypeOK ==
    /\ pkgs \subseteq CFPackages
    /\ clock \in 0..MaxTime
    /\ resp \in Responses

(***************************************************************************)
(* Mapping and helpers.                                                    *)
(***************************************************************************)

\* cfPackageToPackageRecord: the state is READY once an image is set
cfPackageToPackageRecord(o) ==
    [guid |-> o.guid, space |-> o.space, app |-> o.app,
     state |-> IF o.image # NoImage THEN "READY" ELSE "AWAITING_UPLOAD",
     created |-> o.created]

convertToPackageRecords(s) == [i \in 1..Len(s) |-> cfPackageToPackageRecord(s[i])]

\* filterPackagesByMetadataName
filterPackagesByMetadataName(S, name) == {o \in S : o.guid = name}

\* orderPackages: sort.Slice on the listed items by CreationTimestamp,
\* descending only for SortBy "created_at" with DescendingOrder.  sort.Slice
\* is not stable, so the order among equal timestamps is any order.
orderPackages(S, m) ==
    LET desc == m.sortBy = "created_at" /\ m.descending
    IN  {s \in SetToSeqs(S) :
           IsSorted(s, LAMBDA a, b : IF desc THEN a.created >= b.created
                                     ELSE a.created <= b.created)}

\* Faulty variant of the filter loops without the break: a package is
\* appended once per matching entry of the filter.
MatchAll(recs, field, vals) ==
    IF Len(vals) > 0
    THEN FlattenSeq([i \in 1..Len(recs) |->
           [k \in 1..Cardinality({j \in 1..Len(vals) : recs[i][field] = vals[j]})
              |-> recs[i]]])
    ELSE recs

\* one filter loop of applyPackageFilter: keep the records whose field
\* equals some entry of the filter (break after the first); an empty
\* filter keeps everything
MatchAny(recs, field, vals) ==
    IF Len(vals) > 0
    THEN SelectSeq(recs, LAMBDA r : \E j \in 1..Len(vals) : r[field] = vals[j])
    ELSE recs

\* applyPackageFilter: by AppGUIDs, then by States
applyPackageFilter(recs, m) ==
    MatchAny(MatchAny(recs, "app", m.appGUIDs), "state", m.states)

Respond(op, u, arg, err, recs, m) ==
    [op |-> op, caller |-> u, arg |-> arg, err |-> err, records |-> recs,
     msg |-> m]

Init ==
    /\ pkgs = {}
    /\ clock = 0
    /\ resp = Respond("none", CHOOSE u \in Users : TRUE, 0, "none", <<>>,
                      NoMessage)

(***************************************************************************)
(* Operations.  Each one may also fail at the store (an error passed up    *)
(* unchanged, here "Unknown") without changing it.                         *)
(***************************************************************************)

StoreFails(op, u) ==
    /\ resp' = Respond(op, u, 0, "Unknown", <<>>, NoMessage)
    /\ UNCHANGED <<pkgs, clock>>

\* CreatePackage: toCFPackage names the object with a fresh uuid
CreatePackage(u) ==
    \E space \in Spaces, app \in Apps :
        \/ /\ Cardinality(pkgs) < MaxObjects
           /\ \E g \in GUIDs \ {o.guid : o \in pkgs} :
             LET o == [guid |-> g, space |-> space, app |-> app,
                       image |-> NoImage, created |-> clock]
             IN  /\ pkgs' = pkgs \cup {o}
                 /\ resp' = Respond("CreatePackage", u, 0, "none",
                                    <<cfPackageToPackageRecord(o)>>, NoMessage)
                 /\ UNCHANGED clock
        \/ StoreFails("CreatePackage", u)

\* Faulty variant of returnPackage that takes the first match without
\* checking for more than one.
returnFirstPackage(S) ==
    IF S = {} THEN [err |-> "NotFound", records |-> <<>>]
    ELSE [err |-> "none",
          records |-> <<cfPackageToPackageRecord(CHOOSE o \in S : TRUE)>>]

\* returnPackage: none is not-found, more than one is "duplicate packages exist"
returnPackage(S) ==
    CASE S = {}              -> [err |-> "NotFound", records |-> <<>>]
      [] Cardinality(S) > 1  -> [err |-> "Duplicate", records |-> <<>>]
      [] OTHER -> [err |-> "none",
                   records |-> <<cfPackageToPackageRecord(CHOOSE o \in S : TRUE)>>]

\* GetPackage: list CFPackages in all namespaces, match on metadata.name
GetPackage(u) ==
    \E g \in GUIDs :
        \/ LET r == returnPackage(filterPackagesByMetadataName(pkgs, g))
           IN  /\ resp' = Respond("GetPackage", u, g, r.err, r.records,
                                  NoMessage)
               /\ UNCHANGED <<pkgs, clock>>
        \/ StoreFails("GetPackage", u)

\* ListPackages: list, order, convert, filter
ListPackages(u) ==
    \E m \in ListMessages :
        \/ \E ordered \in orderPackages(pkgs, m) :
             /\ resp' = Respond("ListPackages", u, 0, "none",
                          applyPackageFilter(convertToPackageRecords(ordered), m), m)
             /\ UNCHANGED <<pkgs, clock>>
        \/ StoreFails("ListPackages", u)

\* UpdatePackageSource: a merge patch of spec.source.registry (image and
\* imagePullSecrets) on metadata name/namespace; the patched object comes
\* back from the server and is mapped to the record
UpdatePackageSource(u) ==
    \E g \in GUIDs, space \in Spaces, img \in Images :
        LET old == {o \in pkgs : o.guid = g /\ o.space = space}
        IN  \/ /\ old # {}
               /\ LET o == CHOOSE x \in old : TRUE
                      new == [o EXCEPT !.image = img]
                  IN  /\ pkgs' = (pkgs \ {o}) \cup {new}
                      /\ resp' = Respond("UpdatePackageSource", u, g, "none",
                                         <<cfPackageToPackageRecord(new)>>, NoMessage)
               /\ UNCHANGED clock
            \/ /\ old = {}
               /\ resp' = Respond("UpdatePackageSource", u, g, "NotFound", <<>>,
                                  NoMessage)
               /\ UNCHANGED <<pkgs, clock>>
            \/ StoreFails("UpdatePackageSource", u)

(***************************************************************************)
(* Environment: another client of the store creates a CFPackage with a     *)
(* name of its choosing (names are unique per namespace only), and time    *)
(* passes.                                                                 *)
(***************************************************************************)
OtherWriterCreates ==
    \E g \in GUIDs, space \in Spaces, app \in Apps :
        /\ Cardinality(pkgs) < MaxObjects
        /\ ~\E o \in pkgs : o.guid = g /\ o.space = space
        /\ pkgs' = pkgs \cup {[guid |-> g, space |-> space, app |-> app,
                               image |-> NoImage, created |-> clock]}
        /\ UNCHANGED <<clock, resp>>

Tick ==
    /\ clock < MaxTime
    /\ clock' = clock + 1
    /\ UNCHANGED <<pkgs, resp>>

Next ==
    \/ \E u \in Users :
         \/ CreatePackage(u)
         \/ GetPackage(u)
         \/ ListPackages(u)
         \/ UpdatePackageSource(u)
    \/ OtherWriterCreates
    \/ Tick

Spec == Init /\ [][Next]_vars

-----------------------------------------------------------------------------
(***************************************************************************)
(* Properties.                                                             *)
(***************************************************************************)

\* a step of a read (or a stutter): the store is unchanged, so resp' was
\* computed from the packages of this very state
RepoRead == UNCHANGED <<pkgs, clock>>

\* the packages a ListPackagesMessage selects, as the spec states it
Selected(m) ==
    {o \in pkgs : /\ m.appGUIDs = <<>> \/ o.app \in ToSet(m.appGUIDs)
                  /\ m.states = <<>>
                     \/ cfPackageToPackageRecord(o).state \in ToSet(m.states)}

\* what GetPackage may answer for the GUID resp.arg against the store
GetPackageAnswer ==
    resp.op = "GetPackage" /\ resp.err # "Unknown" =>
        LET named == {o \in pkgs : o.guid = resp.arg}
        IN  CASE resp.err = "none" ->
                   /\ Cardinality(named) = 1
                   /\ resp.records = <<cfPackageToPackageRecord(CHOOSE o \in named : TRUE)>>
              [] resp.err = "NotFound"  -> named = {}
              [] resp.err = "Duplicate" -> Cardinality(named) > 1
              [] OTHER -> FALSE

\* what ListPackages may answer for the message resp.msg against the store
ListPackagesAnswer ==
    resp.op = "ListPackages" /\ resp.err = "none" =>
        LET m == resp.msg
            desc == m.sortBy = "created_at" /\ m.descending
        IN  /\ Len(resp.records) = Cardinality(Selected(m))
            /\ ToSet(resp.records) = {cfPackageToPackageRecord(o) : o \in Selected(m)}
            /\ \A i, j \in 1..Len(resp.records) :
                 i < j => IF desc THEN resp.records[i].created >= resp.records[j].created
                          ELSE resp.records[i].created <= resp.records[j].created

(* GetPackage searches all namespaces for the GUID: it returns a record    *)
(* only when exactly one CFPackage has that name, and that package's       *)
(* record, when it answers; when another writer has made a second package  *)
(* of the same name in another space it fails as a duplicate instead of   *)
(* picking one of them, and it is not-found only when none exists.         *)
GetPackageUnique == [][RepoRead => GetPackageAnswer']_vars

(* ListPackages returns every package the filters select exactly once and  *)
(* no other (an empty filter restricts nothing), ordered by creation time, *)
(* newest first only when descending created_at was asked for.            *)
ListPackagesMatchesQuery == [][RepoRead => ListPackagesAnswer']_vars

(* Section 1 of the spec: a repository call acts with the caller's own     *)
(* credentials, so the store's RBAC decides what the caller may see and    *)
(* create.  Every record a PackageRepo call hands to a caller lies in a    *)
(* space where that caller holds a role.                                   *)
CallerSeesOnlyPermittedSpaces ==
    [][resp' # resp =>
         \A i \in 1..Len(resp'.records) :
             <<resp'.caller, resp'.records[i].space>> \in Roles]_vars

(* Section 4.3 of the spec: the default (ascending) creation-time order    *)
(* breaks ties by the store-assigned identifier, so repeated ListPackages  *)
(* calls on an unchanged store iterate in one deterministic order.         *)
ListTiesOrderedByGUID ==
    [][resp' # resp /\ resp'.op = "ListPackages" /\ ~resp'.msg.descending =>
         \A i, j \in 1..Len(resp'.records) :
             i < j /\ resp'.records[i].created = resp'.records[j].created
                 => resp'.records[i].guid < resp'.records[j].guid]_vars

=============================================================================
