----------------------------- MODULE DomainRepo -----------------------------
(***************************************************************************)
(* DomainRepo of api/repositories: cluster-scoped CFDomain objects, read   *)
(* through the privileged client.  CFDomains are written by other clients  *)
(* of the store (operators create and delete them); the repository only    *)
(* reads, one store call (Get or List) per operation followed by pure      *)
(* filtering and ordering, so each operation is one step.                  *)
(***************************************************************************)
EXTENDS Naturals, Sequences, SequencesExt, FiniteSets

CONSTANTS
    DomainGUIDs,  \* metadata.name of CFDomains
    DomainNames,  \* spec.name of CFDomains (not unique)
    MaxTime,      \* the clock counts whole seconds 0..MaxTime
    MaxDomains    \* bound on the number of CFDomains in the store

ASSUME DomainRepoAssumption ==
    /\ MaxTime \in Nat
    /\ MaxDomains \in Nat

VARIABLES
    domains,  \* the CFDomain objects in the store
    clock,    \* the store's clock (seconds)
    resp      \* what the last repository call returned

vars == <<domains, clock, resp>>

CFDomains == [guid : DomainGUIDs, name : DomainNames, created : 0..MaxTime]
DomainRecords == CFDomains
\* the StatusError reasons a Get can come back with, besides success
GetReasons == {"NotFound", "Unauthorized", "Forbidden", "Timeout"}
Ops == {"none", "GetDomain", "ListDomains", "GetDomainByName",
        "GetDefaultDomain"}
Errs == {"none", "PermissionDeniedOrNotFound", "Raw"}
Responses == [op : Ops, err : Errs, records : Seq(DomainRecords),
              names : SeqOf(DomainNames, 2)]

TypeOK ==
    /\ domains \subseteq CFDomains
    /\ clock \in 0..MaxTime
    /\ resp \in Responses

\* cfDomainToDomainRecord
cfDomainToDomainRecord(d) == d

\* returnDomainList
returnDomainList(s) == [i \in 1..Len(s) |-> cfDomainToDomainRecord(s[i])]

\* Faulty variant of the ordering: the listed items are left unsorted.
unsortedDomains(S) == SetToSeqs(S)


\* sort.Slice by CreationTimestamp ascending; not stable, so domains created
\* within the same second come out in any order
sortDomains(S) ==
    {s \in SetToSeqs(S) : IsSorted(s, LAMBDA a, b : a.created <= b.created)}

\* applyDomainListFilterAndOrder: for each domain, for each name in the
\* message, append the domain when its spec.name equals the name (there is
\* no break, so a domain is appended once per matching name); then sort.
\* Filtering before sorting equals sorting before filtering, so the model
\* filters the sorted list.
applyDomainListFilterAndOrder(sorted, names) ==
    IF Len(names) > 0
    THEN FlattenSeq([i \in 1..Len(sorted) |->
           [k \in 1..Cardinality({j \in 1..Len(names) : sorted[i].name = names[j]})
              |-> sorted[i]]])
    ELSE sorted

Respond(op, err, recs, names) ==
    [op |-> op, err |-> err, records |-> recs, names |-> names]

Init ==
    /\ domains = {}
    /\ clock = 0
    /\ resp = Respond("none", "none", <<>>, <<>>)

\* ListDomains: List every CFDomain; a failed List is passed up unchanged,
\* otherwise the filtered and ordered records
ListDomainsResults(names) ==
    {[err |-> "none",
      records |-> returnDomainList(applyDomainListFilterAndOrder(sorted, names))] :
        sorted \in sortDomains(domains)}
    \cup {[err |-> "Raw", records |-> <<>>]}

\* GetDomain: Get by name; NotFound and Unauthorized become
\* PermissionDeniedOrNotFoundError, every other error is returned as is
GetDomain ==
    \E g \in DomainGUIDs :
        LET present == {d \in domains : d.guid = g}
        IN  \/ /\ present # {}
               /\ resp' = Respond("GetDomain", "none",
                                  <<cfDomainToDomainRecord(CHOOSE d \in present : TRUE)>>,
                                  <<>>)
            \/ \E reason \in GetReasons :
                 /\ reason = "NotFound" <=> present = {}
                 /\ resp' = Respond("GetDomain",
                                    IF reason \in {"NotFound", "Unauthorized"}
                                    THEN "PermissionDeniedOrNotFound" ELSE "Raw",
                                    <<>>, <<>>)
    /\ UNCHANGED <<domains, clock>>

ListDomains ==
    \E names \in SeqOf(DomainNames, 2) : \E r \in ListDomainsResults(names) :
        /\ resp' = Respond("ListDomains", r.err, r.records, names)
        /\ UNCHANGED <<domains, clock>>

\* GetDomainByName: ListDomains with one name, the first record or
\* PermissionDeniedOrNotFound when there is none
GetDomainByName ==
    \E n \in DomainNames : \E r \in ListDomainsResults(<<n>>) :
        /\ resp' = CASE r.err # "none"    -> Respond("GetDomainByName", r.err, <<>>, <<n>>)
                     [] r.records = <<>>  -> Respond("GetDomainByName",
                                               "PermissionDeniedOrNotFound", <<>>, <<n>>)
                     [] OTHER             -> Respond("GetDomainByName", "none",
                                               <<r.records[1]>>, <<n>>)
        /\ UNCHANGED <<domains, clock>>

\* Faulty variant: the last record of the ascending list is taken.
GetDefaultDomainLast ==
    \E r \in ListDomainsResults(<<>>) :
        /\ resp' = CASE r.err # "none"    -> Respond("GetDefaultDomain", r.err, <<>>, <<>>)
                     [] r.records = <<>>  -> Respond("GetDefaultDomain",
                                               "PermissionDeniedOrNotFound", <<>>, <<>>)
                     [] OTHER             -> Respond("GetDefaultDomain", "none",
                                               <<r.records[Len(r.records)]>>, <<>>)
        /\ UNCHANGED <<domains, clock>>

\* GetDefaultDomain: the first of ListDomains with no filter
GetDefaultDomain ==
    \E r \in ListDomainsResults(<<>>) :
        /\ resp' = CASE r.err # "none"    -> Respond("GetDefaultDomain", r.err, <<>>, <<>>)
                     [] r.records = <<>>  -> Respond("GetDefaultDomain",
                                               "PermissionDeniedOrNotFound", <<>>, <<>>)
                     [] OTHER             -> Respond("GetDefaultDomain", "none",
                                               <<r.records[1]>>, <<>>)
        /\ UNCHANGED <<domains, clock>>

(***************************************************************************)
(* Environment: operators create and delete CFDomains; time passes.        *)
(***************************************************************************)
OperatorCreatesDomain ==
    \E g \in DomainGUIDs, n \in DomainNames :
        /\ Cardinality(domains) < MaxDomains
        /\ ~\E d \in domains : d.guid = g
        /\ domains' = domains \cup {[guid |-> g, name |-> n, created |-> clock]}
        /\ UNCHANGED <<clock, resp>>

OperatorDeletesDomain ==
    \E d \in domains :
        /\ domains' = domains \ {d}
        /\ UNCHANGED <<clock, resp>>

Tick ==
    /\ clock < MaxTime
    /\ clock' = clock + 1
    /\ UNCHANGED <<domains, resp>>

Next ==
    \/ GetDomain
    \/ ListDomains
    \/ GetDomainByName
    \/ GetDefaultDomain
    \/ OperatorCreatesDomain
    \/ OperatorDeletesDomain
    \/ Tick

Spec == Init /\ [][Next]_vars

-----------------------------------------------------------------------------
(***************************************************************************)
(* Properties.                                                             *)
(***************************************************************************)

\* a step of a repository operation (or a stutter): the store is unchanged,
\* so resp' was computed from the domains of this very state
RepoCall == UNCHANGED <<domains, clock>>

\* the domains a ListDomains message selects: all when Names is empty
Selected(names) ==
    {d \in domains : Len(names) = 0 \/ \E j \in 1..Len(names) : d.name = names[j]}

IsListAnswer(r, names) ==
    /\ Range(r) = Selected(names)
    /\ \A i, j \in 1..Len(r) : i < j => r[i].created <= r[j].created

(* A successful ListDomains returns exactly the domains whose spec.name is  *)
(* among the requested Names (every domain when Names is empty), ordered   *)
(* by creation time ascending, as read from the store at the time of the   *)
(* call (the filter loop and the sort.Slice comparator together).          *)
ListDomainsMatchesQuery ==
    [][ RepoCall /\ resp'.op = "ListDomains" /\ resp'.err = "none"
        => IsListAnswer(resp'.records, resp'.names) ]_vars

(* GetDefaultDomain returns the oldest CFDomain (one created no later than *)
(* any other), and reports PermissionDeniedOrNotFound only when there is    *)
(* no CFDomain at all.                                                     *)
DefaultDomainIsOldest ==
    [][ RepoCall /\ resp'.op = "GetDefaultDomain"
        => /\ resp'.err = "none" =>
                 /\ resp'.records[1] \in domains
                 /\ \A d \in domains : resp'.records[1].created <= d.created
           /\ resp'.err = "PermissionDeniedOrNotFound" => domains = {} ]_vars

(* ListDomains treats Names as a set of allowed names: a successful answer *)
(* lists every CFDomain at most once, whatever the Names in the message.   *)
ListDomainsNoDuplicates ==
    [][ RepoCall /\ resp'.op = "ListDomains" /\ resp'.err = "none"
        => \A i, j \in 1..Len(resp'.records) :
              i # j => resp'.records[i] # resp'.records[j] ]_vars

=============================================================================
