------------------------------ MODULE ScopeRules ------------------------------
(***************************************************************************)
(* Which target a hostname belongs to and whether it is in scope: the      *)
(* scope index of utils/domains.ts, built from the rows of targets and     *)
(* targets_subdomains, with the operations that change those rows.         *)
(*                                                                         *)
(* A hostname is the sequence of its labels, the top-level domain first;   *)
(* all labels have the same length of at least two characters, so that     *)
(* the longer name is the one with more labels, and "*.x" is longer than   *)
(* "x" and shorter than "a.x".  A hostname is looked up as a caller spells *)
(* it, and domains and patterns are stored as they were typed: with        *)
(* capitals, a hostname also with a scheme before it or a port behind.     *)
(***************************************************************************)
EXTENDS Naturals, Sequences, SequencesExt, FiniteSets

CONSTANTS
  Ids,      \* ids of targets, in the order of the table
  Domains,  \* main domains targets may have
  Patterns, \* patterns that may be listed: [name, wild]
  Hosts,    \* hostnames that are looked up
  Normal    \* the normal form of each of them

ASSUME ScopeAssumption ==
  /\ Ids \subseteq Nat \ {0} /\ IsFiniteSet(Ids)
  /\ \A d \in Domains : d \in Seq(Range(d))
  /\ \A host \in Hosts : Normal[host] \in Seq(Range(Normal[host]))
  /\ IsFiniteSet(Patterns)
  /\ \A p \in Patterns : p \in [name : Seq(Range(p.name)), wild : BOOLEAN]

VARIABLE scTargets  \* the target of each id: there, domain, active, subs

scopeVars == <<scTargets>>

NoSubs == [p \in Patterns |-> "none"]

ScopeInit ==
  scTargets = [i \in Ids |-> [there |-> FALSE, domain |-> CHOOSE d \in Domains : TRUE,
                              active |-> FALSE, subs |-> NoSubs]]

AddTarget(i, d, active) ==
  /\ ~scTargets[i].there
  /\ scTargets' = [scTargets EXCEPT ![i] = [there |-> TRUE, domain |-> d, active |-> active, subs |-> NoSubs]]

EditTarget(i, d, active) ==
  /\ scTargets[i].there
  /\ scTargets' = [scTargets EXCEPT ![i].domain = d, ![i].active = active]

DeleteTarget(i) ==
  /\ scTargets[i].there
  /\ scTargets' = [scTargets EXCEPT ![i].there = FALSE, ![i].subs = NoSubs, ![i].active = FALSE]

(* The whole list is replaced; one that names a pattern twice is left out. *)
SetTargetSubdomains(i, subs) ==
  /\ scTargets[i].there
  /\ scTargets' = [scTargets EXCEPT ![i].subs = subs]

ScopeNext ==
  \E i \in Ids :
    \/ \E d \in Domains, active \in BOOLEAN : AddTarget(i, d, active) \/ EditTarget(i, d, active)
    \/ DeleteTarget(i)
    \/ \E subs \in [Patterns -> {"none", "in", "out"}] : SetTargetSubdomains(i, subs)

ScopeSpec == ScopeInit /\ [][ScopeNext]_scopeVars
-----------------------------------------------------------------------------
(* buildScopeIndex.                                                        *)

There == {i \in Ids : scTargets[i].there}
First(is) == CHOOSE i \in is : \A j \in is : i <= j
Listing(p) == {i \in There : scTargets[i].subs[p] # "none"}

ActiveListing(p) == {i \in Listing(p) : scTargets[i].active}

(* Mutant: on a conflict the last target wins.                             *)
OutOfScopeByLast(p) ==
  scTargets[CHOOSE i \in ActiveListing(p) : \A j \in ActiveListing(p) : j <= i].subs[p] = "out"

(* activeSubScope: "On conflict prefer in-scope".                          *)
OutOfScope(p) == \A i \in ActiveListing(p) : scTargets[i].subs[p] = "out"

Under(host, d) == IsPrefix(d, host)

(* The lower-case hostname of the URL that a caller may have handed over.  *)
NormalizeDomain(host) == Normal[host]

Exact(name) == [name |-> name, wild |-> FALSE]
Wild(name) == [name |-> name, wild |-> TRUE]

-----------------------------------------------------------------------------
(* detectTargetIdFromIndex: 0 stands for null.  It compares the hostname   *)
(* as it is spelled.                                                       *)

DomainOwners(host) == {i \in There : scTargets[i].domain = host}

SubOwners(host) == {i \in There : Exact(host) \in Patterns /\ scTargets[i].subs[Exact(host)] # "none"}

(* Targets with a wildcard, other than one over their own domain, that the *)
(* hostname is the base of or lies under.                                  *)
WildcardOwners(host) ==
  {i \in There : \E p \in Patterns :
     p.wild /\ scTargets[i].subs[p] # "none" /\ p.name # scTargets[i].domain /\ Under(host, p.name)}

ParentOwners(host) == {i \in There : Under(host, scTargets[i].domain)}

(* Of several targets the one with the longest domain, then the first.     *)
MostSpecific(is) ==
  First({i \in is : \A j \in is : Len(scTargets[j].domain) <= Len(scTargets[i].domain)})

DetectTargetId(host) ==
  IF DomainOwners(host) # {} THEN First(DomainOwners(host))
  ELSE IF SubOwners(host) # {} THEN First(SubOwners(host))
  ELSE IF WildcardOwners(host) # {} THEN MostSpecific(WildcardOwners(host))
  ELSE IF ParentOwners(host) # {} THEN MostSpecific(ParentOwners(host))
  ELSE 0

-----------------------------------------------------------------------------
(* isHostnameInScopeFromIndex: it compares the normal form.                *)

(* Names with fewer than two labels are no domains and no rule.            *)
Parents(name) == {SubSeq(name, 1, n) : n \in 2..Len(name)}

(* The rules of active targets that match.                                 *)
Matches(name) ==
  {p \in Patterns : ActiveListing(p) # {} /\ (p = Exact(name) \/ (p.wild /\ p.name \in Parents(name)))}

Length(p) == 2 * Len(p.name) + (IF p.wild THEN 1 ELSE 0)

Decisive(ps) == CHOOSE p \in ps : \A q \in ps : Length(q) <= Length(p)

NameInScope(name) ==
  /\ Len(name) >= 2
  /\ \/ \E i \in There : scTargets[i].active /\ scTargets[i].domain = name
     \/ Matches(name) # {} /\ ~OutOfScope(Decisive(Matches(name)))

IsHostnameInScope(host) == NameInScope(NormalizeDomain(host))

-----------------------------------------------------------------------------
(* Properties.                                                             *)

(* A hostname that is in scope belongs to some target, so that a finding   *)
(* on it is kept with one; only a hostname that is not spelled in its      *)
(* normal form may have none, and its normal form has one then.            *)
InScopeHasTarget ==
  \A host \in Hosts : IsHostnameInScope(host) =>
    \/ DetectTargetId(host) # 0
    \/ host # NormalizeDomain(host) /\ DetectTargetId(NormalizeDomain(host)) # 0

(* A hostname that a target being scanned lists, by itself or by a         *)
(* wildcard, is in scope however it is spelled, unless a longer rule       *)
(* excludes it: other targets cannot overrule it with the same rule or a   *)
(* shorter one.                                                            *)
OnlyLongerExcludes ==
  \A host \in Hosts, i \in There, p \in Patterns :
    LET name == NormalizeDomain(host) IN
    (/\ Len(name) >= 2 /\ scTargets[i].active /\ scTargets[i].subs[p] = "in"
     /\ p = Exact(name) \/ (p.wild /\ p.name \in Parents(name))) =>
      \/ IsHostnameInScope(host)
      \/ \E q \in Patterns : /\ Length(q) > Length(p) /\ Under(name, q.name)
                             /\ ActiveListing(q) # {} /\ OutOfScope(q)

(* The two readers of the rules agree with them and, for hostnames in      *)
(* normal form, with each other, however the domains, lists and wildcards  *)
(* of several targets overlap.                                             *)
ScopeSound == InScopeHasTarget /\ OnlyLongerExcludes
=============================================================================
