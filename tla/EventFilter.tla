----------------------------- MODULE EventFilter -----------------------------
(***************************************************************************)
(* internal/monitor/filter.go: the filter of events in memory.  A list of  *)
(* criteria that is empty excludes nothing.                                *)
(***************************************************************************)
EXTENDS EventTable

(* FilterCriteria; a signature is named like its event. *)
Criteria == [contracts : SUBSET Contracts, names : SUBSET [of : Names, lower : BOOLEAN],
             signatures : SUBSET Names, from : Nat \cup {Any}, to : Nat \cup {Any},
             fields : SUBSET UNION {log.fields : log \in Logs}]

OfContract(log, contracts) ==
  contracts = {} \/ \E c \in contracts : EqualFold(Hex(log.contract), Hex(c))

MatchesCriteria(log, criteria) ==
  /\ OfContract(log, criteria.contracts)
  /\ \/ criteria.names = {}
     \/ \E name \in criteria.names : EqualFold(Text(log.name, FALSE), name)
  /\ criteria.signatures = {} \/ log.name \in criteria.signatures
  /\ criteria.from = Any \/ log.block >= criteria.from
  /\ criteria.to = Any \/ log.block <= criteria.to
  /\ criteria.fields \subseteq log.fields

FilterEvents(events, criteria) ==
  {log \in events : MatchesCriteria(log, criteria)}

(* ValidateFilter; the zero address, which it refuses, is no contract here. *)
ValidFilter(criteria) ==
  criteria.from # Any /\ criteria.to # Any => criteria.from <= criteria.to
=============================================================================
