---------------------------- MODULE DuneQueries ----------------------------
(***************************************************************************)
(* The published Dune queries (analytics/dune/sql).  Dune's decoded tables *)
(* are external and may hold an event twice: a row is an event of a chain  *)
(* at a position, and a copy number.  One canonical query reads them; the  *)
(* others read nothing but its result, `events'.                           *)
(***************************************************************************)
EXTENDS RegistryLog, FiniteSets

TableRows == [chain : Chains, at : Nat, copy : {1, 2}, event : Entries]

\* Mutant: no row_number() over the event_id.
all_decoded(table) == {r \in table : r.event.address = "nexa"}
\* canonical-events.sql: the deployment's own contracts, one row per event_id.
canonical(table) ==
  {r \in table :
     /\ r.event.address = "nexa"
     /\ ~\E q \in table : q.copy < r.copy /\ q.chain = r.chain /\ q.at = r.at}

eventRows(events, kind, c, k) ==
  {r \in events : r.event.key = k /\ r.event.kind = kind /\ r.chain = c}

\* Mutant: ORDER BY without DESC.
first(found) == {r \in found : \A q \in found : q.at >= r.at}
\* row_number() OVER (PARTITION BY chain_id, key ORDER BY block_number DESC,
\* event_index DESC) = 1
latest(found) == {r \in found : \A q \in found : q.at <= r.at}
valueOf(found) ==
  IF found = {} THEN Absent
  ELSE LET r == CHOOSE r \in latest(found) : TRUE IN r.event.value

\* networks-current.sql, assets-current.sql and routes-current.sql: the latest
\* registration, joined with the latest status.  No status row is NULL, which
\* stands for REGISTERED.
current(events, c, k) ==
  LET registrations == eventRows(events, "Registered", c, k)
      statuses == eventRows(events, "StatusChanged", c, k)
  IN  IF registrations = {} THEN Absent
      ELSE IF statuses = {} THEN [val |-> REGISTERED, gen |-> 1]
      ELSE valueOf(statuses)

\* router-state.sql and standard-modules-current.sql
routerState(events, c) ==
  valueOf(eventRows(events, "SourceIntakeConfigured", c, Router))
standardModule(events, c, k) ==
  valueOf(eventRows(events, "StandardModuleConfigured", c, k))

\* source-fills.sql
sourceFill(events, c, f) == valueOf(eventRows(events, "SourceFill", c, f))

\* overview.sql: distinct registrations and plain counts.
registered(events, c, items) ==
  Cardinality({k \in items : eventRows(events, "Registered", c, k) # {}})
source_fill_count(events, c) ==
  Cardinality(UNION {eventRows(events, "SourceFill", c, f) : f \in Fills})
source_intake_events(events, c) ==
  Cardinality(eventRows(events, "SourceIntakeConfigured", c, Router))

QueriedValue(events, c, k) ==
  CASE k \in Items -> current(events, c, k)
    [] k = Router -> routerState(events, c)
    [] k \in Standards -> standardModule(events, c, k)
    [] k \in Fills -> sourceFill(events, c, k)
=============================================================================
