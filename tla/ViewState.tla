----------------------------- MODULE ViewState -----------------------------
(* The state of a materialized view (src/cdc.rs): the latest source row of *)
(* every key and, for every group, a member count and one accumulator per  *)
(* aggregate, kept up to date row by row.  A row is a record with its      *)
(* group_by value g and its aggregated number v; a spec is the set of      *)
(* groups that its filter lets through.  Numbers are exact: the rounding   *)
(* of the f64 sums is not modelled.                                        *)
EXTENDS Integers, FiniteSetsExt, Functions, TLC

CONSTANTS
    Keys,      \* keys of the source table
    Groups,    \* values of the group_by column
    NoRow,     \* the key holds no row
    NoGroup,   \* the view has no such group
    NoCount    \* a group written before groups kept a row_count

\* MaterializedViewState of a view that has seen no row.
EmptyState == [source_rows |-> [k \in Keys |-> NoRow], groups |-> [g \in Groups |-> NoGroup]]

\* initial_aggregates, and the row_count of a new group.
NewGroup == [row_count |-> 0, count |-> 0, sum |-> 0]

row_matches(spec, row) == row.g \in spec

\* apply_aggregate_delta for Count, Sum and Avg, whose state is a sum and a
\* count, with the row_count next to it.
apply_aggregate_delta(group, row, sign) ==
    [row_count |-> group.row_count + sign,
     count     |-> group.count + sign,
     sum       |-> group.sum + sign * row.v]

group_is_empty(group) == group.row_count = 0

add_row_to_groups(spec, groups, row) ==
    IF ~row_matches(spec, row) THEN groups
    ELSE [groups EXCEPT ![row.g] =
            apply_aggregate_delta(IF @ = NoGroup THEN NewGroup ELSE @, row, 1)]

\* The group goes with its last member.
remove_row_from_groups(spec, groups, row) ==
    IF ~row_matches(spec, row) \/ groups[row.g] = NoGroup THEN groups
    ELSE LET left == apply_aggregate_delta(groups[row.g], row, -1)
         IN  [groups EXCEPT ![row.g] = IF group_is_empty(left) THEN NoGroup ELSE left]

\* The groups once the row stored for the key is taken out of them.
WithoutOld(spec, state, key) ==
    IF state.source_rows[key] = NoRow THEN state.groups
    ELSE remove_row_from_groups(spec, state.groups, state.source_rows[key])

\* apply_view_event: an Upsert, or a Delete when the row is NoRow.
apply_view_event(spec, state, key, row) ==
    [source_rows |-> [state.source_rows EXCEPT ![key] = row],
     groups      |-> IF row = NoRow THEN WithoutOld(spec, state, key)
                     ELSE add_row_to_groups(spec, WithoutOld(spec, state, key), row)]

\* The events of one commit that wrote the rows of the function `rows`.
ApplyRows(spec, state, rows) ==
    FoldSet(LAMBDA k, s : apply_view_event(spec, s, k, rows[k]), state, DOMAIN rows)

\* seed_view_from_source_rows
seed_view_from_source_rows(spec, rows) ==
    ApplyRows(spec, EmptyState, Restrict(rows, {k \in Keys : rows[k] # NoRow}))

\* upgrade_legacy_view_counts: groups without a row_count are recounted, and
\* the empty ones dropped.
upgrade_legacy_view_counts(spec, state) ==
    LET members(g) == {k \in Keys : /\ state.source_rows[k] # NoRow
                                    /\ row_matches(spec, state.source_rows[k])
                                    /\ state.source_rows[k].g = g}
        legacy == \E g \in Groups : /\ state.groups[g] # NoGroup
                                    /\ state.groups[g].row_count = NoCount
    IN  IF ~legacy THEN state
        ELSE [state EXCEPT !.groups = [g \in Groups |->
                IF state.groups[g] = NoGroup \/ members(g) = {} THEN NoGroup
                ELSE [state.groups[g] EXCEPT !.row_count = Cardinality(members(g))]]]

\* The groups a query over the rows would return.
GroupBy(spec, rows) ==
    [g \in Groups |->
        LET ks == {k \in Keys : rows[k] # NoRow /\ rows[k].g = g}
        IN  IF g \notin spec \/ ks = {} THEN NoGroup
            ELSE [row_count |-> Cardinality(ks),
                  count     |-> Cardinality(ks),
                  sum       |-> MapThenSumSet(LAMBDA k : rows[k].v, ks)]]
=============================================================================
