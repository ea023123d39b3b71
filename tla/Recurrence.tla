----------------------------- MODULE Recurrence -----------------------------
(***************************************************************************)
(* A daily recurring post (calendar/tasks.py): every cycle clones its      *)
(* source, of day 0, for the dates of its rule, up to a horizon, that the  *)
(* rule's ledger does not name.  During a deploy two workers run the cycle *)
(* at once; a worker may die between two dates; people delete occurrences  *)
(* to skip a date, hold the source, or delete it with its rule.            *)
(***************************************************************************)
EXTENDS Naturals

CONSTANTS
    Generators,   \* workers that may run the cycle
    Lookahead,    \* LOOKAHEAD_DAYS
    LastDay,      \* bound: how far the days go
    MaxGeneratorDeaths

ASSUME RecurrenceAssumption == {Lookahead, LastDay, MaxGeneratorDeaths} \subseteq Nat

VARIABLES
    rule,        \* "active", or "gone" with its post
    ledger,      \* RecurrenceRule.generated_dates
    clones,      \* clones[d]: occurrences made for date d, ever
    shown,       \* dates that have an occurrence on the calendar
    held,        \* the source is on hold
    today,
    generator,   \* generator[w]: the cycle of worker w: its dates left, its copy of the ledger
    generatorDeaths

recurrenceVars == <<rule, ledger, clones, shown, held, today, generator, generatorDeaths>>

Dates == 1..LastDay + Lookahead
NotGenerating == [step |-> "idle", dates |-> {}, already |-> {}]

RecurrenceTypeOK ==
    /\ rule \in {"active", "gone"} /\ held \in BOOLEAN
    /\ {ledger, shown} \subseteq SUBSET Dates
    /\ clones \in [Dates -> Nat]
    /\ today \in 0..LastDay /\ generatorDeaths \in 0..MaxGeneratorDeaths
    /\ generator \in [Generators -> [step : {"idle", "going"}, dates : SUBSET Dates, already : SUBSET Dates]]

RecurrenceInit ==
    /\ rule = "active" /\ held = FALSE /\ ledger = {} /\ shown = {}
    /\ clones = [d \in Dates |-> 0]
    /\ today = 0 /\ generatorDeaths = 0
    /\ generator = [w \in Generators |-> NotGenerating]

\* The dates of the rule within the horizon.
Ahead == {d \in Dates : d > today /\ d <= today + Lookahead}

\* _compute_recurrence_dates takes that many steps from the source's date.
MaxRecurrences == 2 * Lookahead

\* Without those that are out of its steps, or the rule, as read, has produced.
DatesDue == {d \in Ahead : d <= MaxRecurrences /\ d \notin ledger}

\* The cycle reads the rule and its source.  A held source is a held series.
StartCycle(w) ==
    /\ generator[w].step = "idle" /\ rule = "active" /\ ~held /\ DatesDue # {}
    /\ generator' = [generator EXCEPT ![w] = [step |-> "going", dates |-> DatesDue, already |-> ledger]]
    /\ UNCHANGED <<rule, ledger, clones, shown, held, today, generatorDeaths>>

\* (Mutant of LedgerSeenBy: no second look, under the lock.)
LedgerSeenByCycle(w) == generator[w].already

\* The ledger, read again under the lock of the rule's row.
LedgerSeenBy(w) == ledger

\* One date, in a transaction of its own: the clone and its line in the ledger.
\* A rule that is gone ends the cycle.
GenerateDate(w) ==
    LET d == CHOOSE x \in generator[w].dates : \A y \in generator[w].dates : x <= y
        already == LedgerSeenBy(w)
    IN /\ generator[w].step = "going" /\ generator[w].dates # {}
       /\ IF rule = "gone"
          THEN /\ generator' = [generator EXCEPT ![w] = NotGenerating]
               /\ UNCHANGED <<ledger, clones, shown>>
          ELSE /\ generator' = [generator EXCEPT ![w].dates = @ \ {d}, ![w].already = already \cup {d}]
               /\ IF d \in already
                  THEN UNCHANGED <<ledger, clones, shown>>
                  ELSE /\ clones' = [clones EXCEPT ![d] = @ + 1]
                       /\ shown' = shown \cup {d}
                       /\ ledger' = already \cup {d}
       /\ UNCHANGED <<rule, held, today, generatorDeaths>>

CycleEnds(w) ==
    /\ generator[w].step = "going" /\ generator[w].dates = {}
    /\ generator' = [generator EXCEPT ![w] = NotGenerating]
    /\ UNCHANGED <<rule, ledger, clones, shown, held, today, generatorDeaths>>

GeneratorDies(w) ==
    /\ generator[w].step = "going"
    /\ generatorDeaths < MaxGeneratorDeaths /\ generatorDeaths' = generatorDeaths + 1
    /\ generator' = [generator EXCEPT ![w] = NotGenerating]
    /\ UNCHANGED <<rule, ledger, clones, shown, held, today>>

\* People: skip a date, hold and release the source, delete it and its rule.
DeleteOccurrence(d) ==
    /\ d \in shown /\ shown' = shown \ {d}
    /\ UNCHANGED <<rule, ledger, clones, held, today, generator, generatorDeaths>>

HoldSource ==
    /\ rule = "active" /\ held' = ~held
    /\ UNCHANGED <<rule, ledger, clones, shown, today, generator, generatorDeaths>>

DeleteSource ==
    /\ rule = "active" /\ rule' = "gone"
    /\ UNCHANGED <<ledger, clones, shown, held, today, generator, generatorDeaths>>

DayPasses ==
    /\ today < LastDay /\ today' = today + 1
    /\ UNCHANGED <<rule, ledger, clones, shown, held, generator, generatorDeaths>>

GeneratorMoves(w) == GenerateDate(w) \/ CycleEnds(w)

RecurrenceNext ==
    \/ \E w \in Generators : StartCycle(w) \/ GeneratorMoves(w) \/ GeneratorDies(w)
    \/ \E d \in Dates : DeleteOccurrence(d)
    \/ HoldSource \/ DeleteSource \/ DayPasses

RecurrenceSpec == RecurrenceInit /\ [][RecurrenceNext]_recurrenceVars

\* The hourly cycle runs, on some worker, whatever it did the hour before.
RecurrenceFairSpec ==
    /\ RecurrenceSpec
    /\ SF_recurrenceVars(\E w \in Generators : StartCycle(w))
    /\ \A w \in Generators : WF_recurrenceVars(GeneratorMoves(w))

-----------------------------------------------------------------------------
\* A date of a series gets its occurrence once: not again from another worker's
\* copy of the ledger, after a death, or because a person deleted it.
EachDateOnce == \A d \in Dates : clones[d] <= 1

\* A series that is neither deleted nor held has its occurrences in the end.
SeriesSettles == <>[](rule = "active" /\ ~held => DatesDue = {})

\* A rule without an end date goes on: once nobody deletes or holds the series
\* any more, all its dates within the horizon get their occurrences ("Null =
\* indefinite", RecurrenceRule.end_date).
SeriesIsIndefinite ==
    <>[](rule = "active" /\ ~held) => <>[](Ahead \subseteq ledger)
===============================================================================
