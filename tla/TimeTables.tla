----------------------------- MODULE TimeTables -----------------------------
(***************************************************************************)
(* project_3: ttables.c draws what a simulator recorded, as one Gantt      *)
(* chart per page of TS_PER_SLIDE slots.  gen_execution_tables calls it    *)
(* when the simulation is over.  A step is one turn of the loop of         *)
(* write_ttable_slides, with the whole page it writes.                     *)
(*                                                                         *)
(* A page is a record of what LaTeX is told to draw: the range of slots,   *)
(* the bars, the deadlines and the rules that mark a miss.  The simulators *)
(* run apart from each other, and so do their charts: the charts of one    *)
(* policy are those of a behaviour, on slides of their own or side by side *)
(* with those of the other policies.                                       *)
(***************************************************************************)
EXTENDS Simulation, Sequences

CONSTANT TS_PER_SLIDE   \* 30 in the code

ASSUME SlideAssumption == TS_PER_SLIDE \in Nat \ {0}

VARIABLES start, end,   \* the slots before end are written
          slides        \* the pages written so far

pages == <<start, end, slides>>

-----------------------------------------------------------------------------
(* One page                                                                *)

\* The loop of create_ts_blocks, in slot s: a bar is written when its task
\* ends.
Turn(loop, s, task) ==
  IF task = loop.task
    THEN [loop EXCEPT !.end = s]
    ELSE [task |-> task, start |-> s, end |-> s,
          bars |-> IF loop.task = None THEN loop.bars
                   ELSE loop.bars \cup {<<loop.task, loop.start, loop.end>>}]

LoopStart(first) == [task |-> None, start |-> first, end |-> first, bars |-> {}]

\* Mutant: no extra turn after the last slot.
BarsOfFinished(first, last) ==
  LET loop[s \in first - 1 .. last] ==
        IF s < first THEN LoopStart(first) ELSE Turn(loop[s - 1], s, ts[s])
  IN  loop[last].bars

create_ts_blocks(first, last) ==
  LET task(s) == IF s = last + 1 THEN None ELSE ts[s]
      loop[s \in first - 1 .. last + 1] ==
        IF s < first THEN LoopStart(first) ELSE Turn(loop[s - 1], s, task(s))
  IN  loop[last + 1].bars

append_deadlines(first, last) ==
  {mark \in Tasks \X (first .. last) : Deadline(mark[1], mark[2])}

\* Mutant: the rule has to be within the page.
MissesWithin(first, last) ==
  IF first <= missIdx /\ missIdx <= last THEN {<<misses, missIdx>>} ELSE {}
\* append_misses, and the test before it.
append_misses(first, last) ==
  IF first <= missIdx /\ missIdx <= last + 1 THEN {<<misses, missIdx>>} ELSE {}

write_ttable(first, last) ==
  [first |-> first, last |-> last,
   bars |-> create_ts_blocks(first, last),
   deadlines |-> append_deadlines(first, last),
   rules |-> append_misses(first, last)]

-----------------------------------------------------------------------------
(* The pages                                                               *)

TablesInit ==
  /\ Init
  /\ start = 0 /\ end = 0 /\ slides = <<>>

Simulate == Next /\ UNCHANGED pages

\* Mutant: the next page starts after the slot at which this one ends.
NextStart(next) == next + 1
\* The start of the next page.
StartAfter(next) == next

WritePage ==
  /\ Over /\ end < hyper
  /\ LET next == Min({end + TS_PER_SLIDE, hyper})
     IN  /\ slides' = Append(slides, write_ttable(start, next - 1))
         /\ end' = next
         /\ start' = StartAfter(next)
  /\ UNCHANGED vars

TablesNext == Simulate \/ WritePage
TablesVars == <<vars, pages>>

\* A sequential program: it goes on to its end.
TablesSpec == TablesInit /\ [][TablesNext]_TablesVars /\ WF_TablesVars(TablesNext)

-----------------------------------------------------------------------------
(* What the pages show                                                     *)

Slots(page) == page.first .. page.last
PagesWith(s) == {k \in DOMAIN slides : s \in Slots(slides[k])}
BarsOver(s) == {bar \in UNION {slides[k].bars : k \in DOMAIN slides} :
                  s \in bar[2] .. bar[3]}
RulePages == {k \in DOMAIN slides : slides[k].rules # {}}
Written == Over /\ end = hyper

\* The types of Simulation, and where the writer is.
TablesTypeOK ==
  /\ TypeOK
  /\ start \in 0 .. hyper /\ end \in 0 .. hyper
  /\ end > 0 => Over
  /\ \A k \in DOMAIN slides : slides[k].first \in Int /\ slides[k].last \in Int

(* The slides are the simulated schedule: each slot written so far is on   *)
(* one page, and the only bar over it is one of the task that had it; an   *)
(* idle slot has none.  A task that keeps the processor across the edge of *)
(* a page has a bar on both, and no longer bar is cut in two.              *)
SlidesShowSchedule ==
  \A s \in 0 .. end - 1 :
    /\ Cardinality(PagesWith(s)) = 1
    /\ {bar[1] : bar \in BarsOver(s)} = {ts[s]} \ {None}
    /\ Cardinality(BarsOver(s)) <= 1
    /\ s > 0 /\ ts[s - 1] = ts[s] /\ PagesWith(s - 1) = PagesWith(s) =>
         BarsOver(s - 1) = BarsOver(s)

\* The slots that the slides give to task i from first to last - 1.
DrawnFor(i, first, last) == {s \in first .. last - 1 :
                               \E bar \in BarsOver(s) : bar[1] = i}
\* The last period of each task that ends in slot s falls short, as drawn.
DrawnShort(s) ==
  {i \in Tasks : /\ s > 0 /\ Deadline(i, s)
                 /\ Cardinality(DrawnFor(i, s - Period(i), s)) < Execution(i)}

(* The rule is drawn if and only if a deadline is missed, at the end of    *)
(* the hyperperiod too, where no slot is drawn.  Its labels are the tasks  *)
(* whose bars before it fall short, and no deadline before it does.  It is *)
(* drawn on two pages only when it is the edge between them.               *)
MissShown ==
  Written =>
    /\ RulePages = {} <=> missIdx = None
    /\ \A k \in RulePages : \A rule \in slides[k].rules :
         /\ rule[1] = DrawnShort(rule[2])
         /\ \A s \in 1 .. rule[2] - 1 : DrawnShort(s) = {}
    /\ Cardinality(RulePages) > 1 =>
         \E k \in RulePages : RulePages = {k - 1, k} /\ slides[k].first = missIdx
=============================================================================
