---------------------------- MODULE SearchEvents ----------------------------
(***************************************************************************)
(* `search` with changed(): search_event_collect reports the ticks of the  *)
(* window at which a clause fires: all its changed() signals transition    *)
(* and its level terms hold on the values the tick leaves.                 *)
(***************************************************************************)
EXTENDS Clauses

CONSTANT EventSid  \* signals of kind `event`: every record of one is a change

VARIABLES
  stream,     \* the buffered events, ticks 0..t1
  q,          \* the resolved command line
  pos,        \* the loop's position in the stream
  state,      \* values after the last processed group
  group,      \* the changes of tick cur_t, in stream order
  cur_t,
  events,
  total,
  truncated,
  pc          \* "loop", then "done"

vars == <<stream, q, pos, state, group, cur_t, events, total, truncated, pc>>

-----------------------------------------------------------------------------

(* Against the values before the group: what was undefined at tick 0 is    *)
(* initialised and an ordinary signal is defined, but not changed.         *)
IsChange(e, gt) ==
  IF gt = 0 /\ state[e.sid] = Undef THEN FALSE
  ELSE e.sid \in EventSid \/ (state[e.sid] # Undef /\ state[e.sid] # e.val)

Changed == {group[i].sid : i \in {j \in DOMAIN group : IsChange(group[j], cur_t)}}

(* The last change of a signal within the group stays.                     *)
AfterGroup ==
  [s \in Sid |->
     LET of == {i \in DOMAIN group : group[i].sid = s}
     IN  IF of = {} THEN state[s]
         ELSE group[CHOOSE i \in of : \A j \in of : j <= i].val]

Fires == any_clause_holds(AfterGroup, Changed, q.clauses)

(* process_group, and the row it may fire.                                 *)
ProcessGroup ==
  /\ state' = AfterGroup
  /\ IF Fires
     THEN /\ total' = total + 1
          /\ IF q.limit # 0 /\ Len(events) >= q.limit
             THEN truncated' = TRUE /\ UNCHANGED events
             ELSE /\ events' = Append(events,
                       [tick |-> cur_t, values |-> show_values(AfterGroup, q.show)])
                  /\ UNCHANGED truncated
     ELSE UNCHANGED <<total, events, truncated>>

Event == stream[pos]

Looping == pc = "loop" /\ pos <= Len(stream)

(* Edge semantics: a change at t0 itself is inside the window.             *)
InBaseline(tick) == tick < q.t0

Baseline ==
  /\ Looping
  /\ InBaseline(Event.tick)
  /\ state' = Apply(state, Event)
  /\ pos' = pos + 1
  /\ UNCHANGED <<stream, q, group, cur_t, events, total, truncated, pc>>

SameTick ==
  /\ Looping
  /\ ~InBaseline(Event.tick)
  /\ cur_t \in {None, Event.tick}
  /\ cur_t' = Event.tick
  /\ group' = Append(group, Event)
  /\ pos' = pos + 1
  /\ UNCHANGED <<stream, q, state, events, total, truncated, pc>>

NextTick ==
  /\ Looping
  /\ ~InBaseline(Event.tick)
  /\ cur_t \notin {None, Event.tick}
  /\ ProcessGroup
  /\ IF truncated'
     THEN pc' = "done" /\ UNCHANGED <<cur_t, group, pos>>
     ELSE /\ cur_t' = Event.tick
          /\ group' = <<Event>>
          /\ pos' = pos + 1
          /\ UNCHANGED pc
  /\ UNCHANGED <<stream, q>>

(* Wrong variant: the group still pending when the stream ends is lost.    *)
FinishForgetsGroup ==
  /\ pc = "loop"
  /\ pos > Len(stream)
  /\ pc' = "done"
  /\ UNCHANGED <<stream, q, pos, state, group, cur_t, events, total, truncated>>

Finish ==
  /\ pc = "loop"
  /\ pos > Len(stream)
  /\ IF group # << >> THEN ProcessGroup
                      ELSE UNCHANGED <<state, events, total, truncated>>
  /\ pc' = "done"
  /\ UNCHANGED <<stream, q, pos, group, cur_t>>

Next == Baseline \/ SameTick \/ NextTick \/ Finish
=============================================================================
