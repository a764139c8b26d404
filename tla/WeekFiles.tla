------------------------------- MODULE WeekFiles -------------------------------
(***************************************************************************)
(* What the log store promises for its week files: every operation takes   *)
(* effect at one instant between its call and its answer.  An append that  *)
(* is answered is in the file until retention deletes the file, a query    *)
(* answers with what the file holds, and a failed operation does nothing.  *)
(***************************************************************************)
CONSTANTS Path, Op

VARIABLES
  stored,  \* the appends each path's file holds
  call,    \* what each operation is doing, or has answered
  loose    \* the paths for which nothing is promised any more

vars == <<stored, call, loose>>

None == [state |-> "idle"]
Pending(kind, p) == [state |-> "pending", kind |-> kind, path |-> p]

Init ==
  /\ stored = [p \in Path |-> {}]
  /\ call = [o \in Op |-> None]
  /\ loose = {}

Answers(o, a) == call' = [call EXCEPT ![o] = a]

Call(o) ==
  /\ call[o].state # "pending"
  /\ \E kind \in {"append", "query", "delete"}, p \in Path : Answers(o, Pending(kind, p))
  /\ UNCHANGED <<stored, loose>>

Append(o) ==
  /\ call[o].state = "pending" /\ call[o].kind = "append"
  /\ stored' = [stored EXCEPT ![call[o].path] = @ \cup {o}]
  /\ Answers(o, [state |-> "ok"])
  /\ UNCHANGED loose

Query(o) ==
  /\ call[o].state = "pending" /\ call[o].kind = "query"
  /\ Answers(o, [state |-> "read", rows |-> stored[call[o].path]])
  /\ UNCHANGED <<stored, loose>>

\* the file is gone before the deletion is answered
Unlink(o) ==
  /\ call[o].state = "pending" /\ call[o].kind = "delete"
  /\ stored' = [stored EXCEPT ![call[o].path] = {}]
  /\ UNCHANGED <<call, loose>>

Deleted(o) ==
  /\ call[o].state = "pending" /\ call[o].kind = "delete"
  /\ Answers(o, [state |-> "ok"])
  /\ UNCHANGED <<stored, loose>>

Fail(o) ==
  /\ call[o].state = "pending"
  /\ Answers(o, None)
  /\ UNCHANGED <<stored, loose>>

Operation(o) == Call(o) \/ Append(o) \/ Query(o) \/ Unlink(o) \/ Deleted(o) \/ Fail(o)

\* a path that has come loose may do anything, for itself and its operations
Loose(p) ==
  /\ loose' \in {loose, loose \cup {p}}
  /\ p \in loose'
  /\ \A q \in Path \ {p} : stored'[q] = stored[q]
  /\ \A o \in Op : call'[o] # call[o] => call[o].state = "pending" /\ call[o].path = p

Next == (\E o \in Op : Operation(o)) \/ (\E p \in Path : Loose(p))

Spec == Init /\ [][Next]_vars
================================================================================
