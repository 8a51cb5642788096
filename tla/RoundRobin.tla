----------------------------- MODULE RoundRobin -----------------------------
(***************************************************************************)
(* What the scheduler of mkrn promises to its threads (sys/thread.h): they *)
(* take turns in ring order, a turn may end anywhere outside a section     *)
(* that runs with interrupts off, and a thread that gets its turn back     *)
(* goes on exactly where it was.                                           *)
(***************************************************************************)
CONSTANTS Thread, Users, Yielders, NULL

VARIABLES head, succ, running, at

rrvars == <<head, succ, running, at>>

\* The sections between cli_save() and sti_restore().
Critical == {"klog_on", "klog_off", "klog_rst"}

Init ==
  /\ head = NULL /\ running = NULL
  /\ succ = [t \in Thread |-> NULL]
  /\ at = [t \in Thread |-> "none"]

Create(t) ==
  /\ running = NULL
  /\ at[t] = "none"
  /\ at' = [at EXCEPT ![t] = "tramp"]
  /\ \/ head = NULL /\ head' = t /\ succ' = [succ EXCEPT ![t] = t]
     \/ head # NULL /\ succ' = [succ EXCEPT ![t] = succ[head], ![head] = t]
                    /\ UNCHANGED head
  /\ UNCHANGED running

Start == /\ running = NULL /\ head # NULL
         /\ running' = head
         /\ UNCHANGED <<head, succ, at>>

\* The control points that may follow p in the program of thread t.
After(t, p) ==
  CASE p = "tramp"    -> {IF t \in Users THEN "user" ELSE "body"}
    [] p = "body"     -> {"klog"}
    [] p = "klog"     -> {"klog_on"}
    [] p = "klog_on"  -> {"klog_off"}
    [] p = "klog_off" -> {"klog_rst"}
    [] p = "klog_rst" -> {IF t \in Yielders THEN "yield" ELSE "body"}
    [] p = "yield"    -> {"body"}
    [] OTHER          -> {}

Step(t) == /\ running = t
           /\ \E p \in After(t, at[t]) : at' = [at EXCEPT ![t] = p]
           /\ UNCHANGED <<head, succ, running>>

\* The turn passes on, but not inside a critical section.
Rotate == /\ running # NULL
          /\ at[running] \notin Critical
          /\ running' = succ[running]
          /\ UNCHANGED <<head, succ, at>>

Next == \/ \E t \in Thread : Create(t) \/ Step(t)
        \/ Start
        \/ Rotate

\* A thread steps through its critical sections; the ring starts and turns.
Fairness == /\ WF_rrvars(Start)
            /\ SF_rrvars(Rotate)
            /\ \A t \in Thread : WF_rrvars(at[t] \in Critical /\ Step(t))
Spec == Init /\ [][Next]_rrvars /\ Fairness

=============================================================================
