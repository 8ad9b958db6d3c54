------------------------------- MODULE Ithread -------------------------------
(***************************************************************************)
(* Interrupt threads (sys/kern/kern_intr.c): a thread that runs the        *)
(* handlers on its list, while interrupts are scheduled, handlers are      *)
(* added and removed, and the thread itself is destroyed.                  *)
(*                                                                         *)
(* The thread walks its list without a lock.  Sections under it_lock and   *)
(* sched_lock are one step each, and so are the accesses to the flags that *)
(* the thread and the interrupts share without one.  A request that is     *)
(* refused (INTR_EXCL, a thread that still has handlers) changes nothing.  *)
(* INTR_FAST handlers are not called by the thread and are left out.       *)
(***************************************************************************)
EXTENDS Integers, Sequences, FiniteSets, SequencesExt, Queue

CONSTANTS
    Handlers,   \* struct intrhand: one that is freed may be allocated again
    ih_pri,     \* the priority of each, smaller first
    NULL

ASSUME IthreadAssumption == ih_pri \in [Handlers -> Nat] /\ NULL \notin Handlers

VARIABLES
    it_flags,       \* of IT_SOFT and IT_DEAD
    it_need,
    it_handlers,    \* the list
    it_pc,          \* "iwait", or where the thread is in ithread_loop
    ih,             \* its pointer into the list
    ih_need,
    ih_dead,        \* the handlers with IH_DEAD
    owner,          \* each handler's client: "none", "added", "removing" (asleep), "removed" (woken)
    source,         \* each handler's interrupt: "idle", or where it is in ithread_schedule
    owed            \* history: scheduled and not called since

ithread_vars == <<it_flags, it_need, it_handlers, it_pc, ih, ih_need, ih_dead, owner, source, owed>>

(* ithread_create with some flags, and the handlers added at boot. *)
IthreadInit(flags, list) ==
    /\ it_flags = flags
    /\ it_need = FALSE
    /\ it_handlers = list
    /\ it_pc = "iwait"
    /\ ih = NULL
    /\ ih_need = [h \in Handlers |-> FALSE]
    /\ ih_dead = {}
    /\ owner = [h \in Handlers |-> IF h \in ToSet(list) THEN "added" ELSE "none"]
    /\ source = [h \in Handlers |-> "idle"]
    /\ owed = [h \in Handlers |-> FALSE]

Soft == "IT_SOFT" \in it_flags

-----------------------------------------------------------------------------
(* The clients of the thread. *)

(* Sorted by priority, after those of the same priority. *)
Inserted(h) ==
    LET after == SelectInSeq(it_handlers, LAMBDA o : ih_pri[o] > ih_pri[h])
    IN  InsertAt(it_handlers, IF after = 0 THEN Len(it_handlers) + 1 ELSE after, h)

(* Clients add handlers to a thread that has not been destroyed: destroying*)
(* it frees it, and the code does not look.                                *)
ithread_add_handler(h) ==
    /\ owner[h] = "none" /\ "IT_DEAD" \notin it_flags
    /\ it_handlers' = Inserted(h)
    /\ owner' = [owner EXCEPT ![h] = "added"]
    /\ ih_need' = [ih_need EXCEPT ![h] = FALSE]
    /\ ih_dead' = ih_dead \ {h}
    /\ UNCHANGED <<it_flags, it_need, it_pc, ih, source, owed>>

(* Mutant: the thread is not told to make another pass. *)
RemoveSilently(h) ==
    /\ owner[h] = "added" /\ source[h] = "idle"
    /\ \/ /\ it_pc = "iwait"
          /\ it_handlers' = Dequeued(it_handlers, {h})
          /\ owner' = [owner EXCEPT ![h] = "none"]
          /\ UNCHANGED ih_dead
       \/ /\ it_pc # "iwait"
          /\ ih_dead' = ih_dead \cup {h}
          /\ owner' = [owner EXCEPT ![h] = "removing"]
          /\ UNCHANGED it_handlers
    /\ owed' = [owed EXCEPT ![h] = FALSE]
    /\ UNCHANGED <<it_flags, it_need, it_pc, ih, ih_need, source>>

(* Mutant: a handler is taken off the list while the thread runs. *)
RemoveAlways(h) ==
    /\ owner[h] = "added" /\ source[h] = "idle"
    /\ it_handlers' = Dequeued(it_handlers, {h})
    /\ owner' = [owner EXCEPT ![h] = "none"]
    /\ owed' = [owed EXCEPT ![h] = FALSE]
    /\ UNCHANGED <<it_flags, it_need, it_pc, ih, ih_need, ih_dead, source>>

(* The caller sees to it that the handler is not scheduled any more.  If   *)
(* the thread is idle the handler goes at once, else the thread is to      *)
(* remove it and the caller sleeps.                                        *)
ithread_remove_handler(h) ==
    /\ owner[h] = "added" /\ source[h] = "idle"
    /\ \/ /\ it_pc = "iwait"
          /\ it_handlers' = Dequeued(it_handlers, {h})
          /\ owner' = [owner EXCEPT ![h] = "none"]
          /\ UNCHANGED <<it_need, ih_dead>>
       \/ /\ it_pc # "iwait"
          /\ ih_dead' = ih_dead \cup {h}
          /\ it_need' = TRUE
          /\ owner' = [owner EXCEPT ![h] = "removing"]
          /\ UNCHANGED it_handlers
    /\ owed' = [owed EXCEPT ![h] = FALSE]
    /\ UNCHANGED <<it_flags, it_pc, ih, ih_need, source>>

(* The caller runs again and frees the handler. *)
RemoveReturns(h) ==
    /\ owner[h] = "removed"
    /\ owner' = [owner EXCEPT ![h] = "none"]
    /\ UNCHANGED <<it_flags, it_need, it_handlers, it_pc, ih, ih_need, ih_dead, source, owed>>

ithread_destroy ==
    /\ "IT_DEAD" \notin it_flags /\ it_handlers = <<>>
    /\ it_flags' = it_flags \cup {"IT_DEAD"}
    /\ it_pc' = IF it_pc = "iwait" THEN "top" ELSE it_pc
    /\ UNCHANGED <<it_need, it_handlers, ih, ih_need, ih_dead, owner, source, owed>>

(* swi_sched() sets ih_need first, and no more with SWI_DELAY; a hardware  *)
(* interrupt goes straight to ithread_schedule().                          *)
Interrupt(h, delay) ==
    /\ owner[h] = "added" /\ source[h] = "idle"
    /\ ih_need' = IF Soft THEN [ih_need EXCEPT ![h] = TRUE] ELSE ih_need
    /\ Soft \/ ~delay
    /\ source' = [source EXCEPT ![h] = IF delay THEN "idle" ELSE "need"]
    /\ owed' = [owed EXCEPT ![h] = @ \/ ~delay]
    /\ UNCHANGED <<it_flags, it_need, it_handlers, it_pc, ih, ih_dead, owner>>

(* ithread_schedule: first it_need, ... *)
ScheduleNeed(h) ==
    /\ source[h] = "need"
    /\ it_need' = TRUE
    /\ source' = [source EXCEPT ![h] = "wake"]
    /\ UNCHANGED <<it_flags, it_handlers, it_pc, ih, ih_need, ih_dead, owner, owed>>

(* ... then, under sched_lock, the thread. *)
ScheduleWake(h) ==
    /\ source[h] = "wake"
    /\ it_pc' = IF it_pc = "iwait" THEN "top" ELSE it_pc
    /\ source' = [source EXCEPT ![h] = "idle"]
    /\ UNCHANGED <<it_flags, it_need, it_handlers, ih, ih_need, ih_dead, owner, owed>>

-----------------------------------------------------------------------------
(* ithread_loop *)

FirstHandler == IF it_handlers = <<>> THEN NULL ELSE Head(it_handlers)

NextOf(h) ==
    LET i == SelectInSeq(it_handlers, LAMBDA o : o = h)
    IN  IF i \in 1..Len(it_handlers) - 1 THEN it_handlers[i + 1] ELSE NULL

(* The test of IT_DEAD. *)
LoopTop ==
    /\ it_pc = "top"
    /\ it_pc' = IF "IT_DEAD" \in it_flags THEN "exited" ELSE "while"
    /\ UNCHANGED <<it_flags, it_need, it_handlers, ih, ih_need, ih_dead, owner, source, owed>>

(* while (it_need): clear it and start a pass. *)
LoopWhile ==
    /\ it_pc = "while"
    /\ it_need' = FALSE
    /\ it_pc' = IF it_need THEN "scan" ELSE "suspend"
    /\ ih' = IF it_need THEN FirstHandler ELSE NULL
    /\ UNCHANGED <<it_flags, it_handlers, ih_need, ih_dead, owner, source, owed>>

(* One handler: skip it, remove it or call it. *)
Scan ==
    /\ it_pc = "scan"
    /\ \/ /\ ih = NULL
          /\ it_pc' = "while"
          /\ UNCHANGED <<ih, ih_need>>
       \/ /\ ih # NULL /\ Soft /\ ~ih_need[ih]
          /\ ih' = NextOf(ih)
          /\ UNCHANGED <<it_pc, ih_need>>
       \/ /\ ih # NULL /\ (Soft => ih_need[ih])
          /\ ih_need' = [ih_need EXCEPT ![ih] = FALSE]
          /\ it_pc' = IF ih \in ih_dead THEN "remove" ELSE "call"
          /\ UNCHANGED ih
    /\ UNCHANGED <<it_flags, it_need, it_handlers, ih_dead, owner, source, owed>>

(* Under it_lock: take the handler off, wake the remover, and restart. *)
RemoveDead ==
    /\ it_pc = "remove"
    /\ it_handlers' = Dequeued(it_handlers, {ih})
    /\ owner' = [owner EXCEPT ![ih] = "removed"]
    /\ it_pc' = "scan"
    /\ ih' = IF it_handlers' = <<>> THEN NULL ELSE Head(it_handlers')
    /\ UNCHANGED <<it_flags, it_need, ih_need, ih_dead, source, owed>>

(* The handler is called, after Giant if it needs it, ... *)
Call ==
    /\ it_pc = "call"
    /\ it_pc' = "handler"
    /\ owed' = [owed EXCEPT ![ih] = FALSE]
    /\ UNCHANGED <<it_flags, it_need, it_handlers, ih, ih_need, ih_dead, owner, source>>

(* ... and returns. *)
HandlerReturns ==
    /\ it_pc = "handler"
    /\ it_pc' = "scan"
    /\ ih' = NextOf(ih)
    /\ UNCHANGED <<it_flags, it_need, it_handlers, ih_need, ih_dead, owner, source, owed>>

(* Mutant: it_need is not looked at again under sched_lock. *)
SuspendAnyway ==
    /\ it_pc = "suspend"
    /\ it_pc' = "iwait"
    /\ UNCHANGED <<it_flags, it_need, it_handlers, ih, ih_need, ih_dead, owner, source, owed>>

(* Under sched_lock: idle, unless another interrupt has come. *)
Suspend ==
    /\ it_pc = "suspend"
    /\ it_pc' = IF it_need THEN "top" ELSE "iwait"
    /\ UNCHANGED <<it_flags, it_need, it_handlers, ih, ih_need, ih_dead, owner, source, owed>>

Loop == LoopTop \/ LoopWhile \/ Scan \/ RemoveDead \/ Call \/ Suspend

Clients(h) ==
    \/ ithread_add_handler(h)
    \/ ithread_remove_handler(h)
    \/ \E delay \in BOOLEAN : Interrupt(h, delay)

Scheduling(h) == ScheduleNeed(h) \/ ScheduleWake(h) \/ RemoveReturns(h)

-----------------------------------------------------------------------------
(* Properties. *)

(* The thread never has a pointer to a handler that was freed, and never   *)
(* calls one after its removal has returned, although the list is changed  *)
(* while the thread walks it without a lock.                               *)
HandlerAlive ==
    ih # NULL => /\ ih \in ToSet(it_handlers)
                 /\ owner[ih] \in {"added", "removing"}

(* No interrupt is lost: a scheduled handler is called or removed, whether *)
(* it is scheduled while the thread is idle, on its way to sleep, before   *)
(* or behind the handler in its pass, or inside that very handler;         *)
(* provided that the handlers that are called return.                      *)
HandlersServed == []<>(it_pc # "handler") => \A h \in Handlers : owed[h] ~> ~owed[h]

(* A removal returns, wherever the thread is in its list when the handler  *)
(* is marked dead; on a software interrupt thread, if the handler is then  *)
(* still scheduled.                                                        *)
RemovalsReturn ==
    \A h \in Handlers :
        (owner[h] = "removing" /\ (Soft => ih_need[h])) ~> (owner[h] # "removing")

=============================================================================
