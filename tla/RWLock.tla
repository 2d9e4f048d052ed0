------------------------------- MODULE RWLock -------------------------------
(***************************************************************************)
(* What netwib_thread_rwlock_* promises: many readers or one writer.       *)
(***************************************************************************)
CONSTANTS Thread, Nobody

VARIABLES readers, writer

Init == readers = {} /\ writer = Nobody

ReadBegins(t) ==
  /\ writer = Nobody
  /\ readers' = readers \cup {t}
  /\ UNCHANGED writer

ReadEnds(t) ==
  /\ t \in readers
  /\ readers' = readers \ {t}
  /\ UNCHANGED writer

WriteBegins(t) ==
  /\ writer = Nobody
  /\ readers = {}
  /\ writer' = t
  /\ UNCHANGED readers

WriteEnds(t) ==
  /\ writer = t
  /\ writer' = Nobody
  /\ UNCHANGED readers

Next == \E t \in Thread :
          ReadBegins(t) \/ ReadEnds(t) \/ WriteBegins(t) \/ WriteEnds(t)

Spec == Init /\ [][Next]_<<readers, writer>>
============================================================================
