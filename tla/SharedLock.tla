----------------------------- MODULE SharedLock -----------------------------
(***************************************************************************)
(* What a sleeping lock of the kernel promises: at any time either at most *)
(* one thread holds it exclusively or any number of threads share it.      *)
(* Module RwMutex implements it, and so does module Mutex, which is never  *)
(* shared.                                                                 *)
(***************************************************************************)
EXTENDS Naturals

CONSTANT Threads

VARIABLES
  readers,  \* threads that share the lock
  writers   \* threads that hold it exclusively

vars == <<readers, writers>>

Init == readers = {} /\ writers = {}

Share(t) ==
  /\ writers = {}
  /\ t \notin readers
  /\ readers' = readers \cup {t}
  /\ UNCHANGED writers

Unshare(t) ==
  /\ t \in readers
  /\ readers' = readers \ {t}
  /\ UNCHANGED writers

Own(t) ==
  /\ readers = {} /\ writers = {}
  /\ writers' = {t}
  /\ UNCHANGED readers

Disown(t) ==
  /\ t \in writers
  /\ writers' = writers \ {t}
  /\ UNCHANGED readers

Next == \E t \in Threads : Share(t) \/ Unshare(t) \/ Own(t) \/ Disown(t)

Spec == Init /\ [][Next]_vars
=============================================================================
