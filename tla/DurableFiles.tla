--------------------------- MODULE DurableFiles ---------------------------
(***************************************************************************)
(* What a store of whole files promises to a program that may be killed.   *)
(* `versions` is the list of contents a restart could still find: its      *)
(* first member is the last synchronised state of every file, its last     *)
(* member what the running program wrote.  A file is replaced as a whole,  *)
(* a synchronisation forgets what came before, and a crash keeps one of    *)
(* the versions, never a mixture of two.                                   *)
(***************************************************************************)
EXTENDS Naturals, Sequences

CONSTANTS Files,      \* the files of the store
          Contents    \* what a file may hold, absence included

VARIABLE versions

Images == [Files -> Contents]

Init == \E image \in Images : versions = << image >>

Latest(list) == list[Len(list)]

\* One file is replaced, in memory or in a buffer of the device.
Put(old, new) ==
  /\ Len(new) = Len(old) + 1
  /\ SubSeq(new, 1, Len(old)) = old
  /\ Latest(new) \in Images
  /\ \E f \in Files : \A g \in Files \ {f} : Latest(new)[g] = Latest(old)[g]

\* Everything written so far is durable.
Sync(old, new) == new = << Latest(old) >>

\* The device keeps everything up to some write and loses what followed.
Crash(old, new) == \E i \in 1..Len(old) : new = << old[i] >>

Next == \E old \in {versions}, new \in {versions'} :
          Put(old, new) \/ Sync(old, new) \/ Crash(old, new)

Spec == Init /\ [][Next]_versions

=============================================================================
