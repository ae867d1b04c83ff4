------------------------------ MODULE MCProc ------------------------------
(* Instances of Proc for TLC. *)
EXTENDS UserCopy, TLC

\* Which frame is which does not matter.
FrameSymmetry == Permutations(Frames)

\* A state up to the names of its frames, for the properties that do not speak of
\* frames: which segments are mapped, which slots have a kernel stack, and how
\* many frames are free.  While no frame has two uses (FramesExclusive), what a
\* state may do next depends on no more than that, so states with one view have
\* the same behaviours up to the names of frames.
FrameView == <<procVars, ctlVars, nextPid, panicked, faults, top,
               [p \in Slots |-> Mapped(p)], [p \in Slots |-> kstk[p] # NoFrame],
               Cardinality(free)>>
=============================================================================
