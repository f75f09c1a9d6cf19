---------------------------- MODULE MCGraphics ----------------------------
(* Instances of Graphics for TLC: a screen of 32 x 2 pixels and small buffers. *)
EXTENDS Graphics, TLC

\* A planar buffer whose rows are no multiple of the alignment.
MCShapes == {[format |-> "YV12", width |-> 18, height |-> 2]}

\* The screen; and one that is narrower and lower.
MCScreen == {ScreenShape}
MCSmaller == {ScreenShape, [format |-> "RGB_565", width |-> 5, height |-> 1]}

\* Handles and pages differ in nothing but their names.
MCSymmetry == Permutations(Cells) \union Permutations(Pages)
=============================================================================
