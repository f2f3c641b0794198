--------------------------- MODULE MCFrameAllocator ---------------------------
(* FrameAllocator for TLC *)
EXTENDS FrameAllocator

(* The owners may leave the number of any frame in a frame, which is the    *)
(* worst a stray word can do to a linked list.                              *)
MCWord == 0 .. FRAMES
=============================================================================
